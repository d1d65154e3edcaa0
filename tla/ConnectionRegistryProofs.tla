----------------------- MODULE ConnectionRegistryProofs -----------------------
(***************************************************************************)
(* Proofs about ConnectionRegistry: whatever scripts, workers, restarts    *)
(* and the shutdown do, in any order and for any number of connections,    *)
(* statements and jobs, a job never borrows a dead statement, a statement  *)
(* is never leaked or closed twice, it is closed by the worker of its      *)
(* connection, and replies are dispatched in submission order.             *)
(*                                                                         *)
(* The argument is about addresses: open connections have different ones,  *)
(* so that every queued job of a statement is in the one queue of the      *)
(* connection at the statement's address, where its teardown is last.  The *)
(* second half, on replies, rests on the first.                            *)
(***************************************************************************)
EXTENDS ConnectionRegistry, SequenceTheorems, FiniteSetTheorems, TLAPS

Jobs == [n : Nat, handle : Nat, conn : Nat, what : {"query", "sync", "exec", "close"},
         stmt : Nat, model : Nat, of : Nat]
Objects == [addr : Addresses, owner : Nat, alive : BOOLEAN, preparedOn : Nat]
Touches(j) == j.what \in {"exec", "close"}

\* The parts of the invariant about statements, as operators of the connections, the
\* queues, the statements that have a handle and the objects.
OneAddress(con) == \A g, h \in DOMAIN con : con[g].addr = con[h].addr => g = h
Queues(con, inp) == DOMAIN inp = DOMAIN con /\ \A h \in DOMAIN inp : inp[h] \in Seq(Jobs)
Heap(own, st) == st \in Seq(Objects) /\ own \subseteq DOMAIN st

\* A job about a statement is in the queue of the connection at its address.
Local(con, inp, st) ==
  \A h \in DOMAIN inp : \A i \in DOMAIN inp[h] :
    Touches(inp[h][i]) =>
      /\ inp[h][i].stmt \in DOMAIN st
      /\ st[inp[h][i].stmt].alive
      /\ st[inp[h][i].stmt].addr = con[h].addr

\* Within a queue a teardown is behind the jobs that borrow the statement, and alone.
TornLast(inp) ==
  \A h \in DOMAIN inp : \A i, k \in DOMAIN inp[h] :
    (inp[h][k].what = "close" /\ inp[h][i].stmt = inp[h][k].stmt) =>
      /\ inp[h][i].what = "exec" => i < k
      /\ inp[h][i].what = "close" => i = k

\* A statement with a handle is alive and not about to be torn down ...
Owned(inp, own, st) ==
  \A o \in own :
    /\ st[o].alive
    /\ \A h \in DOMAIN inp : \A i \in DOMAIN inp[h] :
         inp[h][i].what = "close" => inp[h][i].stmt # o

\* ... and one without a handle that is alive is.
NotLeaked(inp, own, st) ==
  \A o \in DOMAIN st : st[o].alive =>
    \/ o \in own
    \/ \E h \in DOMAIN inp : \E i \in DOMAIN inp[h] :
         inp[h][i].what = "close" /\ inp[h][i].stmt = o

Good(con, inp, own, st) ==
  /\ OneAddress(con) /\ Queues(con, inp) /\ Heap(own, st)
  /\ Local(con, inp, st) /\ TornLast(inp)
  /\ Owned(inp, own, st) /\ NotLeaked(inp, own, st)

-----------------------------------------------------------------------------
(* What each kind of change keeps.                                         *)

\* A job goes to the end of a queue: any job that is not a teardown, and an execute of
\* a statement that has a handle and is at the address of the connection.
LEMMA AppendKeeps ==
  ASSUME NEW con, NEW inp, NEW own, NEW st, Good(con, inp, own, st),
         NEW h \in DOMAIN inp, NEW j \in Jobs, j.what # "close",
         j.what = "exec" => j.stmt \in own /\ st[j.stmt].addr = con[h].addr
  PROVE  Good(con, [inp EXCEPT ![h] = Append(@, j)], own, st)
PROOF
<1> DEFINE new == [inp EXCEPT ![h] = Append(@, j)]
<1>1. /\ DOMAIN new = DOMAIN inp /\ DOMAIN inp = DOMAIN con
      /\ \A g \in DOMAIN inp : inp[g] \in Seq(Jobs)
      /\ \A g \in DOMAIN inp : g # h => new[g] = inp[g]
      /\ new[h] = Append(inp[h], j)
  BY DEF Good, Queues
<1>2. /\ new[h] \in Seq(Jobs) /\ Len(new[h]) = Len(inp[h]) + 1 /\ Len(inp[h]) \in Nat
      /\ \A i \in 1 .. Len(inp[h]) : new[h][i] = inp[h][i]
      /\ new[h][Len(inp[h]) + 1] = j
      /\ DOMAIN new[h] = 1 .. Len(inp[h]) + 1 /\ DOMAIN inp[h] = 1 .. Len(inp[h])
  BY <1>1, AppendProperties, LenProperties
<1> HIDE DEF new
<1>3. Queues(con, new)
  BY <1>1, <1>2 DEF Queues
<1>4. own \subseteq DOMAIN st /\ \A o \in own : st[o].alive
  BY DEF Good, Heap, Owned
<1>5. \A g \in DOMAIN new : \A i \in DOMAIN new[g] :
        \/ i \in DOMAIN inp[g] /\ new[g][i] = inp[g][i]
        \/ g = h /\ i = Len(inp[h]) + 1 /\ new[g][i] = j
  BY SMTT(30), <1>1, <1>2
<1>6. Local(con, new, st)
  BY SMTT(30), <1>1, <1>4, <1>5 DEF Good, Local, Touches
<1>7. TornLast(new)
  <2> SUFFICES ASSUME NEW g \in DOMAIN new, NEW i \in DOMAIN new[g], NEW k \in DOMAIN new[g],
                      new[g][k].what = "close", new[g][i].stmt = new[g][k].stmt
               PROVE  /\ new[g][i].what = "exec" => i < k
                      /\ new[g][i].what = "close" => i = k
    BY DEF TornLast
  <2>1. k \in DOMAIN inp[g] /\ new[g][k] = inp[g][k]
    BY <1>5
  <2>2. CASE i \in DOMAIN inp[g] /\ new[g][i] = inp[g][i]
    BY <1>1, <2>1, <2>2 DEF Good, TornLast
  <2>3. CASE g = h /\ i = Len(inp[h]) + 1 /\ new[g][i] = j
    BY <1>1, <2>1, <2>3 DEF Good, Owned
  <2> QED BY <1>5, <2>2, <2>3
<1>8. Owned(new, own, st)
  BY <1>1, <1>4, <1>5 DEF Good, Owned
<1>9. NotLeaked(new, own, st)
  <2> SUFFICES ASSUME NEW o \in DOMAIN st, st[o].alive, o \notin own
               PROVE  \E g \in DOMAIN new : \E i \in DOMAIN new[g] :
                        new[g][i].what = "close" /\ new[g][i].stmt = o
    BY DEF NotLeaked
  <2>1. PICK g \in DOMAIN inp : \E i \in DOMAIN inp[g] :
               inp[g][i].what = "close" /\ inp[g][i].stmt = o
    BY DEF Good, NotLeaked
  <2>2. PICK i \in DOMAIN inp[g] : inp[g][i].what = "close" /\ inp[g][i].stmt = o
    BY <2>1
  <2>3. i \in DOMAIN new[g] /\ new[g][i] = inp[g][i]
    <3>1. CASE g = h
      BY <1>2, <3>1
    <3>2. CASE g # h
      BY <1>1, <3>2
    <3> QED BY <3>1, <3>2
  <2> QED BY <1>1, <2>2, <2>3
<1> QED BY <1>3, <1>6, <1>7, <1>8, <1>9 DEF Good, new

\* A worker runs the oldest job of its queue; a teardown ends its statement.
Ran(inp, st, h, new, st2) ==
  /\ h \in DOMAIN inp /\ inp[h] # <<>>
  /\ new = [inp EXCEPT ![h] = Tail(@)]
  /\ st2 \in Seq(Objects) /\ DOMAIN st2 = DOMAIN st
  /\ \A o \in DOMAIN st :
       /\ st2[o].addr = st[o].addr
       /\ st2[o].alive <=> st[o].alive /\ ~(Head(inp[h]).what = "close" /\ Head(inp[h]).stmt = o)

LEMMA RunKeeps ==
  ASSUME NEW con, NEW inp, NEW own, NEW st, Good(con, inp, own, st),
         NEW h, NEW new, NEW st2, Ran(inp, st, h, new, st2)
  PROVE  Good(con, new, own, st2)
PROOF
<1> USE DEF Ran
<1> DEFINE j == Head(inp[h])
<1>1. /\ DOMAIN new = DOMAIN inp /\ DOMAIN inp = DOMAIN con
      /\ \A g \in DOMAIN inp : inp[g] \in Seq(Jobs)
      /\ \A g \in DOMAIN inp : g # h => new[g] = inp[g]
      /\ new[h] = Tail(inp[h])
  BY DEF Good, Queues
<1>2. /\ new[h] \in Seq(Jobs) /\ Len(new[h]) = Len(inp[h]) - 1
      /\ \A i \in 1 .. Len(new[h]) : new[h][i] = inp[h][i + 1]
      /\ DOMAIN new[h] = 1 .. Len(inp[h]) - 1 /\ DOMAIN inp[h] = 1 .. Len(inp[h])
      /\ Len(inp[h]) \in Nat /\ Len(inp[h]) > 0 /\ j = inp[h][1]
  <2>1. inp[h] \in Seq(Jobs) /\ new[h] = Tail(inp[h])
    BY <1>1
  <2>2. /\ new[h] \in Seq(Jobs) /\ Len(new[h]) = Len(inp[h]) - 1
        /\ \A i \in 1 .. Len(new[h]) : new[h][i] = inp[h][i + 1]
    BY <2>1, HeadTailProperties
  <2>3. Len(inp[h]) \in Nat /\ Len(inp[h]) > 0 /\ DOMAIN inp[h] = 1 .. Len(inp[h])
    BY <2>1, EmptySeq, LenProperties
  <2>4. DOMAIN new[h] = 1 .. Len(new[h])
    BY <2>2, LenProperties
  <2>5. j = inp[h][1]
    BY <2>1, <2>3
  <2> QED BY <2>2, <2>3, <2>4, <2>5
<1> HIDE DEF j
<1>3. Queues(con, new)
  BY <1>1, <1>2 DEF Queues
\* Where each remaining job was.
<1>4. \A g \in DOMAIN new : \A i \in DOMAIN new[g] :
        \/ g # h /\ i \in DOMAIN inp[g] /\ new[g][i] = inp[g][i]
        \/ g = h /\ i + 1 \in DOMAIN inp[h] /\ i \in Nat /\ i > 0 /\ new[h][i] = inp[h][i + 1]
  BY <1>1, <1>2
\* None of them is about a statement that is torn down.
<1>5. ASSUME NEW g \in DOMAIN new, NEW i \in DOMAIN new[g], Touches(new[g][i])
      PROVE  ~(j.what = "close" /\ j.stmt = new[g][i].stmt)
  <2> SUFFICES ASSUME j.what = "close", j.stmt = new[g][i].stmt
               PROVE  FALSE
    OBVIOUS
  <2>1. 1 \in DOMAIN inp[h] /\ inp[h][1] = j /\ Touches(j)
    BY <1>2 DEF Touches
  <2>2. st[j.stmt].addr = con[h].addr
    BY <1>1, <2>1 DEF Good, Local
  <2>3. CASE g # h /\ i \in DOMAIN inp[g] /\ new[g][i] = inp[g][i]
    <3>1. st[j.stmt].addr = con[g].addr
      BY <1>1, <1>5, <2>3 DEF Good, Local
    <3> QED BY <1>1, <2>2, <2>3, <3>1 DEF Good, OneAddress
  <2>4. CASE g = h /\ i + 1 \in DOMAIN inp[h] /\ i \in Nat /\ i > 0 /\ new[h][i] = inp[h][i + 1]
    <3>1. inp[h][i + 1].what \in {"exec", "close"} /\ inp[h][i + 1].stmt = inp[h][1].stmt
      BY <1>5, <2>1, <2>4 DEF Touches
    <3>2. /\ inp[h][i + 1].what = "exec" => i + 1 < 1
          /\ inp[h][i + 1].what = "close" => i + 1 = 1
      BY <2>1, <2>4, <3>1 DEF Good, TornLast
    <3> QED BY <2>4, <3>1, <3>2
  <2> QED BY <1>4, <2>3, <2>4
<1>6. Local(con, new, st2)
  <2> SUFFICES ASSUME NEW g \in DOMAIN new, NEW i \in DOMAIN new[g], Touches(new[g][i])
               PROVE  /\ new[g][i].stmt \in DOMAIN st2
                      /\ st2[new[g][i].stmt].alive
                      /\ st2[new[g][i].stmt].addr = con[g].addr
    BY DEF Local
  <2>1. /\ new[g][i].stmt \in DOMAIN st /\ st[new[g][i].stmt].alive
        /\ st[new[g][i].stmt].addr = con[g].addr
    <3>1. Local(con, inp, st) /\ h \in DOMAIN inp /\ DOMAIN new = DOMAIN inp
      BY <1>1 DEF Good
    <3>2. CASE g # h /\ i \in DOMAIN inp[g] /\ new[g][i] = inp[g][i]
      <4>1. g \in DOMAIN inp /\ Touches(inp[g][i])
        BY <3>1, <3>2
      <4> QED BY <3>1, <3>2, <4>1 DEF Local
    <3>3. CASE g = h /\ i + 1 \in DOMAIN inp[h] /\ new[h][i] = inp[h][i + 1]
      <4>1. Touches(inp[h][i + 1])
        BY <3>3
      <4> QED BY <3>1, <3>3, <4>1 DEF Local
    <3> QED BY <1>4, <3>2, <3>3
  <2> QED BY <1>5, <2>1 DEF j
<1>7. TornLast(new)
  <2> SUFFICES ASSUME NEW g \in DOMAIN new, NEW i \in DOMAIN new[g], NEW k \in DOMAIN new[g],
                      new[g][k].what = "close", new[g][i].stmt = new[g][k].stmt
               PROVE  /\ new[g][i].what = "exec" => i < k
                      /\ new[g][i].what = "close" => i = k
    BY DEF TornLast
  <2>1. CASE g # h
    BY <1>1, <2>1 DEF Good, TornLast
  <2>2. CASE g = h
    <3>1. /\ i + 1 \in DOMAIN inp[h] /\ i \in Nat /\ new[h][i] = inp[h][i + 1]
          /\ k + 1 \in DOMAIN inp[h] /\ k \in Nat /\ new[h][k] = inp[h][k + 1]
      BY <1>4, <2>2
    <3>2. /\ inp[h][i + 1].what = "exec" => i + 1 < k + 1
          /\ inp[h][i + 1].what = "close" => i + 1 = k + 1
      BY <2>2, <3>1 DEF Good, TornLast
    <3> QED BY <2>2, <3>1, <3>2
  <2> QED BY <2>1, <2>2
<1>8. Owned(new, own, st2)
  <2>1. \A o \in own : o \in DOMAIN st /\ st[o].alive /\ ~(j.what = "close" /\ j.stmt = o)
    BY <1>1, <1>2 DEF Good, Heap, Owned
  <2>2. \A o \in own : \A g \in DOMAIN new : \A i \in DOMAIN new[g] :
          new[g][i].what = "close" => new[g][i].stmt # o
    BY <1>1, <1>4 DEF Good, Owned
  <2> QED BY <2>1, <2>2 DEF Owned, j
<1>9. NotLeaked(new, own, st2)
  <2> SUFFICES ASSUME NEW o \in DOMAIN st2, st2[o].alive, o \notin own
               PROVE  \E g \in DOMAIN new : \E i \in DOMAIN new[g] :
                        new[g][i].what = "close" /\ new[g][i].stmt = o
    BY DEF NotLeaked
  <2>1. st[o].alive /\ ~(j.what = "close" /\ j.stmt = o)
    BY DEF j
  <2>2. PICK g \in DOMAIN inp : \E i \in DOMAIN inp[g] :
               inp[g][i].what = "close" /\ inp[g][i].stmt = o
    BY <2>1 DEF Good, NotLeaked
  <2>3. PICK i \in DOMAIN inp[g] : inp[g][i].what = "close" /\ inp[g][i].stmt = o
    BY <2>2
  <2>4. CASE g # h
    BY <1>1, <2>3, <2>4
  <2>5. CASE g = h
    <3>1. i # 1 /\ i \in 1 .. Len(inp[h])
      BY <1>2, <2>1, <2>3, <2>5
    <3>2. i - 1 \in DOMAIN new[h] /\ new[h][i - 1] = inp[h][(i - 1) + 1]
      BY <1>2, <3>1
    <3>3. (i - 1) + 1 = i
      BY <3>1
    <3> QED BY <1>1, <2>3, <2>5, <3>2, <3>3
  <2> QED BY <2>4, <2>5
<1>10. Heap(own, st2)
  BY DEF Good, Heap
<1> QED BY <1>3, <1>6, <1>7, <1>8, <1>9, <1>10 DEF Good

\* The statements of gone lose their handle: each gets one teardown in the queue of the
\* connection at its address (tear), and ends at once if there is none.
Retired(con, inp, own, st, gone, tear, new, st2) ==
  /\ gone \subseteq own
  /\ \A h \in DOMAIN inp : tear[h] \in Seq(Jobs)
  /\ \A h \in DOMAIN inp : \A i \in DOMAIN tear[h] :
       /\ tear[h][i].what = "close" /\ tear[h][i].stmt \in gone
       /\ st[tear[h][i].stmt].addr = con[h].addr
  /\ \A h \in DOMAIN inp : \A i, k \in DOMAIN tear[h] :
       tear[h][i].stmt = tear[h][k].stmt => i = k
  /\ \A o \in gone : \A h \in DOMAIN con : con[h].addr = st[o].addr =>
       \E i \in DOMAIN tear[h] : tear[h][i].stmt = o
  /\ DOMAIN new = DOMAIN inp /\ \A h \in DOMAIN inp : new[h] = inp[h] \o tear[h]
  /\ st2 \in Seq(Objects) /\ DOMAIN st2 = DOMAIN st
  /\ \A o \in DOMAIN st :
       /\ st2[o].addr = st[o].addr
       /\ st2[o].alive <=>
            st[o].alive /\ ~(o \in gone /\ \A h \in DOMAIN con : con[h].addr # st[o].addr)

LEMMA RetireKeeps ==
  ASSUME NEW con, NEW inp, NEW own, NEW st, Good(con, inp, own, st),
         NEW gone, NEW tear, NEW new, NEW st2,
         Retired(con, inp, own, st, gone, tear, new, st2)
  PROVE  Good(con, new, own \ gone, st2)
PROOF
<1>0. /\ gone \subseteq own
      /\ \A h \in DOMAIN inp : tear[h] \in Seq(Jobs)
      /\ \A h \in DOMAIN inp : \A i \in DOMAIN tear[h] :
           /\ tear[h][i].what = "close" /\ tear[h][i].stmt \in gone
           /\ st[tear[h][i].stmt].addr = con[h].addr
      /\ \A h \in DOMAIN inp : \A i, k \in DOMAIN tear[h] :
           tear[h][i].stmt = tear[h][k].stmt => i = k
      /\ \A o \in gone : \A h \in DOMAIN con : con[h].addr = st[o].addr =>
           \E i \in DOMAIN tear[h] : tear[h][i].stmt = o
      /\ DOMAIN new = DOMAIN inp /\ \A h \in DOMAIN inp : new[h] = inp[h] \o tear[h]
      /\ st2 \in Seq(Objects) /\ DOMAIN st2 = DOMAIN st
      /\ \A o \in DOMAIN st :
           /\ st2[o].addr = st[o].addr
           /\ st2[o].alive <=>
                st[o].alive /\ ~(o \in gone /\ \A h \in DOMAIN con : con[h].addr # st[o].addr)
  BY DEF Retired
<1>1. DOMAIN new = DOMAIN inp /\ DOMAIN inp = DOMAIN con
  BY <1>0 DEF Good, Queues
<1>2. \A h \in DOMAIN inp :
        /\ new[h] \in Seq(Jobs) /\ Len(inp[h]) \in Nat /\ Len(tear[h]) \in Nat
        /\ DOMAIN inp[h] = 1 .. Len(inp[h]) /\ DOMAIN tear[h] = 1 .. Len(tear[h])
        /\ DOMAIN new[h] = 1 .. Len(inp[h]) + Len(tear[h])
        /\ \A i \in 1 .. Len(inp[h]) + Len(tear[h]) :
             new[h][i] = IF i <= Len(inp[h]) THEN inp[h][i] ELSE tear[h][i - Len(inp[h])]
  <2> SUFFICES ASSUME NEW h \in DOMAIN inp
               PROVE  /\ new[h] \in Seq(Jobs) /\ Len(inp[h]) \in Nat /\ Len(tear[h]) \in Nat
                      /\ DOMAIN inp[h] = 1 .. Len(inp[h]) /\ DOMAIN tear[h] = 1 .. Len(tear[h])
                      /\ DOMAIN new[h] = 1 .. Len(inp[h]) + Len(tear[h])
                      /\ \A i \in 1 .. Len(inp[h]) + Len(tear[h]) :
                           new[h][i] = IF i <= Len(inp[h]) THEN inp[h][i] ELSE tear[h][i - Len(inp[h])]
    OBVIOUS
  <2>1. inp[h] \in Seq(Jobs) /\ tear[h] \in Seq(Jobs) /\ new[h] = inp[h] \o tear[h]
    BY <1>0 DEF Good, Queues
  <2>2. /\ new[h] \in Seq(Jobs) /\ Len(new[h]) = Len(inp[h]) + Len(tear[h])
        /\ \A i \in 1 .. Len(inp[h]) + Len(tear[h]) :
             new[h][i] = IF i <= Len(inp[h]) THEN inp[h][i] ELSE tear[h][i - Len(inp[h])]
    BY <2>1, ConcatProperties
  <2> QED BY <2>1, <2>2, LenProperties
\* A job was queued before, or is a teardown of a statement of gone.
<1>3. \A h \in DOMAIN inp : \A i \in DOMAIN new[h] :
        \/ i \in DOMAIN inp[h] /\ new[h][i] = inp[h][i]
        \/ i \notin DOMAIN inp[h] /\ i > Len(inp[h])
           /\ i - Len(inp[h]) \in DOMAIN tear[h] /\ new[h][i] = tear[h][i - Len(inp[h])]
  <2> SUFFICES ASSUME NEW h \in DOMAIN inp, NEW i \in DOMAIN new[h]
               PROVE  \/ i \in DOMAIN inp[h] /\ new[h][i] = inp[h][i]
                      \/ i \notin DOMAIN inp[h] /\ i > Len(inp[h])
                         /\ i - Len(inp[h]) \in DOMAIN tear[h] /\ new[h][i] = tear[h][i - Len(inp[h])]
    OBVIOUS
  <2>1. /\ Len(inp[h]) \in Nat /\ Len(tear[h]) \in Nat
        /\ DOMAIN inp[h] = 1 .. Len(inp[h]) /\ DOMAIN tear[h] = 1 .. Len(tear[h])
        /\ i \in 1 .. Len(inp[h]) + Len(tear[h])
        /\ new[h][i] = IF i <= Len(inp[h]) THEN inp[h][i] ELSE tear[h][i - Len(inp[h])]
    BY <1>2
  <2> QED BY <2>1
<1>4. \A h \in DOMAIN inp : \A i \in DOMAIN inp[h] : i \in DOMAIN new[h] /\ new[h][i] = inp[h][i]
  BY <1>2
<1>5. \A h \in DOMAIN inp : \A i \in DOMAIN tear[h] :
        Len(inp[h]) + i \in DOMAIN new[h] /\ new[h][Len(inp[h]) + i] = tear[h][i]
  <2> SUFFICES ASSUME NEW h \in DOMAIN inp, NEW i \in DOMAIN tear[h]
               PROVE  Len(inp[h]) + i \in DOMAIN new[h] /\ new[h][Len(inp[h]) + i] = tear[h][i]
    OBVIOUS
  <2>1. i \in 1 .. Len(tear[h]) /\ Len(inp[h]) \in Nat /\ Len(tear[h]) \in Nat
    BY <1>2
  <2>2. (Len(inp[h]) + i) - Len(inp[h]) = i /\ ~(Len(inp[h]) + i <= Len(inp[h]))
    BY <2>1
  <2>3. /\ DOMAIN new[h] = 1 .. Len(inp[h]) + Len(tear[h])
        /\ \A n \in 1 .. Len(inp[h]) + Len(tear[h]) :
             new[h][n] = IF n <= Len(inp[h]) THEN inp[h][n] ELSE tear[h][n - Len(inp[h])]
    BY <1>2
  <2>4. Len(inp[h]) + i \in 1 .. Len(inp[h]) + Len(tear[h])
    BY <2>1
  <2> QED BY <2>2, <2>3, <2>4
<1>6. own \subseteq DOMAIN st /\ gone \subseteq DOMAIN st /\ \A o \in own : st[o].alive
  BY <1>0 DEF Good, Heap, Owned
<1>7. Queues(con, new)
  BY <1>0, <1>1, <1>2 DEF Queues
<1>8. Heap(own \ gone, st2)
  BY <1>0, <1>6 DEF Heap
\* A statement that a queued job is about stays alive.
<1>9. Local(con, new, st2)
  <2> SUFFICES ASSUME NEW h \in DOMAIN inp, NEW i \in DOMAIN new[h], Touches(new[h][i])
               PROVE  /\ new[h][i].stmt \in DOMAIN st2
                      /\ st2[new[h][i].stmt].alive
                      /\ st2[new[h][i].stmt].addr = con[h].addr
    BY <1>0, <1>1 DEF Local
  <2>1. /\ new[h][i].stmt \in DOMAIN st /\ st[new[h][i].stmt].alive
        /\ st[new[h][i].stmt].addr = con[h].addr
    <3>1. CASE i \in DOMAIN inp[h] /\ new[h][i] = inp[h][i]
      BY <1>0, <3>1 DEF Good, Local
    <3>2. CASE i - Len(inp[h]) \in DOMAIN tear[h] /\ new[h][i] = tear[h][i - Len(inp[h])]
      BY <1>0, <1>6, <3>2
    <3> QED BY <1>0, <1>3, <3>1, <3>2
  <2> QED BY <1>0, <1>1, <2>1
<1>10. TornLast(new)
  <2> SUFFICES ASSUME NEW h \in DOMAIN inp, NEW i \in DOMAIN new[h], NEW k \in DOMAIN new[h],
                      new[h][k].what = "close", new[h][i].stmt = new[h][k].stmt
               PROVE  /\ new[h][i].what = "exec" => i < k
                      /\ new[h][i].what = "close" => i = k
    BY <1>0, <1>1 DEF TornLast
  <2>0. i \in Nat /\ k \in Nat /\ Len(inp[h]) \in Nat /\ DOMAIN inp[h] = 1 .. Len(inp[h])
    BY <1>0, <1>2
  <2>1. CASE i \in DOMAIN inp[h] /\ new[h][i] = inp[h][i]
             /\ k \in DOMAIN inp[h] /\ new[h][k] = inp[h][k]
    BY <1>0, <2>1 DEF Good, TornLast
  <2>2. CASE /\ i \in DOMAIN inp[h] /\ new[h][i] = inp[h][i]
             /\ k \notin DOMAIN inp[h] /\ k > Len(inp[h])
             /\ k - Len(inp[h]) \in DOMAIN tear[h] /\ new[h][k] = tear[h][k - Len(inp[h])]
    <3>1. new[h][k].stmt \in gone
      BY <1>0, <2>2
    <3>2. inp[h][i].what # "close"
      BY <1>0, <2>2, <3>1 DEF Good, Owned
    <3> QED BY <1>0, <2>0, <2>2, <3>2
  <2>3. CASE /\ k \in DOMAIN inp[h] /\ new[h][k] = inp[h][k]
             /\ i - Len(inp[h]) \in DOMAIN tear[h] /\ new[h][i] = tear[h][i - Len(inp[h])]
    <3>1. new[h][i].stmt \in gone
      BY <1>0, <2>3
    <3> QED BY <1>0, <2>3, <3>1 DEF Good, Owned
  <2>4. CASE /\ i - Len(inp[h]) \in DOMAIN tear[h] /\ new[h][i] = tear[h][i - Len(inp[h])]
             /\ k - Len(inp[h]) \in DOMAIN tear[h] /\ new[h][k] = tear[h][k - Len(inp[h])]
    <3>1. i - Len(inp[h]) = k - Len(inp[h]) /\ new[h][i].what = "close"
      BY <1>0, <2>4
    <3> QED BY <1>0, <2>0, <3>1
  <2> QED BY <1>0, <1>3, <2>1, <2>2, <2>3, <2>4
<1>11. Owned(new, own \ gone, st2)
  <2>1. \A o \in own \ gone : st2[o].alive
    BY <1>0, <1>6
  <2>2. \A o \in own \ gone : \A h \in DOMAIN inp : \A i \in DOMAIN new[h] :
          new[h][i].what = "close" => new[h][i].stmt # o
    BY SMTT(30), <1>0, <1>3 DEF Good, Owned
  <2> QED BY <1>0, <1>1, <2>1, <2>2 DEF Owned
<1>12. NotLeaked(new, own \ gone, st2)
  <2> SUFFICES ASSUME NEW o \in DOMAIN st2, st2[o].alive, o \notin own \ gone
               PROVE  \E h \in DOMAIN inp : \E i \in DOMAIN new[h] :
                        new[h][i].what = "close" /\ new[h][i].stmt = o
    BY <1>0, <1>1 DEF NotLeaked
  <2>1. CASE o \in gone
    <3>1. PICK h \in DOMAIN con : con[h].addr = st[o].addr
      BY <1>0, <1>6, <2>1
    <3>2. PICK i \in DOMAIN tear[h] : tear[h][i].stmt = o
      BY <1>0, <2>1, <3>1
    <3>3. h \in DOMAIN inp /\ tear[h][i].what = "close"
      BY <1>0, <1>1
    <3>4. Len(inp[h]) + i \in DOMAIN new[h] /\ new[h][Len(inp[h]) + i] = tear[h][i]
      BY <1>0, <1>5, <3>2, <3>3
    <3> QED BY <1>0, <3>2, <3>3, <3>4
  <2>2. CASE o \notin gone
    <3>1. PICK h \in DOMAIN inp : \E i \in DOMAIN inp[h] :
                 inp[h][i].what = "close" /\ inp[h][i].stmt = o
      BY <1>0, <2>2 DEF Good, NotLeaked
    <3> QED BY <1>0, <1>4, <3>1
  <2> QED BY <1>0, <2>1, <2>2
<1>13. OneAddress(con)
  BY <1>0 DEF Good
<1> QED BY <1>0, <1>7, <1>8, <1>9, <1>10, <1>11, <1>12, <1>13 DEF Good

\* A connection opens at an address no open connection has.
LEMMA OpenKeeps ==
  ASSUME NEW con, NEW inp, NEW own, NEW st, Good(con, inp, own, st),
         NEW h, h \notin DOMAIN con, NEW c, \A g \in DOMAIN con : con[g].addr # c.addr,
         NEW con2, NEW inp2,
         DOMAIN con2 = DOMAIN con \cup {h}, DOMAIN inp2 = DOMAIN inp \cup {h},
         \A g \in DOMAIN con : con2[g] = con[g] /\ inp2[g] = inp[g],
         con2[h] = c, inp2[h] = <<>>
  PROVE  Good(con2, inp2, own, st)
PROOF
<1>1. DOMAIN inp = DOMAIN con /\ DOMAIN inp2 = DOMAIN con2 /\ \A g \in DOMAIN inp : inp[g] \in Seq(Jobs)
  BY DEF Good, Queues
<1>2. inp2[h] \in Seq(Jobs) /\ DOMAIN inp2[h] = {}
  BY EmptySeq, LenProperties
<1>3. OneAddress(con2) /\ Queues(con2, inp2) /\ Heap(own, st)
  BY <1>1, <1>2 DEF Good, OneAddress, Queues
<1>4. Local(con2, inp2, st) /\ TornLast(inp2) /\ Owned(inp2, own, st)
  BY <1>1, <1>2 DEF Good, Local, TornLast, Owned
<1>5. NotLeaked(inp2, own, st)
  BY <1>1, <1>2 DEF Good, NotLeaked
<1> QED BY <1>3, <1>4, <1>5 DEF Good

\* Connections whose queues are empty go.
LEMMA DropKeeps ==
  ASSUME NEW con, NEW inp, NEW own, NEW st, Good(con, inp, own, st),
         NEW con2, NEW inp2, DOMAIN con2 \subseteq DOMAIN con, DOMAIN inp2 = DOMAIN con2,
         \A g \in DOMAIN con2 : con2[g] = con[g] /\ inp2[g] = inp[g],
         \A g \in DOMAIN inp : g \notin DOMAIN inp2 => inp[g] = <<>>
  PROVE  Good(con2, inp2, own, st)
PROOF
<1>1. DOMAIN inp = DOMAIN con /\ \A g \in DOMAIN inp : inp[g] \in Seq(Jobs)
  BY DEF Good, Queues
<1>2. \A g \in DOMAIN inp : g \notin DOMAIN inp2 => DOMAIN inp[g] = {}
  BY EmptySeq, LenProperties
<1>3. OneAddress(con2) /\ Queues(con2, inp2) /\ Heap(own, st)
  BY <1>1 DEF Good, OneAddress, Queues
<1>4. Local(con2, inp2, st) /\ TornLast(inp2) /\ Owned(inp2, own, st)
  BY <1>1 DEF Good, Local, TornLast, Owned
<1>5. NotLeaked(inp2, own, st)
  BY <1>1, <1>2 DEF Good, NotLeaked
<1> QED BY <1>3, <1>4, <1>5 DEF Good

\* A statement is prepared and gets a handle.
LEMMA PrepareKeeps ==
  ASSUME NEW con, NEW inp, NEW own, NEW st, Good(con, inp, own, st),
         NEW s \in Objects, s.alive,
         NEW st2, st2 = Append(st, s), NEW own2, own2 = own \cup {Len(st) + 1}
  PROVE  Good(con, inp, own2, st2)
PROOF
<1>1. /\ st2 \in Seq(Objects) /\ Len(st) \in Nat /\ DOMAIN st = 1 .. Len(st)
      /\ DOMAIN st2 = 1 .. Len(st) + 1
      /\ \A o \in DOMAIN st : st2[o] = st[o]
      /\ st2[Len(st) + 1] = s
  BY AppendProperties, LenProperties DEF Good, Heap
<1>2. Heap(own2, st2)
  BY <1>1 DEF Good, Heap
<1>3. Local(con, inp, st2)
  BY <1>1 DEF Good, Local
<1>4. \A h \in DOMAIN inp : \A i \in DOMAIN inp[h] :
        inp[h][i].what = "close" => inp[h][i].stmt # Len(st) + 1
  BY <1>1 DEF Good, Local, Touches
<1>5. Owned(inp, own2, st2)
  BY <1>1, <1>4 DEF Good, Heap, Owned
<1>6. NotLeaked(inp, own2, st2)
  <2> SUFFICES ASSUME NEW o \in DOMAIN st2, st2[o].alive, o \notin own2
               PROVE  \E h \in DOMAIN inp : \E i \in DOMAIN inp[h] :
                        inp[h][i].what = "close" /\ inp[h][i].stmt = o
    BY DEF NotLeaked
  <2>1. o \in DOMAIN st /\ o \notin own /\ st[o].alive
    BY <1>1
  <2> QED BY <2>1 DEF Good, NotLeaked
<1> QED BY <1>2, <1>3, <1>5, <1>6 DEF Good
-----------------------------------------------------------------------------
(* What the operators of the module give.                                  *)

\* SetToSeq lists every element of a finite set once.
LEMMA SetToSeqLists ==
  ASSUME NEW S, IsFiniteSet(S)
  PROVE  /\ SetToSeq(S) \in Seq(S)
         /\ \A i, k \in DOMAIN SetToSeq(S) : SetToSeq(S)[i] = SetToSeq(S)[k] => i = k
         /\ \A x \in S : \E i \in DOMAIN SetToSeq(S) : SetToSeq(S)[i] = x
PROOF
<1> DEFINE n == Cardinality(S)
           f == SetToSeq(S)
<1>1. n \in Nat /\ ExistsBijection(1 .. n, S)
  BY FS_CardinalityType
<1>2. PICK b \in Bijection(1 .. n, S) : TRUE
  BY <1>1 DEF ExistsBijection
<1>3. b \in [1 .. n -> S] /\ IsInjective(b)
  BY <1>2 DEF Bijection, Injection, IsInjective
<1>4. f \in [1 .. n -> S] /\ IsInjective(f)
  BY <1>3 DEF SetToSeq
<1>5. f \in Seq(S) /\ DOMAIN f = 1 .. n
  BY <1>1, <1>4, SeqDef
<1>6. \A i, k \in DOMAIN f : f[i] = f[k] => i = k
  BY <1>4 DEF IsInjective
<1>7. f \in Injection(1 .. n, S)
  BY <1>4, <1>5, <1>6 DEF Injection, IsInjective
<1>8. IsFiniteSet(1 .. n) /\ Cardinality(1 .. n) = n
  BY <1>1, FS_Interval
<1>9. f \in Surjection(1 .. n, S)
  BY <1>7, <1>8, FS_Injection
<1> QED BY <1>5, <1>6, <1>9 DEF Surjection

\* The handle of the connection at an address, or none.
LEMMA HandleAtAddress ==
  ASSUME NEW a, OneAddress(connections), DOMAIN connections \subseteq Nat \ {0}
  PROVE  /\ \A h \in DOMAIN connections : (connections[h].addr = a) <=> (ConnectionHandleOf(a) = h)
         /\ ConnectionHandleOf(a) = None <=> \A h \in DOMAIN connections : connections[h].addr # a
         /\ ConnectionHandleOf(a) \in DOMAIN connections \cup {None}
PROOF
<1>1. CASE \E h \in DOMAIN connections : connections[h].addr = a
  <2>1. /\ ConnectionHandleOf(a) \in DOMAIN connections
        /\ connections[ConnectionHandleOf(a)].addr = a
    BY <1>1 DEF ConnectionHandleOf
  <2> QED BY <1>1, <2>1 DEF OneAddress, None
<1>2. CASE ~\E h \in DOMAIN connections : connections[h].addr = a
  <2>1. ConnectionHandleOf(a) = None
    BY <1>2 DEF ConnectionHandleOf
  <2> QED BY <1>2, <2>1 DEF None
<1> QED BY <1>1, <1>2

\* The teardowns for the statements of gone at the address of h.
LEMMA TeardownsOf ==
  ASSUME NEW gone, gone \subseteq DOMAIN stmt, stmt \in Seq(Objects),
         NEW h \in DOMAIN connections, h \in Nat, connections[h].id \in Nat,
         OneAddress(connections), DOMAIN connections \subseteq Nat \ {0}
  PROVE  /\ TeardownsFor(gone, h) \in Seq(Jobs)
         /\ \A i \in DOMAIN TeardownsFor(gone, h) :
              /\ TeardownsFor(gone, h)[i].what = "close"
              /\ TeardownsFor(gone, h)[i].stmt \in gone
              /\ stmt[TeardownsFor(gone, h)[i].stmt].addr = connections[h].addr
         /\ \A i, k \in DOMAIN TeardownsFor(gone, h) :
              TeardownsFor(gone, h)[i].stmt = TeardownsFor(gone, h)[k].stmt => i = k
         /\ \A o \in gone : connections[h].addr = stmt[o].addr =>
              \E i \in DOMAIN TeardownsFor(gone, h) : TeardownsFor(gone, h)[i].stmt = o
PROOF
<1> DEFINE S == {o \in gone : ConnectionHandleOf(stmt[o].addr) = h}
           mine == SetToSeq(S)
           T == TeardownsFor(gone, h)
<1>1. DOMAIN stmt = 1 .. Len(stmt) /\ Len(stmt) \in Nat
  BY LenProperties
<1>2. IsFiniteSet(S)
  <2>1. IsFiniteSet(1 .. Len(stmt))
    BY <1>1, FS_Interval
  <2>2. S \in SUBSET (1 .. Len(stmt))
    BY <1>1
  <2> QED BY <2>1, <2>2, FS_Subset
<1>3. /\ mine \in Seq(S)
      /\ \A i, k \in DOMAIN mine : mine[i] = mine[k] => i = k
      /\ \A x \in S : \E i \in DOMAIN mine : mine[i] = x
  BY <1>2, SetToSeqLists
<1>4. T = [i \in DOMAIN mine |-> Teardown(h, mine[i])]
  BY DEF TeardownsFor
<1>5. \A o \in S : o \in Nat /\ o \in gone /\ stmt[o].addr = connections[h].addr
  <2> SUFFICES ASSUME NEW o \in S
               PROVE  o \in Nat /\ o \in gone /\ stmt[o].addr = connections[h].addr
    OBVIOUS
  <2>0. o \in gone /\ ConnectionHandleOf(stmt[o].addr) = h
    OBVIOUS
  <2>1. (connections[h].addr = stmt[o].addr) <=> (ConnectionHandleOf(stmt[o].addr) = h)
    BY HandleAtAddress
  <2> QED BY <1>1, <2>0, <2>1
<1>6. \A o \in gone : connections[h].addr = stmt[o].addr => o \in S
  <2> SUFFICES ASSUME NEW o \in gone, connections[h].addr = stmt[o].addr
               PROVE  ConnectionHandleOf(stmt[o].addr) = h
    OBVIOUS
  <2> QED BY HandleAtAddress
<1> HIDE DEF mine, T, S
<1>7. Len(mine) \in Nat /\ DOMAIN mine = 1 .. Len(mine) /\ \A i \in DOMAIN mine : mine[i] \in S
  BY <1>3, LenProperties, ElementOfSeq
<1>8. \A o \in S : Teardown(h, o) \in Jobs /\ Teardown(h, o).what = "close" /\ Teardown(h, o).stmt = o
  BY <1>5 DEF Teardown, Jobs, None
<1>9. DOMAIN T = 1 .. Len(mine) /\ \A i \in 1 .. Len(mine) : T[i] = Teardown(h, mine[i])
  BY <1>4, <1>7
<1>10. T \in Seq(Jobs)
  <2>1. T \in [1 .. Len(mine) -> Jobs]
    BY <1>4, <1>7, <1>8
  <2> QED BY <1>7, <2>1, SeqDef
<1>11. \A i \in DOMAIN T : T[i].what = "close" /\ T[i].stmt = mine[i] /\ mine[i] \in S
  BY <1>7, <1>8, <1>9
<1>12. \A i, k \in DOMAIN T : T[i].stmt = T[k].stmt => i = k
  BY <1>3, <1>7, <1>9, <1>11
<1>13. \A o \in S : \E i \in DOMAIN T : T[i].stmt = o
  BY <1>3, <1>7, <1>9, <1>11
<1> QED BY <1>5, <1>6, <1>10, <1>11, <1>12, <1>13 DEF T
-----------------------------------------------------------------------------
(* The inductive invariant.                                                *)

\* Handles are below the next one, and two handles never name one statement.
Named ==
  /\ nextHandle \in Nat \ {0} /\ nextStatement \in Nat \ {0} /\ nextModel \in Nat \ {0}
  /\ DOMAIN connections \subseteq 1 .. (nextHandle - 1)
  /\ DOMAIN statements \subseteq 1 .. (nextStatement - 1)
  /\ DOMAIN models \subseteq 1 .. (nextModel - 1)
  /\ \A s, t \in DOMAIN statements : statements[s] = statements[t] => s = t
  /\ \A m \in DOMAIN models : models[m] \in Nat

\* Identities are given once; while its connection is open, a statement has its address.
Ghosts ==
  /\ opened \in Nat /\ created \in Nat /\ submitted \in Nat
  /\ \A h \in DOMAIN connections : connections[h] \in [addr : Addresses, id : 1 .. opened]
  /\ \A g, h \in DOMAIN connections : connections[g].id = connections[h].id => g = h
  /\ \A o \in DOMAIN stmt : stmt[o].owner \in 0 .. opened
  /\ \A o \in DOMAIN stmt : \A h \in DOMAIN connections :
       connections[h].id = stmt[o].owner => connections[h].addr = stmt[o].addr

\* What the main thread waits for exists; after clearStatements and clearModels the
\* registries stay empty until it goes on.
Waits ==
  /\ waiting.for \in {"close", "reply"} => waiting.on \in DOMAIN connections
  /\ waiting.for \in {"reset", "free", "gone"} => statements = <<>> /\ models = <<>>

IInv == Good(connections, input, Range(statements), stmt) /\ Named /\ Ghosts /\ Waits

\* The empty function.
LEMMA Empty == DOMAIN <<>> = {} /\ Range(<<>>) = {}
PROOF
<1>1. DOMAIN <<>> = {}
  OBVIOUS
<1> QED BY <1>1 DEF Range

\* Initially.
LEMMA Starts == Init => IInv
PROOF
<1> SUFFICES ASSUME Init PROVE IInv
  OBVIOUS
<1>1. DOMAIN connections = {} /\ DOMAIN input = {} /\ DOMAIN statements = {} /\ DOMAIN models = {}
      /\ DOMAIN stmt = {} /\ Range(statements) = {}
  BY Empty DEF Init
<1>2. stmt \in Seq(Objects)
  BY EmptySeq DEF Init
<1>3. Good(connections, input, Range(statements), stmt)
  BY <1>1, <1>2 DEF Good, OneAddress, Queues, Heap, Local, TornLast, Owned, NotLeaked
<1>4. Named /\ Ghosts /\ Waits
  BY <1>1 DEF Init, Named, Ghosts, Waits, Nothing
<1> QED BY <1>3, <1>4 DEF IInv

\* A job that a native submits is a job.
LEMMA JobIsAJob ==
  ASSUME IInv, NEW h \in DOMAIN connections, NEW what \in {"query", "sync", "exec"},
         NEW o \in Nat, NEW m \in DOMAIN models \cup {None}
  PROVE  /\ Job(h, what, o, m) \in Jobs
         /\ Job(h, what, o, m).what = what /\ Job(h, what, o, m).stmt = o
PROOF
<1>1. h \in Nat /\ connections[h].id \in Nat /\ submitted \in Nat
  BY DEF IInv, Named, Ghosts
<1>2. m \in Nat /\ (m # None => models[m] \in Nat)
  BY DEF IInv, Named, None
<1> QED BY <1>1, <1>2 DEF Job, Jobs, None
-----------------------------------------------------------------------------
(* Every action keeps it.                                                  *)

\* A native submits a job.
LEMMA SubmitKeeps ==
  ASSUME IInv, NEW h \in DOMAIN connections, NEW j \in Jobs, j.what # "close",
         j.what = "exec" => j.stmt \in Range(statements) /\ stmt[j.stmt].addr = connections[h].addr,
         input' = [input EXCEPT ![h] = Append(@, j)],
         submitted' \in Nat,
         waiting' = waiting \/ waiting' = [for |-> "reply", on |-> h],
         UNCHANGED <<connections, statements, models, nextVars, stmt, opened, created>>
  PROVE  IInv'
PROOF
<1>1. h \in DOMAIN input
  BY DEF IInv, Good, Queues
<1>2. Good(connections, [input EXCEPT ![h] = Append(@, j)], Range(statements), stmt)
  BY <1>1, AppendKeeps DEF IInv
<1>3. Good(connections', input', Range(statements'), stmt')
  BY <1>2
<1>4. Named' /\ Ghosts'
  BY DEF IInv, Named, Ghosts, nextVars
<1>5. Waits'
  BY DEF IInv, Waits
<1> QED BY <1>3, <1>4, <1>5 DEF IInv, Range

LEMMA QueryKeeps == ASSUME IInv, NEW h, Query(h) PROVE IInv'
PROOF
<1>1. h \in DOMAIN connections /\ None \in Nat
  BY DEF Query, None
<1>2. /\ Job(h, "query", None, None) \in Jobs
      /\ Job(h, "query", None, None).what = "query"
  BY <1>1, JobIsAJob
<1>3. submitted' \in Nat
  BY DEF Query, IInv, Ghosts
<1> QED BY <1>1, <1>2, <1>3, SubmitKeeps DEF Query

LEMMA QuerySyncKeeps == ASSUME IInv, NEW h, QuerySync(h) PROVE IInv'
PROOF
<1> DEFINE j == [Job(h, "sync", None, None) EXCEPT !.n = None]
<1>1. h \in DOMAIN connections /\ None \in Nat
  BY DEF QuerySync, None
<1>2. j \in Jobs /\ j.what = "sync"
  BY <1>1, JobIsAJob DEF Jobs
<1>3. submitted' \in Nat
  BY DEF QuerySync, IInv, Ghosts
<1>4. /\ input' = [input EXCEPT ![h] = Append(@, j)]
      /\ waiting' = [for |-> "reply", on |-> h]
      /\ UNCHANGED <<connections, statements, models, nextVars, stmt, opened, created>>
  BY DEF QuerySync
<1> HIDE DEF j
<1> QED BY <1>1, <1>2, <1>3, <1>4, SubmitKeeps

LEMMA ModelQueryKeeps == ASSUME IInv, NEW m, NEW h, ModelQuery(m, h) PROVE IInv'
PROOF
<1>1. h \in DOMAIN connections /\ m \in DOMAIN models /\ None \in Nat
  BY DEF ModelQuery, None
<1>2. Job(h, "query", None, m) \in Jobs /\ Job(h, "query", None, m).what = "query"
  BY <1>1, JobIsAJob
<1>3. submitted' \in Nat
  BY DEF ModelQuery, IInv, Ghosts
<1> QED BY <1>1, <1>2, <1>3, SubmitKeeps DEF ModelQuery

LEMMA ExecuteKeeps == ASSUME IInv, NEW s, Execute(s) PROVE IInv'
PROOF
<1> DEFINE o == statements[s]
           h == ConnectionHandleOf(stmt[o].addr)
<1>1. /\ s \in DOMAIN statements /\ h # None
      /\ input' = [input EXCEPT ![h] = Append(@, Job(h, "exec", o, None))]
      /\ UNCHANGED <<connections, statements, models, nextVars, stmt, opened, created, waiting>>
  BY DEF Execute
<1>2. OneAddress(connections) /\ DOMAIN connections \subseteq Nat \ {0}
  BY DEF IInv, Good, Named
<1>3. h \in DOMAIN connections /\ connections[h].addr = stmt[o].addr
  BY <1>1, <1>2, HandleAtAddress
<1>4. o \in Range(statements) /\ o \in Nat
  <2>1. o \in Range(statements)
    BY <1>1 DEF Range
  <2>2. Range(statements) \subseteq DOMAIN stmt /\ DOMAIN stmt = 1 .. Len(stmt)
    BY LenProperties DEF IInv, Good, Heap
  <2> QED BY <2>1, <2>2
<1> HIDE DEF o, h
<1>5. /\ Job(h, "exec", o, None) \in Jobs /\ Job(h, "exec", o, None).what = "exec"
      /\ Job(h, "exec", o, None).stmt = o
  BY <1>3, <1>4, JobIsAJob
<1>6. submitted' \in Nat
  BY DEF Execute, IInv, Ghosts
<1> QED BY <1>1, <1>3, <1>4, <1>5, <1>6, SubmitKeeps

LEMMA ConnectKeeps == ASSUME IInv, Connect PROVE IInv'
PROOF
<1>1. PICK a \in Addresses :
        /\ \A h \in DOMAIN connections : connections[h].addr # a
        /\ connections' = Put(connections, nextHandle, [addr |-> a, id |-> opened + 1])
  BY DEF Connect
<1> DEFINE c == [addr |-> a, id |-> opened + 1]
<1>2. nextHandle \notin DOMAIN connections /\ nextHandle \in Nat \ {0} /\ opened \in Nat
      /\ DOMAIN input = DOMAIN connections
  BY DEF IInv, Named, Ghosts, Good, Queues
<1>3. /\ DOMAIN connections' = DOMAIN connections \cup {nextHandle}
      /\ DOMAIN input' = DOMAIN input \cup {nextHandle}
      /\ \A g \in DOMAIN connections : connections'[g] = connections[g] /\ input'[g] = input[g]
      /\ connections'[nextHandle] = c /\ input'[nextHandle] = <<>>
  BY <1>1, <1>2 DEF Connect, Put
<1>4. /\ nextHandle' = nextHandle + 1 /\ opened' = opened + 1
      /\ UNCHANGED <<statements, models, nextStatement, nextModel, stmt, created, submitted, waiting>>
  BY DEF Connect
<1>5. Good(connections', input', Range(statements), stmt)
  <2>1. Good(connections, input, Range(statements), stmt)
    BY DEF IInv
  <2>2. \A g \in DOMAIN connections : connections[g].addr # c.addr
    BY <1>1
  <2> HIDE DEF c
  <2>3. ASSUME NEW con2, NEW inp2, con2 = connections', inp2 = input'
        PROVE  Good(con2, inp2, Range(statements), stmt)
    <3>1. /\ DOMAIN con2 = DOMAIN connections \cup {nextHandle}
          /\ DOMAIN inp2 = DOMAIN input \cup {nextHandle}
          /\ \A g \in DOMAIN connections : con2[g] = connections[g] /\ inp2[g] = input[g]
          /\ con2[nextHandle] = c /\ inp2[nextHandle] = <<>>
      BY <1>3, <2>3
    <3>2. nextHandle \notin DOMAIN connections
      BY <1>2
    <3> QED BY <2>1, <2>2, <3>1, <3>2, OpenKeeps, SMTT(30)
  <2> QED BY <2>3
<1>6. Named'
  BY <1>2, <1>3, <1>4 DEF IInv, Named
<1>7. Ghosts'
  <2>1. /\ \A h \in DOMAIN connections : connections[h] \in [addr : Addresses, id : 1 .. opened]
        /\ \A g, h \in DOMAIN connections : connections[g].id = connections[h].id => g = h
        /\ \A o \in DOMAIN stmt : stmt[o].owner \in 0 .. opened
        /\ \A o \in DOMAIN stmt : \A h \in DOMAIN connections :
             connections[h].id = stmt[o].owner => connections[h].addr = stmt[o].addr
        /\ created \in Nat /\ submitted \in Nat
    BY DEF IInv, Ghosts
  <2>2. c \in [addr : Addresses, id : 1 .. opened + 1] /\ c.id = opened + 1
    BY <1>1, <1>2
  <2> HIDE DEF c
  <2>3. \A h \in DOMAIN connections' : connections'[h] \in [addr : Addresses, id : 1 .. opened + 1]
    BY <1>2, <1>3, <2>1, <2>2
  <2>4. \A h \in DOMAIN connections : connections[h].id # opened + 1
    BY <1>2, <2>1
  <2>5. \A o \in DOMAIN stmt : stmt[o].owner \in 0 .. opened + 1 /\ stmt[o].owner # opened + 1
    BY <1>2, <2>1
  <2>6. \A g, h \in DOMAIN connections' : connections'[g].id = connections'[h].id => g = h
    BY <1>3, <2>1, <2>2, <2>4
  <2>7. \A o \in DOMAIN stmt : \A h \in DOMAIN connections' :
          connections'[h].id = stmt[o].owner => connections'[h].addr = stmt[o].addr
    BY <1>3, <2>1, <2>2, <2>5
  <2> QED BY <1>2, <1>4, <2>1, <2>3, <2>5, <2>6, <2>7 DEF Ghosts
<1>8. Waits'
  BY <1>3, <1>4 DEF IInv, Waits
<1> QED BY <1>4, <1>5, <1>6, <1>7, <1>8 DEF IInv, Range

\* The registries after connections with empty queues are gone.
LEMMA GoneKeeps ==
  ASSUME IInv, NEW con2, NEW inp2, connections' = con2, input' = inp2,
         DOMAIN con2 \subseteq DOMAIN connections, DOMAIN inp2 = DOMAIN con2,
         \A g \in DOMAIN con2 : con2[g] = connections[g] /\ inp2[g] = input[g],
         \A g \in DOMAIN input : g \notin DOMAIN inp2 => input[g] = <<>>,
         UNCHANGED <<statements, stmt, opened, created, submitted>>
  PROVE  Good(connections', input', Range(statements'), stmt') /\ Ghosts'
PROOF
<1>1. Good(con2, inp2, Range(statements), stmt)
  <2>1. Good(connections, input, Range(statements), stmt)
    BY DEF IInv
  <2> QED BY <2>1, DropKeeps
<1>2. Ghosts'
  BY DEF IInv, Ghosts
<1> QED BY <1>1, <1>2

LEMMA FinishCloseKeeps == ASSUME IInv, FinishClose PROVE IInv'
PROOF
<1> DEFINE h == waiting.on
<1>1. DOMAIN input = DOMAIN connections
  BY DEF IInv, Good, Queues
<1>2. /\ DOMAIN connections' = DOMAIN connections \ {h} /\ DOMAIN input' = DOMAIN connections \ {h}
      /\ \A g \in DOMAIN connections' : connections'[g] = connections[g] /\ input'[g] = input[g]
      /\ \A g \in DOMAIN input : g \notin DOMAIN input' => input[g] = <<>>
  BY <1>1 DEF FinishClose, Drop, Restrict
<1>3. UNCHANGED <<statements, models, nextVars, stmt, opened, created, submitted>>
      /\ waiting' = Nothing
  BY DEF FinishClose, sinkVars
<1>4. Good(connections', input', Range(statements'), stmt') /\ Ghosts'
  BY <1>2, <1>3, GoneKeeps
<1>5. Named'
  BY <1>2, <1>3 DEF IInv, Named, nextVars
<1>6. Waits'
  BY <1>3 DEF Waits, Nothing
<1> QED BY <1>4, <1>5, <1>6 DEF IInv, Range

LEMMA FinishSyncKeeps == ASSUME IInv, FinishSync PROVE IInv'
PROOF
<1>1. UNCHANGED <<connections, input, statements, models, nextVars, stmt, opened, created, submitted>>
      /\ waiting' = Nothing
  BY DEF FinishSync, regVars
<1>2. Good(connections', input', Range(statements'), stmt')
  BY <1>1 DEF IInv
<1>3. Named' /\ Ghosts'
  BY <1>1 DEF IInv, Named, Ghosts, nextVars
<1>4. Waits'
  BY <1>1 DEF Waits, Nothing
<1> QED BY <1>2, <1>3, <1>4 DEF IInv, Range

\* The tick only moves finished jobs.
LEMMA TickKeeps == ASSUME IInv, Drain \/ Dispatch PROVE IInv'
PROOF
<1>1. UNCHANGED <<connections, input, statements, models, nextVars, stmt, opened, created, submitted, waiting>>
  BY DEF Drain, Dispatch, regVars
<1>2. Good(connections', input', Range(statements'), stmt')
  BY <1>1 DEF IInv
<1>3. Named' /\ Ghosts' /\ Waits'
  BY <1>1 DEF IInv, Named, Ghosts, Waits, nextVars
<1> QED BY <1>2, <1>3 DEF IInv, Range

\* A model comes or goes: the statements do not notice.
LEMMA ModelsKeep ==
  ASSUME IInv, (CreateModel \/ \E m \in DOMAIN models : DestroyModel(m))
  PROVE  IInv'
PROOF
<1>1. UNCHANGED <<connections, input, statements, nextHandle, nextStatement, stmt, opened, submitted, waiting>>
  BY DEF CreateModel, DestroyModel, nextVars
<1>2. Good(connections', input', Range(statements'), stmt')
  BY <1>1 DEF IInv
<1>3. /\ nextModel \in Nat \ {0} /\ created \in Nat
      /\ DOMAIN models \subseteq 1 .. (nextModel - 1)
      /\ \A m \in DOMAIN models : models[m] \in Nat
  BY DEF IInv, Named, Ghosts
<1>4. /\ nextModel' \in Nat \ {0} /\ created' \in Nat
      /\ DOMAIN models' \subseteq 1 .. (nextModel' - 1)
      /\ \A m \in DOMAIN models' : models'[m] \in Nat
  <2>1. CASE CreateModel
    BY <1>3, <2>1 DEF CreateModel, Put
  <2>2. CASE \E m \in DOMAIN models : DestroyModel(m)
    BY <1>3, <2>2 DEF DestroyModel, Drop, Restrict, nextVars
  <2> QED BY <2>1, <2>2
<1>5. Named' /\ Ghosts'
  BY <1>1, <1>4 DEF IInv, Named, Ghosts
<1>6. Waits'
  <2>1. Free
    BY DEF CreateModel, DestroyModel
  <2> QED BY <1>1, <2>1 DEF Waits, Free, Nothing
<1> QED BY <1>2, <1>5, <1>6 DEF IInv, Range

\* mysql_close only begins to wait.
LEMMA CloseKeeps == ASSUME IInv, NEW h, CloseConnection(h) PROVE IInv'
PROOF
<1>1. UNCHANGED <<connections, input, statements, models, nextVars, stmt, opened, created, submitted>>
      /\ waiting' = [for |-> "close", on |-> h] /\ h \in DOMAIN connections
  BY DEF CloseConnection, regVars
<1>2. Good(connections', input', Range(statements'), stmt')
  BY <1>1 DEF IInv
<1>3. Named' /\ Ghosts'
  BY <1>1 DEF IInv, Named, Ghosts, nextVars
<1>4. Waits'
  BY <1>1 DEF Waits
<1> QED BY <1>2, <1>3, <1>4 DEF IInv, Range

LEMMA PrepareActionKeeps == ASSUME IInv, NEW h, Prepare(h) PROVE IInv'
PROOF
<1> DEFINE s == [addr |-> connections[h].addr, owner |-> connections[h].id,
                 alive |-> TRUE, preparedOn |-> None]
<1>1. /\ h \in DOMAIN connections
      /\ stmt' = Append(stmt, s)
      /\ statements' = Put(statements, nextStatement, Len(stmt) + 1)
      /\ nextStatement' = nextStatement + 1
      /\ UNCHANGED <<connections, input, models, nextHandle, nextModel, opened, created, submitted, waiting>>
      /\ Free
  BY DEF Prepare
<1>2. /\ stmt \in Seq(Objects) /\ Range(statements) \subseteq DOMAIN stmt
      /\ Len(stmt) \in Nat /\ DOMAIN stmt = 1 .. Len(stmt)
  BY LenProperties DEF IInv, Good, Heap
<1>3. connections[h].addr \in Addresses /\ connections[h].id \in 1 .. opened /\ opened \in Nat
  BY <1>1 DEF IInv, Ghosts
<1>4. s \in Objects /\ s.alive /\ s.owner = connections[h].id /\ s.addr = connections[h].addr
  BY <1>3 DEF Objects, None
<1> HIDE DEF s
<1>5. nextStatement \notin DOMAIN statements /\ nextStatement \in Nat \ {0}
  BY DEF IInv, Named
<1>6. /\ DOMAIN statements' = DOMAIN statements \cup {nextStatement}
      /\ statements'[nextStatement] = Len(stmt) + 1
      /\ \A t \in DOMAIN statements : statements'[t] = statements[t]
  BY <1>1, <1>5 DEF Put
<1>7. Range(statements') = Range(statements) \cup {Len(stmt) + 1}
  BY <1>6 DEF Range
<1>8. Good(connections', input', Range(statements'), stmt')
  <2>1. ASSUME NEW own2, own2 = Range(statements'), NEW st2, st2 = stmt'
        PROVE  Good(connections, input, own2, st2)
    <3>1. own2 = Range(statements) \cup {Len(stmt) + 1} /\ st2 = Append(stmt, s)
      BY <1>1, <1>7, <2>1
    <3>2. Good(connections, input, Range(statements), stmt)
      BY DEF IInv
    <3> QED BY <1>4, <3>1, <3>2, PrepareKeeps
  <2> QED BY <1>1, <2>1
<1>9. \A t \in DOMAIN statements : statements[t] \in DOMAIN stmt
  BY <1>2 DEF Range
<1>10. Named'
  <2>1. \A t, u \in DOMAIN statements' : statements'[t] = statements'[u] => t = u
    <3>1. \A t, u \in DOMAIN statements : statements[t] = statements[u] => t = u
      BY DEF IInv, Named
    <3>2. \A t \in DOMAIN statements : statements[t] # Len(stmt) + 1
      BY <1>2, <1>9
    <3> QED BY <1>6, <3>1, <3>2
  <2>2. nextStatement' \in Nat \ {0} /\ DOMAIN statements' \subseteq 1 .. (nextStatement' - 1)
    BY <1>1, <1>5, <1>6 DEF IInv, Named
  <2> QED BY <1>1, <2>1, <2>2 DEF IInv, Named
<1>11. /\ DOMAIN stmt' = 1 .. Len(stmt) + 1
       /\ \A o \in DOMAIN stmt : stmt'[o] = stmt[o]
       /\ stmt'[Len(stmt) + 1] = s
  BY <1>1, <1>2, <1>4, AppendProperties, LenProperties
<1>12. Ghosts'
  <2>1. /\ \A o \in DOMAIN stmt : stmt[o].owner \in 0 .. opened
        /\ \A o \in DOMAIN stmt : \A g \in DOMAIN connections :
             connections[g].id = stmt[o].owner => connections[g].addr = stmt[o].addr
        /\ \A f, g \in DOMAIN connections : connections[f].id = connections[g].id => f = g
    BY DEF IInv, Ghosts
  <2>2. s.owner \in 0 .. opened
    BY <1>3, <1>4
  <2>3. \A g \in DOMAIN connections : connections[g].id = s.owner => connections[g].addr = s.addr
    BY <1>1, <1>4, <2>1
  <2>4. \A o \in DOMAIN stmt' : stmt'[o].owner \in 0 .. opened
    BY <1>2, <1>11, <2>1, <2>2
  <2>5. \A o \in DOMAIN stmt' : \A g \in DOMAIN connections :
          connections[g].id = stmt'[o].owner => connections[g].addr = stmt'[o].addr
    BY <1>2, <1>11, <2>1, <2>3
  <2> QED BY <1>1, <2>4, <2>5 DEF IInv, Ghosts
<1>13. Waits'
  BY <1>1 DEF Waits, Free, Nothing
<1> QED BY <1>8, <1>10, <1>12, <1>13 DEF IInv, Range

\* Retiring statements that have a handle, when their handles are given up.
LEMMA RetireActionKeeps ==
  ASSUME IInv, NEW gone \in SUBSET Range(statements), Retire(gone),
         Range(statements') = Range(statements) \ gone,
         UNCHANGED <<connections, opened, created, submitted>>
  PROVE  Good(connections', input', Range(statements'), stmt') /\ Ghosts'
PROOF
<1> DEFINE tear == [h \in DOMAIN input |-> TeardownsFor(gone, h)]
           st2 == Destroyed(Orphans(gone))
           own == Range(statements)
<1>1. /\ Good(connections, input, own, stmt)
      /\ DOMAIN input = DOMAIN connections
      /\ OneAddress(connections) /\ DOMAIN connections \subseteq Nat \ {0}
      /\ stmt \in Seq(Objects) /\ own \subseteq DOMAIN stmt
      /\ \A h \in DOMAIN connections : connections[h].id \in Nat
  BY DEF IInv, Good, Queues, Heap, Named, Ghosts
<1>2. gone \subseteq DOMAIN stmt
  BY <1>1
<1>3. \A h \in DOMAIN input : tear[h] = TeardownsFor(gone, h)
  OBVIOUS
<1>4. \A h \in DOMAIN input :
        /\ tear[h] \in Seq(Jobs)
        /\ \A i \in DOMAIN tear[h] :
             /\ tear[h][i].what = "close" /\ tear[h][i].stmt \in gone
             /\ stmt[tear[h][i].stmt].addr = connections[h].addr
        /\ \A i, k \in DOMAIN tear[h] : tear[h][i].stmt = tear[h][k].stmt => i = k
        /\ \A o \in gone : connections[h].addr = stmt[o].addr =>
             \E i \in DOMAIN tear[h] : tear[h][i].stmt = o
  <2> SUFFICES ASSUME NEW h \in DOMAIN input
               PROVE  /\ TeardownsFor(gone, h) \in Seq(Jobs)
                      /\ \A i \in DOMAIN TeardownsFor(gone, h) :
                           /\ TeardownsFor(gone, h)[i].what = "close"
                           /\ TeardownsFor(gone, h)[i].stmt \in gone
                           /\ stmt[TeardownsFor(gone, h)[i].stmt].addr = connections[h].addr
                      /\ \A i, k \in DOMAIN TeardownsFor(gone, h) :
                           TeardownsFor(gone, h)[i].stmt = TeardownsFor(gone, h)[k].stmt => i = k
                      /\ \A o \in gone : connections[h].addr = stmt[o].addr =>
                           \E i \in DOMAIN TeardownsFor(gone, h) : TeardownsFor(gone, h)[i].stmt = o
    BY <1>3
  <2>1. h \in DOMAIN connections /\ h \in Nat /\ connections[h].id \in Nat
    BY <1>1
  <2> QED BY <1>1, <1>2, <2>1, TeardownsOf
<1>5. \A o \in DOMAIN stmt : stmt[o] \in Objects
  BY <1>1, ElementOfSeq, LenProperties
<1>6. \A o \in gone : o \in Orphans(gone) <=> \A h \in DOMAIN connections : connections[h].addr # stmt[o].addr
  <2> SUFFICES ASSUME NEW o \in gone
               PROVE  ConnectionHandleOf(stmt[o].addr) = None
                        <=> \A h \in DOMAIN connections : connections[h].addr # stmt[o].addr
    BY DEF Orphans
  <2> QED BY <1>1, HandleAtAddress
<1>7. Orphans(gone) \subseteq gone
  BY DEF Orphans
<1>8. /\ DOMAIN st2 = DOMAIN stmt
      /\ \A o \in DOMAIN stmt :
           st2[o] = [stmt[o] EXCEPT !.alive = stmt[o].alive /\ o \notin Orphans(gone)]
  BY DEF Destroyed
<1> HIDE DEF st2, tear, own
<1>9. \A o \in DOMAIN stmt :
        /\ st2[o] \in Objects
        /\ st2[o].addr = stmt[o].addr /\ st2[o].owner = stmt[o].owner
        /\ st2[o].alive = (stmt[o].alive /\ o \notin Orphans(gone))
  <2> SUFFICES ASSUME NEW o \in DOMAIN stmt
               PROVE  /\ st2[o] \in Objects
                      /\ st2[o].addr = stmt[o].addr /\ st2[o].owner = stmt[o].owner
                      /\ st2[o].alive = (stmt[o].alive /\ o \notin Orphans(gone))
    OBVIOUS
  <2> DEFINE b == stmt[o].alive /\ o \notin Orphans(gone)
  <2>1. b \in BOOLEAN
    OBVIOUS
  <2>2. st2[o] = [stmt[o] EXCEPT !.alive = b]
    BY <1>8
  <2>3. stmt[o] \in Objects
    BY <1>5
  <2> HIDE DEF b
  <2>4. st2[o] \in Objects /\ st2[o].addr = stmt[o].addr /\ st2[o].owner = stmt[o].owner
    BY <2>1, <2>2, <2>3 DEF Objects
  <2>5. st2[o].alive = b
    BY <2>2, <2>3 DEF Objects
  <2> QED BY <2>4, <2>5 DEF b
<1>10. st2 \in Seq(Objects)
  <2>1. DOMAIN stmt = 1 .. Len(stmt) /\ Len(stmt) \in Nat
    BY <1>1, LenProperties
  <2>2. st2 \in [1 .. Len(stmt) -> Objects]
    BY <1>8, <1>9, <2>1 DEF st2, Destroyed
  <2> QED BY <2>1, <2>2, SeqDef
<1>11. \A o \in DOMAIN stmt :
         st2[o].alive <=> stmt[o].alive /\ ~(o \in gone /\ \A h \in DOMAIN connections : connections[h].addr # stmt[o].addr)
  BY <1>6, <1>7, <1>9
<1>12. input' = [h \in DOMAIN input |-> input[h] \o tear[h]] /\ stmt' = st2
  BY <1>3 DEF Retire, st2
<1>13. Good(connections', input', Range(statements'), stmt')
  <2>1. ASSUME NEW new, new = [h \in DOMAIN input |-> input[h] \o tear[h]]
        PROVE  Good(connections, new, own \ gone, st2)
    <3>1. gone \subseteq own /\ Good(connections, input, own, stmt) /\ DOMAIN st2 = DOMAIN stmt
      BY <1>1, <1>8 DEF own
    <3>2. \A o \in gone : \A h \in DOMAIN connections : connections[h].addr = stmt[o].addr =>
            \E i \in DOMAIN tear[h] : tear[h][i].stmt = o
      BY <1>1, <1>4
    <3>3. \A o \in DOMAIN stmt :
            /\ st2[o].addr = stmt[o].addr
            /\ st2[o].alive <=> stmt[o].alive /\ ~(o \in gone /\ \A h \in DOMAIN connections : connections[h].addr # stmt[o].addr)
      BY <1>9, <1>11
    <3>4. DOMAIN new = DOMAIN input /\ \A h \in DOMAIN input : new[h] = input[h] \o tear[h]
      BY <2>1
    <3>5. Retired(connections, input, own, stmt, gone, tear, new, st2)
      BY <1>4, <1>10, <3>1, <3>2, <3>3, <3>4 DEF Retired
    <3> QED BY <3>1, <3>5, RetireKeeps
  <2> QED BY <1>12, <2>1 DEF own
<1>14. Ghosts'
  BY <1>8, <1>9, <1>12 DEF IInv, Ghosts
<1> QED BY <1>13, <1>14

LEMMA CloseStatementKeeps == ASSUME IInv, NEW s, CloseStatement(s) PROVE IInv'
PROOF
<1>1. /\ s \in DOMAIN statements /\ Retire({statements[s]})
      /\ statements' = Drop(statements, {s}) /\ Free
      /\ UNCHANGED <<connections, models, nextVars, opened, created, submitted, waiting>>
  BY DEF CloseStatement
<1>2. /\ DOMAIN statements' = DOMAIN statements \ {s}
      /\ \A t \in DOMAIN statements' : statements'[t] = statements[t]
  BY <1>1 DEF Drop, Restrict
<1>3. \A t, u \in DOMAIN statements : statements[t] = statements[u] => t = u
  BY DEF IInv, Named
<1>4. Range(statements') = Range(statements) \ {statements[s]}
  BY <1>1, <1>2, <1>3 DEF Range
<1>5. {statements[s]} \in SUBSET Range(statements)
  BY <1>1 DEF Range
<1>6. Good(connections', input', Range(statements'), stmt') /\ Ghosts'
  BY <1>1, <1>4, <1>5, RetireActionKeeps
<1>7. DOMAIN input' = DOMAIN input /\ DOMAIN input = DOMAIN connections
  BY <1>1 DEF Retire, IInv, Good, Queues
<1>8. Named'
  BY <1>1, <1>2, <1>3 DEF IInv, Named, nextVars
<1>9. Waits'
  BY <1>1 DEF Waits, Free, Nothing
<1> QED BY <1>6, <1>8, <1>9 DEF IInv, Range

LEMMA ClearKeeps == ASSUME IInv, NEW what \in {"reset", "free"}, Clear(what) PROVE IInv'
PROOF
<1>1. /\ Retire(Range(statements)) /\ statements' = <<>> /\ models' = <<>>
      /\ waiting' = [for |-> what, on |-> None]
      /\ UNCHANGED <<connections, nextVars, opened, created, submitted>>
  BY DEF Clear
<1>2. Range(statements') = {} /\ DOMAIN statements' = {} /\ DOMAIN models' = {}
  BY <1>1, Empty DEF Range
<1>3. Good(connections', input', Range(statements'), stmt') /\ Ghosts'
  BY <1>1, <1>2, RetireActionKeeps
<1>4. Named'
  BY <1>1, <1>2 DEF IInv, Named, nextVars
<1>5. Waits'
  BY <1>1 DEF Waits
<1> QED BY <1>3, <1>4, <1>5 DEF IInv, Range

LEMMA RunJobKeeps == ASSUME IInv, NEW h, RunJob(h) PROVE IInv'
PROOF
<1> DEFINE j == Head(input[h])
<1>1. /\ h \in DOMAIN input /\ input[h] # <<>>
      /\ input' = [input EXCEPT ![h] = Tail(@)]
      /\ UNCHANGED <<connections, statements, models, nextVars, opened, created, submitted, waiting>>
  BY DEF RunJob
<1>2. /\ Good(connections, input, Range(statements), stmt)
      /\ DOMAIN input = DOMAIN connections /\ input[h] \in Seq(Jobs)
      /\ stmt \in Seq(Objects)
      /\ connections[h].id \in Nat
  BY <1>1 DEF IInv, Good, Queues, Heap, Ghosts
<1>3. /\ DOMAIN stmt = 1 .. Len(stmt) /\ Len(stmt) \in Nat
      /\ \A o \in DOMAIN stmt : stmt[o] \in Objects
  BY <1>2, ElementOfSeq, LenProperties
<1>4. 1 \in DOMAIN input[h] /\ j = input[h][1] /\ j \in Jobs
  <2>1. Len(input[h]) \in Nat /\ Len(input[h]) > 0 /\ DOMAIN input[h] = 1 .. Len(input[h])
    BY <1>1, <1>2, EmptySeq, LenProperties
  <2> QED BY <1>2, <2>1, ElementOfSeq
<1>5. Touches(j) => j.stmt \in DOMAIN stmt
  BY <1>1, <1>2, <1>4 DEF Good, Local
<1>6. \/ j.what = "close" /\ stmt' = [stmt EXCEPT ![j.stmt].alive = FALSE]
      \/ j.what = "exec" /\ stmt' = [stmt EXCEPT ![j.stmt].preparedOn = connections[h].id]
      \/ j.what # "close" /\ stmt' = stmt
  BY DEF RunJob
<1> HIDE DEF j
<1>7. /\ DOMAIN stmt' = DOMAIN stmt
      /\ \A o \in DOMAIN stmt :
           /\ stmt'[o] \in Objects
           /\ stmt'[o].addr = stmt[o].addr /\ stmt'[o].owner = stmt[o].owner
           /\ stmt'[o].alive <=> stmt[o].alive /\ ~(j.what = "close" /\ j.stmt = o)
  <2>1. CASE j.what = "close" /\ stmt' = [stmt EXCEPT ![j.stmt].alive = FALSE]
    BY <1>3, <1>5, <2>1 DEF Objects, Touches
  <2>2. CASE j.what = "exec" /\ stmt' = [stmt EXCEPT ![j.stmt].preparedOn = connections[h].id]
    BY <1>2, <1>3, <1>5, <2>2 DEF Objects, Touches
  <2>3. CASE j.what # "close" /\ stmt' = stmt
    BY <1>3, <2>3
  <2> QED BY <1>6, <2>1, <2>2, <2>3
<1>8. stmt' \in Seq(Objects)
  <2>1. \E e : stmt' = [stmt EXCEPT ![j.stmt] = e] \/ stmt' = stmt
    BY <1>6
  <2>2. stmt' = [o \in DOMAIN stmt |-> stmt'[o]]
    BY <1>2, <2>1
  <2>3. stmt' \in [1 .. Len(stmt) -> Objects]
    BY <1>3, <1>7, <2>2
  <2> QED BY <1>3, <2>3, SeqDef
<1>9. Good(connections', input', Range(statements'), stmt')
  <2>1. ASSUME NEW new, new = [input EXCEPT ![h] = Tail(@)], NEW st2, st2 = stmt'
        PROVE  Good(connections, new, Range(statements), st2)
    <3>1. /\ st2 \in Seq(Objects) /\ DOMAIN st2 = DOMAIN stmt
          /\ \A o \in DOMAIN stmt :
               /\ st2[o].addr = stmt[o].addr
               /\ st2[o].alive <=> stmt[o].alive /\ ~(Head(input[h]).what = "close" /\ Head(input[h]).stmt = o)
      BY <1>7, <1>8, <2>1 DEF j
    <3>2. Ran(input, stmt, h, new, st2)
      BY <1>1, <2>1, <3>1 DEF Ran
    <3> QED BY <1>2, <3>2, RunKeeps
  <2> QED BY <1>1, <2>1
<1>10. Ghosts'
  BY <1>1, <1>7 DEF IInv, Ghosts
<1>11. Named' /\ Waits'
  BY <1>1 DEF IInv, Named, Waits, nextVars
<1> QED BY <1>9, <1>10, <1>11 DEF IInv, Range

LEMMA FinishResetKeeps == ASSUME IInv, FinishReset \/ FinishFree PROVE IInv'
PROOF
<1>1. /\ waiting.for \in {"reset", "free"}
      /\ \A h \in DOMAIN input : input[h] = <<>>
      /\ connections' = <<>> /\ input' = <<>>
      /\ UNCHANGED <<statements, models, stmt, opened, created, submitted>>
  BY DEF FinishReset, FinishFree
<1>2. statements = <<>> /\ models = <<>>
  BY <1>1 DEF IInv, Waits
<1>3. /\ DOMAIN connections' = {} /\ DOMAIN input' = {}
      /\ DOMAIN statements' = {} /\ DOMAIN models' = {}
  BY <1>1, <1>2, Empty
<1>4. Good(connections', input', Range(statements'), stmt') /\ Ghosts'
  BY <1>1, <1>3, GoneKeeps
<1>5. nextHandle' \in Nat \ {0} /\ nextStatement' \in Nat \ {0} /\ nextModel' \in Nat \ {0}
  BY DEF FinishReset, FinishFree, IInv, Named, nextVars
<1>6. Named'
  BY <1>3, <1>5 DEF Named
<1>7. Waits'
  BY <1>1, <1>2 DEF Waits, FinishReset, FinishFree, Nothing
<1> QED BY <1>4, <1>6, <1>7 DEF IInv, Range

LEMMA Step == IInv /\ [Next]_vars => IInv'
PROOF
<1> SUFFICES ASSUME IInv, [Next]_vars PROVE IInv'
  OBVIOUS
<1>1. CASE Connect
  BY <1>1, ConnectKeeps
<1>2. ASSUME NEW h, (CloseConnection(h) \/ Query(h) \/ QuerySync(h) \/ Prepare(h)) PROVE IInv'
  BY <1>2, CloseKeeps, QueryKeeps, QuerySyncKeeps, PrepareActionKeeps
<1>3. ASSUME NEW s, (Execute(s) \/ CloseStatement(s)) PROVE IInv'
  BY <1>3, ExecuteKeeps, CloseStatementKeeps
<1>4. CASE CreateModel
  BY <1>4, ModelsKeep
<1>5. ASSUME NEW m, DestroyModel(m) PROVE IInv'
  BY <1>5, ModelsKeep DEF DestroyModel
<1>6. ASSUME NEW m, NEW h, ModelQuery(m, h) PROVE IInv'
  BY <1>6, ModelQueryKeeps
<1>7. ASSUME NEW h, RunJob(h) PROVE IInv'
  BY <1>7, RunJobKeeps
<1>8. CASE Drain \/ Dispatch
  BY <1>8, TickKeeps
<1>9. CASE Clear("reset") \/ Clear("free")
  BY <1>9, ClearKeeps
<1>10. CASE Finish
  BY <1>10, FinishCloseKeeps, FinishSyncKeeps, FinishResetKeeps DEF Finish
<1>11. CASE UNCHANGED vars
  <2>1. UNCHANGED <<connections, input, statements, models, nextVars, stmt, opened, created, submitted, waiting>>
    BY <1>11 DEF vars, regVars
  <2>2. Good(connections', input', Range(statements'), stmt')
    BY <2>1 DEF IInv
  <2>3. Named' /\ Ghosts' /\ Waits'
    BY <2>1 DEF IInv, Named, Ghosts, Waits, nextVars
  <2> QED BY <2>2, <2>3 DEF IInv, Range
<1> QED BY <1>1, <1>2, <1>3, <1>4, <1>5, <1>6, <1>7, <1>8, <1>9, <1>10, <1>11 DEF Next

LEMMA Invariant == Spec => []IInv
PROOF
<1> QED BY Starts, Step, PTL DEF Spec, SafeSpec

\* Handles, identities, queues and what the main thread waits for are what they claim to
\* be in every reachable state of natives.cpp's handlers and MySQLComponent.
THEOREM TypeCorrect == Spec => []TypeOK
PROOF
<1>1. IInv => TypeOK
  BY DEF IInv, TypeOK, Good, Queues, Heap, Named, Ghosts, Waits, Range
<1> QED BY <1>1, Invariant, PTL

\* A queued execute never finds its PreparedStatement destroyed, and the teardown
\* removeStatement queued for it is behind it in the same worker's queue: mysql_stmt_close,
\* mysql_close, reset and free leave no job with a dangling statement.
THEOREM BorrowCorrect == Spec => []BorrowedStatementAlive
PROOF
<1>1. IInv => BorrowedStatementAlive
  <2> SUFFICES ASSUME IInv, NEW h \in DOMAIN input, NEW i \in DOMAIN input[h],
                      input[h][i].what = "exec"
               PROVE  /\ stmt[input[h][i].stmt].alive
                      /\ \A g \in DOMAIN input : \A k \in DOMAIN input[g] :
                           (input[g][k].what = "close" /\ input[g][k].stmt = input[h][i].stmt)
                             => g = h /\ i < k
    BY DEF BorrowedStatementAlive
  <2>1. /\ stmt[input[h][i].stmt].alive
        /\ stmt[input[h][i].stmt].addr = connections[h].addr
    BY DEF IInv, Good, Local, Touches
  <2> SUFFICES ASSUME NEW g \in DOMAIN input, NEW k \in DOMAIN input[g],
                      input[g][k].what = "close", input[g][k].stmt = input[h][i].stmt
               PROVE  g = h /\ i < k
    BY <2>1
  <2>2. stmt[input[g][k].stmt].addr = connections[g].addr
    BY DEF IInv, Good, Local, Touches
  <2>3. g = h
    BY <2>1, <2>2 DEF IInv, Good, OneAddress, Queues
  <2> QED BY <2>3 DEF IInv, Good, TornLast
<1> QED BY <1>1, Invariant, PTL

\* A PreparedStatement lives exactly as long as its handle or the one teardown job that
\* removeStatement queued for it: no path leaks one or frees one twice.
THEOREM OwnedCorrect == Spec => []StatementOwnedOnce
PROOF
<1>1. IInv => StatementOwnedOnce
  <2> SUFFICES ASSUME IInv, NEW o \in DOMAIN stmt
               PROVE  /\ stmt[o].alive <=> o \in Range(statements) \/ \E j \in Teardowns : j.stmt = o
                      /\ o \in Range(statements) => \A j \in Teardowns : j.stmt # o
                      /\ \A g, h \in DOMAIN input : \A i \in DOMAIN input[g], k \in DOMAIN input[h] :
                           (input[g][i].what = "close" /\ input[g][i].stmt = o /\
                            input[h][k].what = "close" /\ input[h][k].stmt = o) => g = h /\ i = k
    BY DEF StatementOwnedOnce
  \* The teardowns, by their place.
  <2>1. \A j \in Teardowns : \E h \in DOMAIN input : \E i \in DOMAIN input[h] :
          j = input[h][i] /\ input[h][i].what = "close"
    BY DEF Teardowns, Queued, Range
  <2>2. \A h \in DOMAIN input : \A i \in DOMAIN input[h] :
          input[h][i].what = "close" => input[h][i] \in Teardowns
    BY DEF Teardowns, Queued, Range
  <2>3. o \in Range(statements) => stmt[o].alive /\ \A j \in Teardowns : j.stmt # o
    BY <2>1 DEF IInv, Good, Owned
  <2>4. (\E j \in Teardowns : j.stmt = o) => stmt[o].alive
    BY <2>1 DEF IInv, Good, Local, Touches
  <2>5. stmt[o].alive => o \in Range(statements) \/ \E j \in Teardowns : j.stmt = o
    BY <2>2 DEF IInv, Good, NotLeaked
  <2>6. ASSUME NEW g \in DOMAIN input, NEW h \in DOMAIN input,
               NEW i \in DOMAIN input[g], NEW k \in DOMAIN input[h],
               input[g][i].what = "close", input[g][i].stmt = o,
               input[h][k].what = "close", input[h][k].stmt = o
        PROVE  g = h /\ i = k
    <3>1. stmt[o].addr = connections[g].addr /\ stmt[o].addr = connections[h].addr
      BY <2>6 DEF IInv, Good, Local, Touches
    <3>2. g = h
      BY <3>1 DEF IInv, Good, OneAddress, Queues
    <3> QED BY <2>6, <3>2 DEF IInv, Good, TornLast
  <2>7. stmt[o].alive \in BOOLEAN
    <3>1. stmt[o] \in Objects
      BY ElementOfSeq, LenProperties DEF IInv, Good, Heap
    <3> QED BY <3>1 DEF Objects
  <2> QED BY <2>3, <2>4, <2>5, <2>6, <2>7
<1> QED BY <1>1, Invariant, PTL

\* While its Connection lives, a PreparedStatement is destroyed by a teardown that this
\* connection's worker runs, never by the main thread or another worker: mysql_stmt_close
\* and the MYSQL* are used by one thread.
THEOREM ClosedCorrect == Spec => ClosedByItsWorker
PROOF
<1> DEFINE Closes == \A o \in DOMAIN stmt :
             (stmt[o].alive /\ ~stmt'[o].alive /\ stmt[o].owner \in LiveConnections) =>
               \E h \in DOMAIN input :
                 /\ connections[h].id = stmt[o].owner
                 /\ input[h] # <<>> /\ input'[h] = Tail(input[h])
                 /\ Head(input[h]).what = "close" /\ Head(input[h]).stmt = o
<1>1. IInv /\ [Next]_vars => [Closes]_vars
  <2> SUFFICES ASSUME IInv, Next, NEW o \in DOMAIN stmt,
                      stmt[o].alive, ~stmt'[o].alive, stmt[o].owner \in LiveConnections
               PROVE  \E h \in DOMAIN input :
                        /\ connections[h].id = stmt[o].owner
                        /\ input[h] # <<>> /\ input'[h] = Tail(input[h])
                        /\ Head(input[h]).what = "close" /\ Head(input[h]).stmt = o
    OBVIOUS
  <2>1. PICK h \in DOMAIN connections : connections[h].id = stmt[o].owner
    BY DEF LiveConnections
  <2>2. connections[h].addr = stmt[o].addr
    BY <2>1 DEF IInv, Ghosts
  <2>3. DOMAIN input = DOMAIN connections /\ stmt \in Seq(Objects) /\ OneAddress(connections)
        /\ DOMAIN connections \subseteq Nat \ {0} /\ DOMAIN stmt = 1 .. Len(stmt) /\ Len(stmt) \in Nat
    BY LenProperties DEF IInv, Good, Queues, Heap, Named
  \* No statement at the address of an open connection is destroyed by a native.
  <2>4. ASSUME NEW gone, Retire(gone) PROVE FALSE
    <3>1. ConnectionHandleOf(stmt[o].addr) # None
      BY <2>1, <2>2, <2>3, HandleAtAddress
    <3>2. o \notin Orphans(gone)
      BY <3>1 DEF Orphans
    <3>3. stmt'[o].alive = (stmt[o].alive /\ o \notin Orphans(gone))
      <4>1. stmt' = [x \in DOMAIN stmt |-> [stmt[x] EXCEPT !.alive = stmt[x].alive /\ x \notin Orphans(gone)]]
        BY <2>4 DEF Retire, Destroyed
      <4>2. stmt[o] \in Objects
        BY <2>3, ElementOfSeq
      <4> QED BY <4>1, <4>2 DEF Objects
    <3> QED BY <3>2, <3>3
  <2>5. CASE \E g \in Handles : RunJob(g)
    <3>1. PICK g \in Handles : RunJob(g)
      BY <2>5
    <3> DEFINE j == Head(input[g])
    <3>2. /\ g \in DOMAIN input /\ input[g] # <<>> /\ input'[g] = Tail(input[g])
          /\ input[g] \in Seq(Jobs)
      BY <3>1 DEF RunJob, IInv, Good, Queues
    <3>3. 1 \in DOMAIN input[g] /\ j = input[g][1]
      BY <3>2, EmptySeq, LenProperties
    <3>4. \/ j.what = "close" /\ stmt' = [stmt EXCEPT ![j.stmt].alive = FALSE]
          \/ j.what = "exec" /\ stmt' = [stmt EXCEPT ![j.stmt].preparedOn = connections[g].id]
          \/ j.what # "close" /\ stmt' = stmt
      BY <3>1 DEF RunJob
    <3> HIDE DEF j
    <3>5. stmt[o] \in Objects
      BY <2>3, ElementOfSeq
    <3>6. j.what = "close" /\ j.stmt = o
      BY <3>4, <3>5 DEF Objects
    <3>7. stmt[o].addr = connections[g].addr
      BY <3>2, <3>3, <3>6 DEF IInv, Good, Local, Touches
    <3>8. g = h
      BY <2>2, <2>3, <3>2, <3>7 DEF OneAddress
    <3> QED BY <2>1, <3>2, <3>6, <3>8 DEF j
  <2>6. CASE \E g \in Handles : Prepare(g)
    <3>1. PICK s \in Objects : stmt' = Append(stmt, s)
      <4>1. PICK g \in DOMAIN connections :
              stmt' = Append(stmt, [addr |-> connections[g].addr, owner |-> connections[g].id,
                                    alive |-> TRUE, preparedOn |-> None])
        BY <2>6 DEF Prepare
      <4>2. connections[g].addr \in Addresses /\ connections[g].id \in Nat
        BY DEF IInv, Ghosts
      <4> QED BY <4>1, <4>2 DEF Objects, None
    <3> QED BY <2>3, <3>1, AppendProperties
  <2>7. CASE \/ \E s \in 1..MaxStatements : CloseStatement(s)
             \/ Clear("reset") \/ Clear("free")
    BY <2>4, <2>7 DEF CloseStatement, Clear
  <2>8. CASE UNCHANGED stmt
    BY <2>8
  <2> QED BY <2>5, <2>6, <2>7, <2>8 DEF Next, Connect, CloseConnection, Query, QuerySync,
          Execute, CreateModel, DestroyModel, ModelQuery, Drain, Dispatch, Finish, FinishClose,
          FinishSync, FinishReset, FinishFree, vars
<1>2. ClosedByItsWorker <=> [][Closes]_vars
  BY PTL DEF ClosedByItsWorker
<1> QED BY <1>1, <1>2, Invariant, PTL DEF Spec, SafeSpec
-----------------------------------------------------------------------------
(* The replies.  Jobs are numbered as natives submit them.  Everything     *)
(* that is on its way to the scripts is one sequence, out: dispatched,     *)
(* then drained, then completed.  A worker moves the head of its queue to  *)
(* the end of out; a tick only moves the borders within out.               *)


Outs == Jobs \cup [n : Nat, conn : Nat]

\* What is on its way out is in order, connection by connection.
OutOrder(out, sub, op) ==
  /\ out \in Seq(Outs)
  /\ \A i \in DOMAIN out : out[i].n \in 1 .. sub /\ out[i].conn \in 1 .. op
  /\ \A i, k \in DOMAIN out : (i < k /\ out[i].conn = out[k].conn) => out[i].n < out[k].n

\* A queue holds jobs of its connection.  Those with a number are the asynchronous ones,
\* in order, and behind everything of this connection that is on its way out.
QueueOrder(out, con, inp, sub) ==
  \A h \in DOMAIN inp : \A k \in DOMAIN inp[h] :
    /\ inp[h][k].conn = con[h].id
    /\ inp[h][k].n \in 0 .. sub
    /\ inp[h][k].n # None <=> inp[h][k].what \in {"query", "exec"}
    /\ inp[h][k].n # None =>
         /\ \A i \in DOMAIN inp[h] : (k < i /\ inp[h][i].n # None) => inp[h][k].n < inp[h][i].n
         /\ \A i \in DOMAIN out : out[i].conn = con[h].id => out[i].n < inp[h][k].n

\* Every number is in a queue or on its way out.
Covered(out, inp, sub) ==
  \A m \in 1 .. sub :
    \/ \E h \in DOMAIN inp : \E k \in DOMAIN inp[h] : inp[h][k].n = m
    \/ \E i \in DOMAIN out : out[i].n = m

\* The first two parts.
Ordered(out, con, inp, sub, op) ==
  /\ sub \in Nat /\ op \in Nat
  /\ OutOrder(out, sub, op) /\ QueueOrder(out, con, inp, sub)

Out == dispatched \o batch \o completed

OInv ==
  /\ dispatched \in Seq(Outs) /\ batch \in Seq(Outs) /\ completed \in Seq(Outs)
  /\ Ordered(Out, connections, input, submitted, opened)
  /\ ~Gone => Covered(Out, input, submitted)

-----------------------------------------------------------------------------
(* Three sequences in a row.                                               *)

Row(d, b, c, out) ==
  /\ out \in Seq(Outs) /\ Len(out) = Len(d) + Len(b) + Len(c)
  /\ Len(d) \in Nat /\ Len(b) \in Nat /\ Len(c) \in Nat
  /\ DOMAIN out = 1 .. Len(d) + Len(b) + Len(c)
  /\ \A i \in 1 .. Len(d) : out[i] = d[i]
  /\ \A i \in 1 .. Len(b) : out[Len(d) + i] = b[i]
  /\ \A i \in 1 .. Len(c) : out[Len(d) + Len(b) + i] = c[i]

LEMMA OutIs ==
  ASSUME NEW d \in Seq(Outs), NEW b \in Seq(Outs), NEW c \in Seq(Outs),
         NEW out, out = d \o b \o c
  PROVE  Row(d, b, c, out)
PROOF
<1> DEFINE db == d \o b
<1>0. out = db \o c
  OBVIOUS
<1>1. /\ db \in Seq(Outs) /\ Len(db) = Len(d) + Len(b)
      /\ \A i \in 1 .. Len(d) + Len(b) : db[i] = IF i <= Len(d) THEN d[i] ELSE b[i - Len(d)]
  BY ConcatProperties
<1>2. Len(d) \in Nat /\ Len(b) \in Nat /\ Len(c) \in Nat
  BY LenProperties
<1> HIDE DEF db
<1>3. /\ out \in Seq(Outs) /\ Len(out) = Len(db) + Len(c)
      /\ \A i \in 1 .. Len(db) + Len(c) : out[i] = IF i <= Len(db) THEN db[i] ELSE c[i - Len(db)]
  BY <1>0, <1>1, ConcatProperties
<1>4. DOMAIN out = 1 .. Len(out)
  BY <1>3, LenProperties
<1>5. \A i \in 1 .. Len(d) : out[i] = d[i]
  <2> SUFFICES ASSUME NEW i \in 1 .. Len(d) PROVE out[i] = d[i]
    OBVIOUS
  <2>1. i \in 1 .. Len(d) + Len(b) /\ i \in 1 .. Len(db) + Len(c) /\ i <= Len(db) /\ i <= Len(d)
    BY <1>1, <1>2
  <2> QED BY <1>1, <1>3, <2>1
<1>6. \A i \in 1 .. Len(b) : out[Len(d) + i] = b[i]
  <2> SUFFICES ASSUME NEW i \in 1 .. Len(b) PROVE out[Len(d) + i] = b[i]
    OBVIOUS
  <2>1. /\ Len(d) + i \in 1 .. Len(d) + Len(b) /\ Len(d) + i \in 1 .. Len(db) + Len(c)
        /\ Len(d) + i <= Len(db) /\ ~(Len(d) + i <= Len(d)) /\ (Len(d) + i) - Len(d) = i
    BY <1>1, <1>2
  <2> QED BY <1>1, <1>3, <2>1
<1>7. \A i \in 1 .. Len(c) : out[Len(d) + Len(b) + i] = c[i]
  <2> SUFFICES ASSUME NEW i \in 1 .. Len(c) PROVE out[Len(d) + Len(b) + i] = c[i]
    OBVIOUS
  <2>1. /\ Len(d) + Len(b) + i \in 1 .. Len(db) + Len(c)
        /\ ~(Len(d) + Len(b) + i <= Len(db)) /\ (Len(d) + Len(b) + i) - Len(db) = i
    BY <1>1, <1>2
  <2> QED BY <1>3, <2>1
<1> QED BY <1>1, <1>2, <1>3, <1>4, <1>5, <1>6, <1>7 DEF Row

\* A finished job goes to the end.
LEMMA OutGrows ==
  ASSUME NEW d \in Seq(Outs), NEW b \in Seq(Outs), NEW c \in Seq(Outs), NEW j \in Outs,
         NEW out, out = d \o b \o c, NEW out2, out2 = d \o b \o Append(c, j)
  PROVE  /\ out2 \in Seq(Outs) /\ Len(out) \in Nat /\ DOMAIN out = 1 .. Len(out)
         /\ DOMAIN out2 = 1 .. Len(out) + 1
         /\ \A i \in DOMAIN out : out2[i] = out[i]
         /\ out2[Len(out) + 1] = j
PROOF
<1> DEFINE db == d \o b
<1>1. db \in Seq(Outs)
  BY ConcatProperties
<1>2. out = db \o c /\ out2 = db \o Append(c, j)
  OBVIOUS
<1> HIDE DEF db
<1>3. /\ Append(c, j) \in Seq(Outs) /\ Len(Append(c, j)) = Len(c) + 1 /\ Len(c) \in Nat
      /\ \A i \in 1 .. Len(c) : Append(c, j)[i] = c[i]
      /\ Append(c, j)[Len(c) + 1] = j
  BY AppendProperties, LenProperties
<1> DEFINE c2 == Append(c, j)
<1> HIDE DEF c2
<1>4. /\ out \in Seq(Outs) /\ Len(out) = Len(db) + Len(c) /\ Len(db) \in Nat
      /\ \A i \in 1 .. Len(db) + Len(c) : out[i] = IF i <= Len(db) THEN db[i] ELSE c[i - Len(db)]
  BY <1>1, <1>2, ConcatProperties, LenProperties
<1>5. /\ out2 \in Seq(Outs) /\ Len(out2) = Len(db) + Len(c2)
      /\ \A i \in 1 .. Len(db) + Len(c2) : out2[i] = IF i <= Len(db) THEN db[i] ELSE c2[i - Len(db)]
  <2>1. c2 \in Seq(Outs) /\ out2 = db \o c2
    BY <1>2, <1>3 DEF c2
  <2> QED BY <1>1, <2>1, ConcatProperties
<1>6. /\ Len(c2) = Len(c) + 1 /\ c2[Len(c) + 1] = j /\ Len(c) \in Nat
      /\ \A i \in 1 .. Len(c) : c2[i] = c[i]
  BY <1>3 DEF c2
<1>7. DOMAIN out = 1 .. Len(out) /\ DOMAIN out2 = 1 .. Len(out2)
  BY <1>4, <1>5, LenProperties
<1>8. \A i \in DOMAIN out : out2[i] = out[i]
  <2> SUFFICES ASSUME NEW i \in DOMAIN out PROVE out2[i] = out[i]
    OBVIOUS
  <2>1. i \in 1 .. Len(db) + Len(c) /\ i \in 1 .. Len(db) + Len(c2)
    BY <1>4, <1>6, <1>7
  <2>2. CASE i <= Len(db)
    BY <1>4, <1>5, <2>1, <2>2
  <2>3. CASE ~(i <= Len(db))
    <3>1. i - Len(db) \in 1 .. Len(c)
      BY <1>4, <1>6, <2>1, <2>3
    <3> QED BY <1>4, <1>5, <1>6, <2>1, <2>3, <3>1
  <2> QED BY <2>2, <2>3
<1>9. out2[Len(out) + 1] = j
  <2>1. /\ Len(out) + 1 \in 1 .. Len(db) + Len(c2) /\ ~(Len(out) + 1 <= Len(db))
        /\ (Len(out) + 1) - Len(db) = Len(c) + 1
    BY <1>4, <1>6
  <2> QED BY <1>5, <1>6, <2>1
<1> QED BY SMTT(30), <1>4, <1>5, <1>6, <1>7, <1>8, <1>9

\* The tick moves the borders: the drained jobs, and then the dispatched one.
Alike(out, out2) ==
  /\ out2 \in Seq(Outs) /\ DOMAIN out2 = DOMAIN out
  /\ \A i \in DOMAIN out : out2[i].n = out[i].n /\ out2[i].conn = out[i].conn

LEMMA OutDrained ==
  ASSUME NEW d \in Seq(Outs), NEW c \in Seq(Outs), NEW out, NEW out2,
         out = d \o <<>> \o c, out2 = d \o c \o <<>>
  PROVE  Alike(out, out2)
PROOF
<1>1. <<>> \in Seq(Outs) /\ d \o <<>> = d /\ d \o c \in Seq(Outs) /\ (d \o c) \o <<>> = d \o c
  BY EmptySeq, ConcatProperties, ConcatEmptySeq
<1>2. out2 = out
  BY <1>1
<1> QED BY <1>1, <1>2 DEF Alike

LEMMA OutDispatched ==
  ASSUME NEW d \in Seq(Outs), NEW b \in Seq(Outs), NEW c \in Seq(Outs), b # <<>>,
         NEW x \in Outs, x.n = Head(b).n, x.conn = Head(b).conn,
         NEW out, NEW out2, out = d \o b \o c, out2 = Append(d, x) \o Tail(b) \o c
  PROVE  Alike(out, out2)
PROOF
<1> DEFINE d2 == Append(d, x)
           b2 == Tail(b)
<1>1. /\ d2 \in Seq(Outs) /\ Len(d2) = Len(d) + 1 /\ Len(d) \in Nat
      /\ \A i \in 1 .. Len(d) : d2[i] = d[i]
      /\ d2[Len(d) + 1] = x
  BY AppendProperties, LenProperties
<1>2. /\ b2 \in Seq(Outs) /\ Len(b2) = Len(b) - 1 /\ Len(b) \in Nat /\ Len(b) > 0
      /\ \A i \in 1 .. Len(b2) : b2[i] = b[i + 1]
      /\ Head(b) = b[1]
  BY HeadTailProperties, EmptySeq, LenProperties
<1>3. out2 = d2 \o b2 \o c
  OBVIOUS
<1> HIDE DEF d2, b2
<1>4. /\ out \in Seq(Outs) /\ Len(c) \in Nat
      /\ DOMAIN out = 1 .. Len(d) + Len(b) + Len(c)
      /\ \A i \in 1 .. Len(d) : out[i] = d[i]
      /\ \A i \in 1 .. Len(b) : out[Len(d) + i] = b[i]
      /\ \A i \in 1 .. Len(c) : out[Len(d) + Len(b) + i] = c[i]
  BY OutIs DEF Row
<1>5. /\ out2 \in Seq(Outs)
      /\ DOMAIN out2 = 1 .. Len(d2) + Len(b2) + Len(c)
      /\ \A i \in 1 .. Len(d2) : out2[i] = d2[i]
      /\ \A i \in 1 .. Len(b2) : out2[Len(d2) + i] = b2[i]
      /\ \A i \in 1 .. Len(c) : out2[Len(d2) + Len(b2) + i] = c[i]
  <2>1. d2 \in Seq(Outs) /\ b2 \in Seq(Outs)
    BY <1>1, <1>2
  <2>2. Row(d2, b2, c, out2)
    BY <1>3, <2>1, OutIs
  <2> QED BY <2>2 DEF Row
<1>6. DOMAIN out2 = DOMAIN out
  BY <1>1, <1>2, <1>4, <1>5
<1>7. ASSUME NEW i \in DOMAIN out
      PROVE  out2[i].n = out[i].n /\ out2[i].conn = out[i].conn
  <2>1. CASE i \in 1 .. Len(d)
    <3>1. i \in 1 .. Len(d2)
      BY <1>1, <2>1
    <3> QED BY <1>1, <1>4, <1>5, <2>1, <3>1
  <2>2. CASE i = Len(d) + 1
    <3>1. i \in 1 .. Len(d2) /\ 1 \in 1 .. Len(b)
      BY <1>1, <1>2, <2>2
    <3>2. out2[i] = x /\ out[i] = Head(b)
      BY <1>1, <1>2, <1>4, <1>5, <2>2, <3>1
    <3> QED BY <3>2
  <2>3. CASE i > Len(d) + 1 /\ i <= Len(d) + Len(b)
    <3> DEFINE k == i - (Len(d) + 1)
    <3>1. k \in 1 .. Len(b2) /\ k + 1 \in 1 .. Len(b) /\ i = Len(d2) + k /\ i = Len(d) + (k + 1)
      BY <1>1, <1>2, <1>4, <2>3
    <3> HIDE DEF k
    <3>2. out2[i] = b2[k] /\ out[i] = b[k + 1]
      BY <1>4, <1>5, <3>1
    <3> QED BY <1>2, <3>1, <3>2
  <2>4. CASE i > Len(d) + Len(b)
    <3> DEFINE k == i - (Len(d) + Len(b))
    <3>1. k \in 1 .. Len(c) /\ i = Len(d2) + Len(b2) + k /\ i = Len(d) + Len(b) + k
      BY <1>1, <1>2, <1>4, <2>4
    <3> HIDE DEF k
    <3> QED BY SMTT(30), <1>4, <1>5, <3>1
  <2> QED BY SMTT(30), <1>1, <1>2, <1>4, <2>1, <2>2, <2>3, <2>4
<1> QED BY <1>5, <1>6, <1>7 DEF Alike

-----------------------------------------------------------------------------
(* What each kind of change keeps.                                         *)

\* Only n and conn of what is on its way out matter.
LEMMA AlikeKeeps ==
  ASSUME NEW out, NEW con, NEW inp, NEW sub, NEW op, Ordered(out, con, inp, sub, op),
         NEW out2, Alike(out, out2)
  PROVE  /\ Ordered(out2, con, inp, sub, op)
         /\ Covered(out, inp, sub) => Covered(out2, inp, sub)
PROOF
<1>1. /\ out2 \in Seq(Outs) /\ DOMAIN out2 = DOMAIN out
      /\ \A i \in DOMAIN out : out2[i].n = out[i].n /\ out2[i].conn = out[i].conn
  BY DEF Alike
<1>2. OutOrder(out2, sub, op)
  BY <1>1 DEF Ordered, OutOrder
<1>3. QueueOrder(out2, con, inp, sub)
  BY <1>1 DEF Ordered, QueueOrder
<1>4. Covered(out, inp, sub) => Covered(out2, inp, sub)
  BY <1>1 DEF Covered
<1> QED BY <1>2, <1>3, <1>4 DEF Ordered

\* Queues grow at their ends: by teardowns and synchronous jobs, which have no number, or
\* by one asynchronous job with the next number.
Grown(con, inp, sub, inp2, sub2) ==
  /\ DOMAIN inp2 = DOMAIN inp
  /\ sub2 \in {sub, sub + 1}
  /\ \A h \in DOMAIN inp : \A k \in DOMAIN inp[h] : k \in DOMAIN inp2[h] /\ inp2[h][k] = inp[h][k]
  /\ \A h \in DOMAIN inp : \A k \in DOMAIN inp2[h] : k \notin DOMAIN inp[h] =>
       /\ inp2[h][k].conn = con[h].id
       /\ \/ inp2[h][k].n = None /\ inp2[h][k].what \in {"sync", "close"}
          \/ /\ sub2 = sub + 1 /\ inp2[h][k].n = sub2 /\ inp2[h][k].what \in {"query", "exec"}
             /\ \A i \in DOMAIN inp2[h] : i <= k
  /\ sub2 # sub => \E h \in DOMAIN inp2 : \E k \in DOMAIN inp2[h] : inp2[h][k].n = sub2

LEMMA GrowKeeps ==
  ASSUME NEW out, NEW con, NEW inp, NEW sub, NEW op, Ordered(out, con, inp, sub, op),
         \A h \in DOMAIN inp : DOMAIN inp[h] \subseteq Nat,
         NEW inp2, NEW sub2, Grown(con, inp, sub, inp2, sub2),
         \A h \in DOMAIN inp : DOMAIN inp2[h] \subseteq Nat
  PROVE  /\ Ordered(out, con, inp2, sub2, op)
         /\ Covered(out, inp, sub) => Covered(out, inp2, sub2)
PROOF
<1>1. sub \in Nat /\ sub2 \in Nat /\ sub <= sub2 /\ (sub2 = sub \/ sub2 = sub + 1) /\ op \in Nat
  BY DEF Ordered, Grown
<1>2. OutOrder(out, sub2, op)
  BY <1>1 DEF Ordered, OutOrder
<1>3. QueueOrder(out, con, inp2, sub2)
  <2> SUFFICES ASSUME NEW h \in DOMAIN inp, NEW k \in DOMAIN inp2[h]
               PROVE  /\ inp2[h][k].conn = con[h].id
                      /\ inp2[h][k].n \in 0 .. sub2
                      /\ inp2[h][k].n # None <=> inp2[h][k].what \in {"query", "exec"}
                      /\ inp2[h][k].n # None =>
                           /\ \A i \in DOMAIN inp2[h] : (k < i /\ inp2[h][i].n # None) => inp2[h][k].n < inp2[h][i].n
                           /\ \A i \in DOMAIN out : out[i].conn = con[h].id => out[i].n < inp2[h][k].n
    BY DEF QueueOrder, Grown
  <2>1. CASE k \in DOMAIN inp[h]
    <3>1. inp2[h][k] = inp[h][k]
      BY <2>1 DEF Grown
    <3>2. /\ inp[h][k].conn = con[h].id
          /\ inp[h][k].n \in 0 .. sub
          /\ inp[h][k].n # None <=> inp[h][k].what \in {"query", "exec"}
          /\ inp[h][k].n # None =>
               /\ \A i \in DOMAIN inp[h] : (k < i /\ inp[h][i].n # None) => inp[h][k].n < inp[h][i].n
               /\ \A i \in DOMAIN out : out[i].conn = con[h].id => out[i].n < inp[h][k].n
      BY <2>1 DEF Ordered, QueueOrder
    <3>3. ASSUME NEW i \in DOMAIN inp2[h], k < i, inp2[h][i].n # None, inp2[h][k].n # None
          PROVE  inp2[h][k].n < inp2[h][i].n
      <4>1. CASE i \in DOMAIN inp[h]
        <5>1. inp2[h][i] = inp[h][i]
          BY <4>1 DEF Grown
        <5> QED BY <3>1, <3>2, <3>3, <4>1, <5>1
      <4>2. CASE i \notin DOMAIN inp[h]
        <5>1. inp2[h][i].n = sub + 1
          BY <3>3, <4>2 DEF Grown
        <5> QED BY <1>1, <3>1, <3>2, <5>1
      <4> QED BY <4>1, <4>2
    <3> QED BY <1>1, <3>1, <3>2, <3>3
  <2>2. CASE k \notin DOMAIN inp[h]
    <3>1. /\ inp2[h][k].conn = con[h].id
          /\ \/ inp2[h][k].n = None /\ inp2[h][k].what \in {"sync", "close"}
             \/ /\ sub2 = sub + 1 /\ inp2[h][k].n = sub2 /\ inp2[h][k].what \in {"query", "exec"}
                /\ \A i \in DOMAIN inp2[h] : i <= k
      BY <2>2 DEF Grown
    <3>2. CASE inp2[h][k].n = None /\ inp2[h][k].what \in {"sync", "close"}
      BY <1>1, <3>1, <3>2 DEF None
    <3>3. CASE /\ sub2 = sub + 1 /\ inp2[h][k].n = sub2 /\ inp2[h][k].what \in {"query", "exec"}
               /\ \A i \in DOMAIN inp2[h] : i <= k
      <4>1. \A i \in DOMAIN out : out[i].n <= sub
        BY <1>1 DEF Ordered, OutOrder
      <4>2. \A i \in DOMAIN out : out[i].n \in Nat
        BY <1>1 DEF Ordered, OutOrder
      <4>3. \A i \in DOMAIN inp2[h] : ~(k < i)
        BY <3>3
      <4> QED BY <1>1, <3>1, <3>3, <4>1, <4>2, <4>3 DEF None
    <3> QED BY <3>1, <3>2, <3>3
  <2> QED BY <2>1, <2>2
<1>4. ASSUME Covered(out, inp, sub) PROVE Covered(out, inp2, sub2)
  <2> SUFFICES ASSUME NEW m \in 1 .. sub2
               PROVE  \/ \E h \in DOMAIN inp2 : \E k \in DOMAIN inp2[h] : inp2[h][k].n = m
                      \/ \E i \in DOMAIN out : out[i].n = m
    BY DEF Covered
  <2>1. CASE m \in 1 .. sub
    <3>1. \/ \E h \in DOMAIN inp : \E k \in DOMAIN inp[h] : inp[h][k].n = m
          \/ \E i \in DOMAIN out : out[i].n = m
      BY <1>4, <2>1 DEF Covered
    <3> QED BY <3>1 DEF Grown
  <2>2. CASE m = sub2 /\ sub2 # sub
    BY <2>2 DEF Grown
  <2> QED BY <1>1, <2>1, <2>2
<1> QED BY <1>1, <1>2, <1>3, <1>4 DEF Ordered

\* Connections open and go; those that come or go have an empty queue.
Changed(con, inp, con2, inp2) ==
  /\ \A h \in DOMAIN inp2 :
       inp2[h] = <<>> \/ (h \in DOMAIN inp /\ inp2[h] = inp[h] /\ con2[h] = con[h])
  /\ \A h \in DOMAIN inp : inp[h] = <<>> \/ (h \in DOMAIN inp2 /\ inp2[h] = inp[h])

LEMMA ChangeKeeps ==
  ASSUME NEW out, NEW con, NEW inp, NEW sub, NEW op, Ordered(out, con, inp, sub, op),
         NEW con2, NEW inp2, Changed(con, inp, con2, inp2), NEW op2 \in Nat, op <= op2
  PROVE  /\ Ordered(out, con2, inp2, sub, op2)
         /\ Covered(out, inp, sub) => Covered(out, inp2, sub)
PROOF
<1>1. DOMAIN <<>> = {}
  BY Empty
<1>2. OutOrder(out, sub, op2)
  BY DEF Ordered, OutOrder
<1>3. QueueOrder(out, con2, inp2, sub)
  <2>1. \A h \in DOMAIN inp2 : \A k \in DOMAIN inp2[h] :
          h \in DOMAIN inp /\ inp2[h] = inp[h] /\ con2[h] = con[h]
    BY <1>1 DEF Changed
  <2> QED BY <2>1 DEF Ordered, QueueOrder
<1>4. Covered(out, inp, sub) => Covered(out, inp2, sub)
  <2>1. \A h \in DOMAIN inp : \A k \in DOMAIN inp[h] : h \in DOMAIN inp2 /\ inp2[h] = inp[h]
    BY <1>1 DEF Changed
  <2> QED BY <2>1 DEF Covered
<1> QED BY <1>2, <1>3, <1>4 DEF Ordered

\* A worker takes the oldest job of its queue; an asynchronous one goes out.
Moved(out, inp, h, out2, inp2) ==
  /\ h \in DOMAIN inp /\ inp[h] # <<>>
  /\ inp2 = [inp EXCEPT ![h] = Tail(@)]
  /\ LET j == Head(inp[h]) IN
       \/ j.what \notin {"query", "exec"} /\ out2 = out
       \/ /\ j.what \in {"query", "exec"}
          /\ out2 \in Seq(Outs) /\ Len(out) \in Nat
          /\ DOMAIN out = 1 .. Len(out) /\ DOMAIN out2 = 1 .. Len(out) + 1
          /\ \A i \in DOMAIN out : out2[i] = out[i]
          /\ out2[Len(out) + 1] = j

LEMMA MoveKeeps ==
  ASSUME NEW out, NEW con, NEW inp, NEW sub, NEW op, Ordered(out, con, inp, sub, op),
         \A g \in DOMAIN inp : inp[g] \in Seq(Jobs),
         \A f, g \in DOMAIN inp : con[f].id = con[g].id => f = g,
         \A g \in DOMAIN inp : con[g].id \in 1 .. op,
         NEW h, NEW out2, NEW inp2, Moved(out, inp, h, out2, inp2)
  PROVE  /\ Ordered(out2, con, inp2, sub, op)
         /\ Covered(out, inp, sub) => Covered(out2, inp2, sub)
PROOF
<1> DEFINE j == Head(inp[h])
<1>1. /\ h \in DOMAIN inp /\ inp[h] # <<>> /\ inp[h] \in Seq(Jobs)
      /\ DOMAIN inp2 = DOMAIN inp /\ inp2[h] = Tail(inp[h])
      /\ \A g \in DOMAIN inp : g # h => inp2[g] = inp[g]
  BY DEF Moved
<1>2. /\ Len(inp[h]) \in Nat /\ Len(inp[h]) > 0 /\ DOMAIN inp[h] = 1 .. Len(inp[h])
      /\ j = inp[h][1] /\ DOMAIN inp2[h] = 1 .. Len(inp[h]) - 1
      /\ \A i \in 1 .. Len(inp[h]) - 1 : inp2[h][i] = inp[h][i + 1]
  <2>1. Len(inp[h]) \in Nat /\ Len(inp[h]) > 0 /\ DOMAIN inp[h] = 1 .. Len(inp[h])
    BY <1>1, EmptySeq, LenProperties
  <2>2. /\ inp2[h] \in Seq(Jobs) /\ Len(inp2[h]) = Len(inp[h]) - 1
        /\ \A i \in 1 .. Len(inp2[h]) : inp2[h][i] = inp[h][i + 1]
    BY <1>1, HeadTailProperties
  <2>3. DOMAIN inp2[h] = 1 .. Len(inp2[h])
    BY <2>2, LenProperties
  <2> QED BY <1>1, <2>1, <2>2, <2>3
<1>3. \/ j.what \notin {"query", "exec"} /\ out2 = out
      \/ /\ j.what \in {"query", "exec"}
         /\ out2 \in Seq(Outs) /\ Len(out) \in Nat
         /\ DOMAIN out = 1 .. Len(out) /\ DOMAIN out2 = 1 .. Len(out) + 1
         /\ \A i \in DOMAIN out : out2[i] = out[i]
         /\ out2[Len(out) + 1] = j
  BY DEF Moved
<1> HIDE DEF j
<1>4. /\ j.conn = con[h].id /\ j.n \in 0 .. sub
      /\ j.n # None <=> j.what \in {"query", "exec"}
      /\ j.n # None => \A i \in DOMAIN out : out[i].conn = con[h].id => out[i].n < j.n
  BY <1>1, <1>2 DEF Ordered, QueueOrder
<1>5. \A k \in DOMAIN inp2[h] :
        /\ k \in Nat /\ k + 1 \in DOMAIN inp[h] /\ inp2[h][k] = inp[h][k + 1]
        /\ (j.n # None /\ inp2[h][k].n # None) => j.n < inp2[h][k].n
  <2> SUFFICES ASSUME NEW k \in DOMAIN inp2[h]
               PROVE  /\ k \in Nat /\ k + 1 \in DOMAIN inp[h] /\ inp2[h][k] = inp[h][k + 1]
                      /\ (j.n # None /\ inp2[h][k].n # None) => j.n < inp2[h][k].n
    OBVIOUS
  <2>1. k \in Nat /\ k + 1 \in DOMAIN inp[h] /\ inp2[h][k] = inp[h][k + 1] /\ 1 \in DOMAIN inp[h] /\ 1 < k + 1
    BY <1>2
  <2>2. (j.n # None /\ inp[h][k + 1].n # None) => j.n < inp[h][k + 1].n
    BY <1>1, <1>2, <2>1 DEF Ordered, QueueOrder
  <2> QED BY <2>1, <2>2
\* The queues behind an unchanged out.
<1>6. QueueOrder(out, con, inp2, sub)
  <2> SUFFICES ASSUME NEW g \in DOMAIN inp, NEW k \in DOMAIN inp2[g]
               PROVE  /\ inp2[g][k].conn = con[g].id
                      /\ inp2[g][k].n \in 0 .. sub
                      /\ inp2[g][k].n # None <=> inp2[g][k].what \in {"query", "exec"}
                      /\ inp2[g][k].n # None =>
                           /\ \A i \in DOMAIN inp2[g] : (k < i /\ inp2[g][i].n # None) => inp2[g][k].n < inp2[g][i].n
                           /\ \A i \in DOMAIN out : out[i].conn = con[g].id => out[i].n < inp2[g][k].n
    BY <1>1 DEF QueueOrder
  <2>1. CASE g # h
    <3>1. inp2[g] = inp[g]
      BY <1>1, <2>1
    <3> QED BY <3>1 DEF Ordered, QueueOrder
  <2>2. CASE g = h
    <3>1. k + 1 \in DOMAIN inp[h] /\ inp2[h][k] = inp[h][k + 1] /\ k \in Nat
      BY <1>5, <2>2
    <3>2. /\ inp[h][k + 1].conn = con[h].id
          /\ inp[h][k + 1].n \in 0 .. sub
          /\ inp[h][k + 1].n # None <=> inp[h][k + 1].what \in {"query", "exec"}
          /\ inp[h][k + 1].n # None =>
               /\ \A i \in DOMAIN inp[h] : (k + 1 < i /\ inp[h][i].n # None) => inp[h][k + 1].n < inp[h][i].n
               /\ \A i \in DOMAIN out : out[i].conn = con[h].id => out[i].n < inp[h][k + 1].n
      BY <1>1, <3>1 DEF Ordered, QueueOrder
    <3>3. ASSUME NEW i \in DOMAIN inp2[h], k < i, inp2[h][i].n # None, inp2[h][k].n # None
          PROVE  inp2[h][k].n < inp2[h][i].n
      <4>1. i + 1 \in DOMAIN inp[h] /\ inp2[h][i] = inp[h][i + 1] /\ i \in Nat
        BY <1>5
      <4>2. k + 1 < i + 1
        BY <3>1, <3>3, <4>1
      <4> QED BY <3>1, <3>2, <3>3, <4>1, <4>2
    <3> QED BY <2>2, <3>1, <3>2, <3>3
  <2> QED BY <2>1, <2>2
<1>7. CASE j.what \notin {"query", "exec"} /\ out2 = out
  <2>1. Ordered(out2, con, inp2, sub, op)
    BY <1>6, <1>7 DEF Ordered
  <2>2. ASSUME Covered(out, inp, sub) PROVE Covered(out2, inp2, sub)
    <3> SUFFICES ASSUME NEW m \in 1 .. sub
                 PROVE  \/ \E g \in DOMAIN inp2 : \E k \in DOMAIN inp2[g] : inp2[g][k].n = m
                        \/ \E i \in DOMAIN out2 : out2[i].n = m
      BY DEF Covered
    <3>1. CASE \E i \in DOMAIN out : out[i].n = m
      BY <1>7, <3>1
    <3>2. CASE \E g \in DOMAIN inp : \E k \in DOMAIN inp[g] : inp[g][k].n = m
      <4>1. PICK g \in DOMAIN inp : \E k \in DOMAIN inp[g] : inp[g][k].n = m
        BY <3>2
      <4>2. PICK k \in DOMAIN inp[g] : inp[g][k].n = m
        BY <4>1
      <4>3. CASE g # h
        BY <1>1, <4>2, <4>3
      <4>4. CASE g = h
        <5>1. k # 1
          BY <1>2, <1>4, <1>7, <4>2, <4>4 DEF None
        <5>2. k - 1 \in DOMAIN inp2[h] /\ inp2[h][k - 1] = inp[h][(k - 1) + 1] /\ (k - 1) + 1 = k
          BY <1>2, <4>4, <5>1
        <5> QED BY <1>1, <4>2, <4>4, <5>2
      <4> QED BY <4>3, <4>4
    <3> QED BY <2>2, <3>1, <3>2 DEF Covered
  <2> QED BY <2>1, <2>2
<1>8. CASE /\ j.what \in {"query", "exec"}
           /\ out2 \in Seq(Outs) /\ Len(out) \in Nat
           /\ DOMAIN out = 1 .. Len(out) /\ DOMAIN out2 = 1 .. Len(out) + 1
           /\ \A i \in DOMAIN out : out2[i] = out[i]
           /\ out2[Len(out) + 1] = j
  <2>1. j.n \in 1 .. sub /\ j.n # None /\ j.conn \in 1 .. op /\ sub \in Nat /\ op \in Nat
    BY <1>1, <1>4, <1>8 DEF Ordered, None
  <2>2. \A i \in DOMAIN out2 : i \in Nat /\ (i \in DOMAIN out \/ i = Len(out) + 1)
    BY <1>8
  <2>3. OutOrder(out2, sub, op)
    <3>1. \A i \in DOMAIN out2 : out2[i].n \in 1 .. sub /\ out2[i].conn \in 1 .. op
      BY <1>8, <2>1, <2>2 DEF Ordered, OutOrder
    <3>2. ASSUME NEW i \in DOMAIN out2, NEW k \in DOMAIN out2, i < k, out2[i].conn = out2[k].conn
          PROVE  out2[i].n < out2[k].n
      <4>1. i \in DOMAIN out /\ out2[i] = out[i]
        BY <1>8, <3>2
      <4>2. CASE k \in DOMAIN out
        BY <1>8, <3>2, <4>1, <4>2 DEF Ordered, OutOrder
      <4>3. CASE k = Len(out) + 1
        BY <1>4, <1>8, <2>1, <3>2, <4>1, <4>3
      <4> QED BY <2>2, <4>2, <4>3
    <3> QED BY <1>8, <3>1, <3>2 DEF OutOrder
  <2>4. QueueOrder(out2, con, inp2, sub)
    <3> SUFFICES ASSUME NEW g \in DOMAIN inp, NEW k \in DOMAIN inp2[g], inp2[g][k].n # None,
                        NEW i \in DOMAIN out2, out2[i].conn = con[g].id
                 PROVE  out2[i].n < inp2[g][k].n
      BY <1>1, <1>6 DEF QueueOrder
    <3>1. CASE i \in DOMAIN out
      BY <1>1, <1>6, <1>8, <3>1 DEF QueueOrder
    <3>2. CASE i = Len(out) + 1
      <4>1. g = h
        BY <1>1, <1>4, <1>8, <3>2
      <4> QED BY <1>5, <1>8, <2>1, <3>2, <4>1
    <3> QED BY <2>2, <3>1, <3>2
  <2>5. ASSUME Covered(out, inp, sub) PROVE Covered(out2, inp2, sub)
    <3> SUFFICES ASSUME NEW m \in 1 .. sub
                 PROVE  \/ \E g \in DOMAIN inp2 : \E k \in DOMAIN inp2[g] : inp2[g][k].n = m
                        \/ \E i \in DOMAIN out2 : out2[i].n = m
      BY DEF Covered
    <3>1. CASE \E i \in DOMAIN out : out[i].n = m
      BY <1>8, <3>1
    <3>2. CASE \E g \in DOMAIN inp : \E k \in DOMAIN inp[g] : inp[g][k].n = m
      <4>1. PICK g \in DOMAIN inp : \E k \in DOMAIN inp[g] : inp[g][k].n = m
        BY <3>2
      <4>2. PICK k \in DOMAIN inp[g] : inp[g][k].n = m
        BY <4>1
      <4>3. CASE g # h
        BY <1>1, <4>2, <4>3
      <4>4. CASE g = h /\ k # 1
        <5>2. k - 1 \in DOMAIN inp2[h] /\ inp2[h][k - 1] = inp[h][(k - 1) + 1] /\ (k - 1) + 1 = k
          BY <1>2, <4>4
        <5> QED BY <1>1, <4>2, <4>4, <5>2
      <4>5. CASE g = h /\ k = 1
        BY <1>2, <1>8, <4>2, <4>5
      <4> QED BY <4>3, <4>4, <4>5
    <3> QED BY <2>5, <3>1, <3>2 DEF Covered
  <2> QED BY <2>1, <2>3, <2>4, <2>5 DEF Ordered
<1> QED BY <1>3, <1>7, <1>8

-----------------------------------------------------------------------------
(* Every action keeps it.                                                  *)

\* What the invariant of the statements says about queues and connections.
LEMMA Typed ==
  ASSUME IInv
  PROVE  /\ DOMAIN input = DOMAIN connections /\ DOMAIN connections \subseteq Nat \ {0}
         /\ \A h \in DOMAIN input :
              /\ input[h] \in Seq(Jobs) /\ DOMAIN input[h] = 1 .. Len(input[h]) /\ Len(input[h]) \in Nat
              /\ DOMAIN input[h] \subseteq Nat
              /\ connections[h].id \in 1 .. opened
         /\ \A f, g \in DOMAIN input : connections[f].id = connections[g].id => f = g
         /\ opened \in Nat /\ submitted \in Nat
PROOF
<1>1. /\ DOMAIN input = DOMAIN connections /\ \A h \in DOMAIN input : input[h] \in Seq(Jobs)
      /\ DOMAIN connections \subseteq Nat \ {0}
  BY DEF IInv, Good, Queues, Named
<1>2. \A h \in DOMAIN input : DOMAIN input[h] = 1 .. Len(input[h]) /\ Len(input[h]) \in Nat
  BY <1>1, LenProperties
<1> QED BY <1>1, <1>2 DEF IInv, Ghosts

\* Natives and their queues.
LEMMA GrowStep ==
  ASSUME IInv, OInv, IInv', Free,
         Grown(connections, input, submitted, input', submitted'),
         UNCHANGED <<connections, opened, sinkVars>>
  PROVE  OInv'
PROOF
<1>1. ASSUME NEW inp2, inp2 = input', NEW sub2, sub2 = submitted'
      PROVE  /\ Ordered(Out, connections, inp2, sub2, opened)
             /\ Covered(Out, inp2, sub2)
  <2>1. Ordered(Out, connections, input, submitted, opened) /\ Covered(Out, input, submitted)
    BY DEF OInv, Gone, Free, Nothing
  <2>2. \A h \in DOMAIN input : DOMAIN input[h] \subseteq Nat
    BY Typed
  <2>3. \A h \in DOMAIN inp2 : DOMAIN inp2[h] \subseteq Nat
    <3>1. \A h \in DOMAIN input' : input'[h] \in Seq(Jobs)
      BY DEF IInv, Good, Queues
    <3>2. \A h \in DOMAIN input' : DOMAIN input'[h] = 1 .. Len(input'[h]) /\ Len(input'[h]) \in Nat
      BY <3>1, LenProperties
    <3> QED BY <1>1, <3>2
  <2>4. Grown(connections, input, submitted, inp2, sub2) /\ DOMAIN inp2 = DOMAIN input
    BY <1>1 DEF Grown
  <2> QED BY <2>1, <2>2, <2>3, <2>4, GrowKeeps
<1>2. Out' = Out
  BY DEF Out, sinkVars
<1> QED BY <1>1, <1>2 DEF OInv, sinkVars

\* A native submits a job for h: an asynchronous one has the next number.
LEMMA SubmitGrows ==
  ASSUME IInv, NEW h \in DOMAIN connections, NEW j, j.conn = connections[h].id,
         input' = [input EXCEPT ![h] = Append(@, j)], j \in Jobs,
         \/ /\ j.n = submitted + 1 /\ submitted' = submitted + 1
            /\ j.what \in {"query", "exec"}
         \/ j.n = None /\ submitted' = submitted /\ j.what = "sync"
  PROVE  Grown(connections, input, submitted, input', submitted')
PROOF
<1>1. /\ h \in DOMAIN input /\ input[h] \in Seq(Jobs) /\ submitted \in Nat
      /\ DOMAIN input' = DOMAIN input
      /\ \A g \in DOMAIN input : g # h => input'[g] = input[g]
      /\ input'[h] = Append(input[h], j)
  BY Typed
<1>2. /\ Len(input[h]) \in Nat /\ DOMAIN input[h] = 1 .. Len(input[h])
      /\ DOMAIN input'[h] = 1 .. Len(input[h]) + 1
      /\ \A i \in DOMAIN input[h] : input'[h][i] = input[h][i]
      /\ input'[h][Len(input[h]) + 1] = j
  BY <1>1, AppendProperties, LenProperties
<1>3. \A g \in DOMAIN input : \A k \in DOMAIN input[g] : k \in DOMAIN input'[g] /\ input'[g][k] = input[g][k]
  BY <1>1, <1>2
<1>4. \A g \in DOMAIN input : \A k \in DOMAIN input'[g] : k \notin DOMAIN input[g] =>
        /\ g = h /\ input'[g][k] = j /\ \A i \in DOMAIN input'[g] : i <= k
  BY <1>1, <1>2
<1>5. submitted' # submitted => \E g \in DOMAIN input' : \E k \in DOMAIN input'[g] : input'[g][k].n = submitted'
  <2>1. Len(input[h]) + 1 \in DOMAIN input'[h] /\ h \in DOMAIN input'
    BY <1>1, <1>2
  <2> QED BY <1>2, <2>1
<1> QED BY <1>1, <1>3, <1>4, <1>5 DEF Grown

\* Statements are retired: teardowns at the ends of the queues.
LEMMA RetireGrows ==
  ASSUME IInv, NEW gone \in SUBSET Range(statements), Retire(gone), submitted' = submitted
  PROVE  Grown(connections, input, submitted, input', submitted')
PROOF
<1>1. /\ DOMAIN input' = DOMAIN input
      /\ \A h \in DOMAIN input : input'[h] = input[h] \o TeardownsFor(gone, h)
  BY DEF Retire
<1>2. ASSUME NEW h \in DOMAIN input
      PROVE  /\ \A k \in DOMAIN input[h] : k \in DOMAIN input'[h] /\ input'[h][k] = input[h][k]
             /\ \A k \in DOMAIN input'[h] : k \notin DOMAIN input[h] =>
                  /\ input'[h][k].conn = connections[h].id
                  /\ input'[h][k].n = None /\ input'[h][k].what = "close"
  <2> DEFINE T == TeardownsFor(gone, h)
  <2>1. T \in Seq(Jobs)
    <3>1. /\ gone \subseteq DOMAIN stmt /\ stmt \in Seq(Objects) /\ h \in DOMAIN connections /\ h \in Nat
          /\ OneAddress(connections) /\ DOMAIN connections \subseteq Nat \ {0}
          /\ connections[h].id \in Nat
      BY Typed DEF IInv, Good, Heap
    <3> QED BY <3>1, TeardownsOf
  <2>2. \A i \in DOMAIN T : T[i].conn = connections[h].id /\ T[i].n = None /\ T[i].what = "close"
    BY DEF TeardownsFor, Teardown
  <2> HIDE DEF T
  <2>3. input[h] \in Seq(Jobs) /\ Len(input[h]) \in Nat /\ DOMAIN input[h] = 1 .. Len(input[h])
    BY Typed
  <2>4. Len(T) \in Nat /\ DOMAIN T = 1 .. Len(T)
    BY <2>1, LenProperties
  <2>5. input'[h] = input[h] \o T
    BY <1>1 DEF T
  <2>6. ASSUME NEW q, q = input[h] \o T
        PROVE  /\ DOMAIN q = 1 .. Len(input[h]) + Len(T)
               /\ \A i \in 1 .. Len(input[h]) + Len(T) :
                    q[i] = IF i <= Len(input[h]) THEN input[h][i] ELSE T[i - Len(input[h])]
    <3>1. /\ q \in Seq(Jobs) /\ Len(q) = Len(input[h]) + Len(T)
          /\ \A i \in 1 .. Len(input[h]) + Len(T) :
               q[i] = IF i <= Len(input[h]) THEN input[h][i] ELSE T[i - Len(input[h])]
      BY <2>1, <2>3, <2>6, ConcatProperties
    <3> QED BY <3>1, LenProperties
  <2>7. /\ DOMAIN input'[h] = 1 .. Len(input[h]) + Len(T)
        /\ \A i \in 1 .. Len(input[h]) + Len(T) :
             input'[h][i] = IF i <= Len(input[h]) THEN input[h][i] ELSE T[i - Len(input[h])]
    BY <2>5, <2>6
  <2>8. \A k \in DOMAIN input[h] : k \in DOMAIN input'[h] /\ input'[h][k] = input[h][k]
    BY <2>3, <2>4, <2>7
  <2>9. \A k \in DOMAIN input'[h] : k \notin DOMAIN input[h] =>
          k - Len(input[h]) \in DOMAIN T /\ input'[h][k] = T[k - Len(input[h])]
    BY <2>3, <2>4, <2>7
  <2> QED BY <2>2, <2>8, <2>9
<1> QED BY <1>1, <1>2 DEF Grown

\* Every native that submits, closes a statement or begins a restart only grows queues.
LEMMA NativesGrow ==
  ASSUME IInv, NEW h,
         Query(h) \/ QuerySync(h) \/ (\E m : ModelQuery(m, h)) \/ Execute(h) \/ CloseStatement(h)
           \/ Clear("reset") \/ Clear("free")
  PROVE  /\ Free /\ UNCHANGED <<connections, opened, sinkVars>>
         /\ Grown(connections, input, submitted, input', submitted')
PROOF
<1>1. CASE Query(h)
  <2> DEFINE j == Job(h, "query", None, None)
  <2>1. h \in DOMAIN connections /\ None \in Nat
    BY <1>1 DEF Query, None
  <2>2. j \in Jobs /\ j.what = "query" /\ j.n = submitted + 1 /\ j.conn = connections[h].id
    BY <2>1, JobIsAJob DEF Job
  <2>3. input' = [input EXCEPT ![h] = Append(@, j)] /\ submitted' = submitted + 1
    BY <1>1 DEF Query
  <2> HIDE DEF j
  <2> QED BY <1>1, <2>1, <2>2, <2>3, SubmitGrows DEF Query
<1>2. CASE QuerySync(h)
  <2> DEFINE j == [Job(h, "sync", None, None) EXCEPT !.n = None]
  <2>1. h \in DOMAIN connections /\ None \in Nat
    BY <1>2 DEF QuerySync, None
  <2>2. j \in Jobs /\ j.what = "sync" /\ j.n = None /\ j.conn = connections[h].id
    BY <2>1, JobIsAJob DEF Job, Jobs
  <2>3. input' = [input EXCEPT ![h] = Append(@, j)] /\ submitted' = submitted
    BY <1>2 DEF QuerySync
  <2> HIDE DEF j
  <2> QED BY <1>2, <2>1, <2>2, <2>3, SubmitGrows DEF QuerySync
<1>3. CASE \E m : ModelQuery(m, h)
  <2>1. PICK m : ModelQuery(m, h)
    BY <1>3
  <2> DEFINE j == Job(h, "query", None, m)
  <2>2. h \in DOMAIN connections /\ m \in DOMAIN models /\ None \in Nat
    BY <2>1 DEF ModelQuery, None
  <2>3. j \in Jobs /\ j.what = "query" /\ j.n = submitted + 1 /\ j.conn = connections[h].id
    BY <2>2, JobIsAJob DEF Job
  <2>4. input' = [input EXCEPT ![h] = Append(@, j)] /\ submitted' = submitted + 1
    BY <2>1 DEF ModelQuery
  <2> HIDE DEF j
  <2> QED BY <2>1, <2>2, <2>3, <2>4, SubmitGrows DEF ModelQuery
<1>4. CASE Execute(h)
  <2> DEFINE o == statements[h]
             g == ConnectionHandleOf(stmt[o].addr)
             j == Job(g, "exec", o, None)
  <2>1. h \in DOMAIN statements /\ g # None /\ None \in Nat
        /\ input' = [input EXCEPT ![g] = Append(@, j)] /\ submitted' = submitted + 1
    BY <1>4 DEF Execute, None
  <2>2. OneAddress(connections) /\ DOMAIN connections \subseteq Nat \ {0}
    BY DEF IInv, Good, Named
  <2>3. g \in DOMAIN connections
    BY <2>1, <2>2, HandleAtAddress
  <2>4. o \in Nat
    <3>1. o \in Range(statements)
      BY <2>1 DEF Range
    <3>2. Range(statements) \subseteq DOMAIN stmt /\ DOMAIN stmt = 1 .. Len(stmt)
      BY LenProperties DEF IInv, Good, Heap
    <3> QED BY <3>1, <3>2
  <2> HIDE DEF o, g
  <2>5. j \in Jobs /\ j.what = "exec" /\ j.n = submitted + 1 /\ j.conn = connections[g].id
    BY <2>1, <2>3, <2>4, JobIsAJob DEF Job
  <2> HIDE DEF j
  <2>6. Grown(connections, input, submitted, input', submitted')
    BY <2>1, <2>3, <2>5, SubmitGrows
  <2> QED BY <1>4, <2>6 DEF Execute
<1>5. CASE CloseStatement(h)
  <2>1. {statements[h]} \in SUBSET Range(statements) /\ Retire({statements[h]}) /\ submitted' = submitted
    BY <1>5 DEF CloseStatement, Range
  <2>2. Grown(connections, input, submitted, input', submitted')
    BY <2>1, RetireGrows
  <2> QED BY <1>5, <2>2 DEF CloseStatement
<1>6. CASE Clear("reset") \/ Clear("free")
  <2>1. Range(statements) \in SUBSET Range(statements) /\ Retire(Range(statements)) /\ submitted' = submitted
    BY <1>6 DEF Clear
  <2>2. Grown(connections, input, submitted, input', submitted')
    BY <2>1, RetireGrows
  <2> QED BY <1>6, <2>2 DEF Clear
<1> QED BY <1>1, <1>2, <1>3, <1>4, <1>5, <1>6

\* A connection opens, or goes with its empty queue.
LEMMA ConnectOrder == ASSUME IInv, OInv, Connect PROVE OInv'
PROOF
<1>1. PICK a \in Addresses :
        connections' = Put(connections, nextHandle, [addr |-> a, id |-> opened + 1])
  BY DEF Connect
<1>2. nextHandle \notin DOMAIN connections /\ DOMAIN input = DOMAIN connections
  BY DEF IInv, Named, Good, Queues
<1>3. Changed(connections, input, connections', input')
  BY <1>1, <1>2 DEF Changed, Connect, Put
<1>4. opened' = opened + 1 /\ opened \in Nat /\ UNCHANGED <<submitted, sinkVars, waiting>>
  BY Typed DEF Connect
<1>5. ASSUME NEW con2, con2 = connections', NEW inp2, inp2 = input', NEW op2, op2 = opened'
      PROVE  /\ Ordered(Out, con2, inp2, submitted, op2)
             /\ Covered(Out, input, submitted) => Covered(Out, inp2, submitted)
  <2>1. Ordered(Out, connections, input, submitted, opened)
    BY DEF OInv
  <2>2. Changed(connections, input, con2, inp2) /\ op2 \in Nat /\ opened <= op2
    BY <1>3, <1>4, <1>5
  <2> QED BY <2>1, <2>2, ChangeKeeps
<1>6. Out' = Out /\ Gone' = Gone
  BY <1>4 DEF Out, Gone, sinkVars
<1> QED BY <1>4, <1>5, <1>6 DEF OInv, sinkVars

LEMMA FinishOrder == ASSUME IInv, OInv, FinishClose \/ FinishReset PROVE OInv'
PROOF
<1>1. DOMAIN input = DOMAIN connections
  BY DEF IInv, Good, Queues
<1>2. Changed(connections, input, connections', input')
  <2>1. CASE FinishClose
    BY <1>1, <2>1 DEF Changed, FinishClose, Drop, Restrict
  <2>2. CASE FinishReset
    <3>1. input' = <<>> /\ \A h \in DOMAIN input : input[h] = <<>>
      BY <2>2 DEF FinishReset
    <3>2. DOMAIN input' = {}
      BY <3>1, Empty
    <3> QED BY <3>1, <3>2 DEF Changed
  <2> QED BY <2>1, <2>2
<1>3. UNCHANGED <<opened, submitted, sinkVars>> /\ ~Gone /\ opened \in Nat
  BY Typed DEF FinishClose, FinishReset, Gone
<1>4. ASSUME NEW con2, con2 = connections', NEW inp2, inp2 = input'
      PROVE  /\ Ordered(Out, con2, inp2, submitted, opened)
             /\ Covered(Out, inp2, submitted)
  <2>1. Ordered(Out, connections, input, submitted, opened) /\ Covered(Out, input, submitted)
    BY <1>3 DEF OInv
  <2>2. Changed(connections, input, con2, inp2) /\ opened <= opened
    BY <1>2, <1>3, <1>4
  <2> QED BY <1>3, <2>1, <2>2, ChangeKeeps
<1>5. Out' = Out
  BY <1>3 DEF Out, sinkVars
<1> QED BY <1>3, <1>4, <1>5 DEF OInv, sinkVars

\* free loses what no tick has dispatched; the rest is still in order.
LEMMA FreeOrder == ASSUME IInv, OInv, FinishFree PROVE OInv'
PROOF
<1>1. /\ connections' = <<>> /\ input' = <<>> /\ completed' = <<>>
      /\ waiting' = [for |-> "gone", on |-> None]
      /\ UNCHANGED <<opened, submitted, batch, dispatched>>
  BY DEF FinishFree
<1>2. DOMAIN input' = {} /\ Gone' /\ <<>> \in Seq(Outs)
  BY <1>1, Empty, EmptySeq DEF Gone
<1>3. dispatched \in Seq(Outs) /\ batch \in Seq(Outs) /\ completed \in Seq(Outs)
  BY DEF OInv
<1>4. Row(dispatched, batch, completed, Out)
  BY <1>3, OutIs DEF Out
<1>5. ASSUME NEW out2, out2 = dispatched \o batch \o <<>>
      PROVE  OutOrder(out2, submitted, opened)
  <2>1. out2 = dispatched \o batch /\ out2 \in Seq(Outs)
    BY <1>3, <1>5, ConcatProperties, ConcatEmptySeq
  <2>2. Row(dispatched, batch, <<>>, out2)
    BY <1>2, <1>3, <1>5, OutIs
  <2>3. \A i \in DOMAIN out2 : i \in DOMAIN Out /\ out2[i] = Out[i]
    <3>1. Len(<<>>) = 0
      OBVIOUS
    <3> SUFFICES ASSUME NEW i \in DOMAIN out2 PROVE i \in DOMAIN Out /\ out2[i] = Out[i]
      OBVIOUS
    <3>2. i \in 1 .. Len(dispatched) + Len(batch) /\ Len(dispatched) \in Nat /\ Len(batch) \in Nat
      BY <2>2, <3>1 DEF Row
    <3>3. i \in DOMAIN Out
      BY <1>4, <3>2 DEF Row
    <3>4. CASE i \in 1 .. Len(dispatched)
      BY <1>4, <2>2, <3>3, <3>4 DEF Row
    <3>5. CASE i \notin 1 .. Len(dispatched)
      <4> DEFINE k == i - Len(dispatched)
      <4>1. k \in 1 .. Len(batch) /\ i = Len(dispatched) + k
        BY <3>2, <3>5
      <4> HIDE DEF k
      <4>2. out2[i] = batch[k] /\ Out[i] = batch[k]
        BY <1>4, <2>2, <4>1 DEF Row
      <4> QED BY <3>3, <4>2
    <3> QED BY <3>4, <3>5
  <2>4. OutOrder(Out, submitted, opened)
    BY DEF OInv, Ordered
  <2>5. \A i \in DOMAIN out2 : out2[i].n \in 1 .. submitted /\ out2[i].conn \in 1 .. opened
    <3> SUFFICES ASSUME NEW i \in DOMAIN out2
                 PROVE  out2[i].n \in 1 .. submitted /\ out2[i].conn \in 1 .. opened
      OBVIOUS
    <3>1. i \in DOMAIN Out /\ out2[i] = Out[i]
      BY <2>3
    <3> QED BY <2>4, <3>1 DEF OutOrder
  <2>6. ASSUME NEW i \in DOMAIN out2, NEW k \in DOMAIN out2, i < k, out2[i].conn = out2[k].conn
        PROVE  out2[i].n < out2[k].n
    <3>1. i \in DOMAIN Out /\ k \in DOMAIN Out /\ out2[i] = Out[i] /\ out2[k] = Out[k]
      BY <2>3
    <3>2. Out[i].conn = Out[k].conn
      BY <2>6, <3>1
    <3>3. Out[i].n < Out[k].n
      BY <2>4, <2>6, <3>1, <3>2 DEF OutOrder
    <3> QED BY <3>1, <3>3
  <2> QED BY <2>1, <2>5, <2>6 DEF OutOrder
<1>6. OutOrder(Out', submitted', opened')
  BY <1>1, <1>5 DEF Out
<1>7. QueueOrder(Out', connections', input', submitted')
  BY <1>2 DEF QueueOrder
<1>8. opened' \in Nat /\ submitted' \in Nat
  BY <1>1, Typed
<1> QED BY <1>1, <1>2, <1>3, <1>6, <1>7, <1>8 DEF OInv, Ordered

\* A worker runs a job.
LEMMA RunJobOrder == ASSUME IInv, OInv, NEW h, RunJob(h) PROVE OInv'
PROOF
<1> DEFINE j == Head(input[h])
<1>1. /\ h \in DOMAIN input /\ input[h] # <<>>
      /\ input' = [input EXCEPT ![h] = Tail(@)]
      /\ completed' = IF j.what \in {"query", "exec"} THEN Append(completed, j) ELSE completed
      /\ UNCHANGED <<connections, opened, submitted, batch, dispatched, waiting>>
  BY DEF RunJob
<1>2. dispatched \in Seq(Outs) /\ batch \in Seq(Outs) /\ completed \in Seq(Outs)
  BY DEF OInv
<1>3. j \in Outs
  <2>1. input[h] \in Seq(Jobs)
    BY <1>1, Typed
  <2>2. 1 \in DOMAIN input[h] /\ j = input[h][1]
    BY <1>1, <2>1, EmptySeq, LenProperties
  <2>3. j \in Jobs
    BY <2>1, <2>2, ElementOfSeq, LenProperties
  <2> QED BY <2>3 DEF Outs
<1>4. ASSUME NEW out2, out2 = Out', NEW inp2, inp2 = input'
      PROVE  Moved(Out, input, h, out2, inp2)
  <2>1. CASE j.what \in {"query", "exec"}
    <3>1. out2 = dispatched \o batch \o Append(completed, j)
      BY <1>1, <1>4, <2>1 DEF Out
    <3>2. /\ out2 \in Seq(Outs) /\ Len(Out) \in Nat /\ DOMAIN Out = 1 .. Len(Out)
          /\ DOMAIN out2 = 1 .. Len(Out) + 1
          /\ \A i \in DOMAIN Out : out2[i] = Out[i]
          /\ out2[Len(Out) + 1] = j
      <4> HIDE DEF j
      <4> QED BY <1>2, <1>3, <3>1, OutGrows DEF Out
    <3> QED BY <1>1, <1>4, <2>1, <3>2 DEF Moved
  <2>2. CASE j.what \notin {"query", "exec"}
    <3>1. out2 = Out
      BY <1>1, <1>4, <2>2 DEF Out
    <3> QED BY <1>1, <1>4, <2>2, <3>1 DEF Moved
  <2> QED BY <2>1, <2>2
<1>5. ASSUME NEW out2, out2 = Out', NEW inp2, inp2 = input'
      PROVE  /\ Ordered(out2, connections, inp2, submitted, opened)
             /\ Covered(Out, input, submitted) => Covered(out2, inp2, submitted)
  <2>1. Ordered(Out, connections, input, submitted, opened)
    BY DEF OInv
  <2>2. /\ \A g \in DOMAIN input : input[g] \in Seq(Jobs)
        /\ \A f, g \in DOMAIN input : connections[f].id = connections[g].id => f = g
        /\ \A g \in DOMAIN input : connections[g].id \in 1 .. opened
    BY Typed
  <2>3. Moved(Out, input, h, out2, inp2)
    BY <1>4, <1>5
  <2> QED BY <2>1, <2>2, <2>3, MoveKeeps
<1>6. completed' \in Seq(Outs)
  <2> HIDE DEF j
  <2> QED BY <1>1, <1>2, <1>3, AppendProperties
<1>7. Gone' = Gone
  BY <1>1 DEF Gone
<1> QED BY <1>1, <1>2, <1>5, <1>6, <1>7 DEF OInv

\* The tick.
LEMMA TickOrder == ASSUME IInv, OInv, Drain \/ Dispatch PROVE OInv'
PROOF
<1>1. UNCHANGED <<connections, input, opened, submitted, waiting>>
  BY DEF Drain, Dispatch, regVars
<1>2. dispatched \in Seq(Outs) /\ batch \in Seq(Outs) /\ completed \in Seq(Outs)
  BY DEF OInv
<1>3. dispatched' \in Seq(Outs) /\ batch' \in Seq(Outs) /\ completed' \in Seq(Outs) /\ Alike(Out, Out')
  <2>1. CASE Drain
    <3>1. batch = <<>> /\ batch' = completed /\ completed' = <<>> /\ dispatched' = dispatched
      BY <2>1 DEF Drain
    <3>2. ASSUME NEW out2, out2 = Out' PROVE Alike(Out, out2)
      <4>1. Out = dispatched \o <<>> \o completed /\ out2 = dispatched \o completed \o <<>>
        BY <3>1, <3>2 DEF Out
      <4> QED BY <1>2, <4>1, OutDrained
    <3> QED BY <1>2, <3>1, <3>2, EmptySeq
  <2>2. CASE Dispatch
    <3> DEFINE x == [n |-> Head(batch).n, conn |-> Head(batch).conn]
    <3>1. batch # <<>> /\ batch' = Tail(batch) /\ completed' = completed /\ dispatched' = Append(dispatched, x)
      BY <2>2 DEF Dispatch
    <3>2. Head(batch) \in Outs /\ Tail(batch) \in Seq(Outs)
      BY <1>2, <3>1, HeadTailProperties
    <3>3. x \in Outs /\ x.n = Head(batch).n /\ x.conn = Head(batch).conn
      BY <3>2 DEF Outs, Jobs
    <3> HIDE DEF x
    <3>4. ASSUME NEW out2, out2 = Out' PROVE Alike(Out, out2)
      <4>1. Out = dispatched \o batch \o completed /\ out2 = Append(dispatched, x) \o Tail(batch) \o completed
        BY <3>1, <3>4 DEF Out
      <4> QED BY <1>2, <3>1, <3>3, <4>1, OutDispatched
    <3> QED BY <1>2, <3>1, <3>2, <3>3, <3>4, AppendProperties
  <2> QED BY <2>1, <2>2
<1>4. ASSUME NEW out2, out2 = Out'
      PROVE  /\ Ordered(out2, connections, input, submitted, opened)
             /\ Covered(Out, input, submitted) => Covered(out2, input, submitted)
  <2>1. Ordered(Out, connections, input, submitted, opened) /\ Alike(Out, out2)
    BY <1>3, <1>4 DEF OInv
  <2> QED BY <2>1, AlikeKeeps
<1>5. Gone' = Gone
  BY <1>1 DEF Gone
<1> QED BY <1>1, <1>3, <1>4, <1>5 DEF OInv

\* Everything else leaves queues and replies alone.
LEMMA RestOrder ==
  ASSUME OInv, UNCHANGED <<connections, input, opened, submitted, sinkVars>>, Gone' = Gone
  PROVE  OInv'
PROOF
<1>1. Out' = Out
  BY DEF Out, sinkVars
<1> QED BY <1>1 DEF OInv, sinkVars

LEMMA OrderStep == IInv /\ OInv /\ IInv' /\ [Next]_vars => OInv'
PROOF
<1> SUFFICES ASSUME IInv, OInv, IInv', [Next]_vars PROVE OInv'
  OBVIOUS
<1>1. CASE Connect
  BY <1>1, ConnectOrder
<1>2. ASSUME NEW h, CloseConnection(h) \/ Prepare(h) PROVE OInv'
  <2>1. UNCHANGED <<connections, input, opened, submitted, sinkVars>> /\ Gone' = Gone
    BY <1>2 DEF CloseConnection, Prepare, Gone, Free, Nothing, regVars
  <2> QED BY <2>1, RestOrder
<1>3. ASSUME NEW h, Query(h) \/ QuerySync(h) \/ (\E m : ModelQuery(m, h)) \/ Execute(h) \/ CloseStatement(h)
                      \/ Clear("reset") \/ Clear("free")
      PROVE  OInv'
  BY <1>3, NativesGrow, GrowStep
<1>4. ASSUME NEW m, CreateModel \/ DestroyModel(m) PROVE OInv'
  <2>1. UNCHANGED <<connections, input, opened, submitted, sinkVars>> /\ Gone' = Gone
    BY <1>4 DEF CreateModel, DestroyModel, Gone
  <2> QED BY <2>1, RestOrder
<1>5. ASSUME NEW h, RunJob(h) PROVE OInv'
  BY <1>5, RunJobOrder
<1>6. CASE Drain \/ Dispatch
  BY <1>6, TickOrder
<1>7. CASE FinishSync \/ UNCHANGED vars
  <2>1. UNCHANGED <<connections, input, opened, submitted, sinkVars>> /\ Gone' = Gone
    BY <1>7 DEF FinishSync, Gone, Nothing, regVars, vars
  <2> QED BY <2>1, RestOrder
<1>8. CASE FinishClose \/ FinishReset \/ FinishFree
  BY <1>8, FinishOrder, FreeOrder
<1> QED BY <1>1, <1>2, <1>3, <1>4, <1>5, <1>6, <1>7, <1>8 DEF Next, Finish

LEMMA OrderStarts == Init => OInv
PROOF
<1> SUFFICES ASSUME Init PROVE OInv
  OBVIOUS
<1>1. /\ dispatched = <<>> /\ batch = <<>> /\ completed = <<>> /\ submitted = 0 /\ opened = 0
      /\ input = <<>>
  BY DEF Init
<1>2. <<>> \in Seq(Outs) /\ DOMAIN <<>> = {}
  BY EmptySeq, Empty
<1>3. Out = <<>>
  BY <1>1, <1>2, ConcatEmptySeq DEF Out
<1>4. OutOrder(Out, submitted, opened)
  BY <1>2, <1>3 DEF OutOrder
<1>5. QueueOrder(Out, connections, input, submitted)
  BY <1>1, <1>2 DEF QueueOrder
<1>6. Covered(Out, input, submitted)
  BY <1>1 DEF Covered
<1> QED BY <1>1, <1>2, <1>4, <1>5, <1>6 DEF OInv, Ordered

\* The replies of one Connection reach dispatchJob in the order in which natives enqueued
\* its jobs, whatever the callbacks between two dispatches call, and neither removeConnection
\* nor reset loses an asynchronous job: each is queued, finished or dispatched.
THEOREM OrderCorrect == Spec => []RepliesInOrder
PROOF
<1>1. OInv => RepliesInOrder
  <2> SUFFICES ASSUME OInv PROVE RepliesInOrder
    OBVIOUS
  <2>1. \A i, k \in DOMAIN Out : (i < k /\ Out[i].conn = Out[k].conn) => Out[i].n < Out[k].n
    BY DEF OInv, Ordered, OutOrder
  <2>2. ASSUME ~Gone, NEW m \in 1 .. submitted
        PROVE  m \in {j.n : j \in Queued \cup Range(Out)}
    <3>1. \/ \E h \in DOMAIN input : \E k \in DOMAIN input[h] : input[h][k].n = m
          \/ \E i \in DOMAIN Out : Out[i].n = m
      BY <2>2 DEF OInv, Covered
    <3>2. \E j \in Queued \cup Range(Out) : j.n = m
      BY <3>1 DEF Queued, Range
    <3> QED BY <3>2
  <2> QED BY <2>1, <2>2 DEF RepliesInOrder, Out
<1>2. Spec => []OInv
  BY OrderStarts, OrderStep, Invariant, PTL DEF Spec, SafeSpec
<1> QED BY <1>1, <1>2, PTL
=============================================================================
