------------------------- MODULE QueryGuardsProofs -------------------------
(***************************************************************************)
(* The guards hold for every window, every limit and every order of        *)
(* queries, limit changes, closes and restarts; and the lexer that the     *)
(* guard against stacked statements asks, with its twin that counts        *)
(* placeholders, recognises the code of every text.                        *)
(***************************************************************************)
EXTENDS QueryGuards, SqlScanner, SequenceTheorems, FiniteSetTheorems, TLAPS

\* How many queries accepted under a limit have left the log.
GoneCount(h) == Len(limited[h]) - Len(rateLog[h])

\* The log is the end of what was accepted, ...
LogInv ==
  \A h \in Handles :
    IF h \in workers
    THEN /\ Len(rateLog[h]) <= Len(limited[h])
         /\ \A p \in DOMAIN rateLog[h] : rateLog[h][p] = limited[h][GoneCount(h) + p].at
    ELSE rateLog[h] = <<>>

\* ... and what left it is older than a window.
GoneInv ==
  \A h \in workers : \A p \in 1..GoneCount(h) : limited[h][p].at + Window < now

\* Handles are not reused while in use.
HandleInv == \A h \in workers : h < nextHandle

\* The worker counts a job out after it is answered.
PendingInv == \A h \in Handles : unanswered[h] <= pending[h]

IInv ==
  /\ TypeOK /\ LogInv /\ GoneInv /\ RateLimitHolds
  /\ HandleInv /\ PendingInv /\ BackpressureHolds

-----------------------------------------------------------------------------
(* Sequences and types                                                     *)

\* What is left of a log after n entries were popped.
LEMMA TrimmedFacts ==
  ASSUME NEW log \in Seq(Nat), NEW m \in 0..Len(log)
  PROVE  /\ Trimmed(log, m) \in Seq(Nat)
         /\ Len(Trimmed(log, m)) = Len(log) - m
         /\ \A p \in 1..(Len(log) - m) : Trimmed(log, m)[p] = log[m + p]
BY DEF Trimmed

\* What appending does to a sequence.
LEMMA AppendFacts ==
  ASSUME NEW S, NEW s \in Seq(S), NEW e \in S
  PROVE  /\ Append(s, e) \in Seq(S)
         /\ Len(Append(s, e)) = Len(s) + 1
         /\ \A p \in 1..Len(s) : Append(s, e)[p] = s[p]
         /\ Append(s, e)[Len(s) + 1] = e
OBVIOUS

\* Every record a query can be rejected with is of the right type.
LEMMA RejectedType ==
  ASSUME NEW q \in Queries, Rejected(q)
  PROVE  rejected' \in [by : Natives \union {"none"}, reported : BOOLEAN]
<1>1. q.by \in Natives BY DEF Queries
<1>2. (q.by # "model") \in BOOLEAN OBVIOUS
<1>. QED BY <1>1, <1>2, Zenon DEF Rejected

\* An accepted query leaves the counters and histories well typed.
LEMMA AcceptedType ==
  ASSUME TypeOK, NEW h \in Handles, NEW q \in Queries, Accepted(h, q)
  PROVE  /\ pending' \in [Handles -> Nat] /\ unanswered' \in [Handles -> Nat]
         /\ enqueued' \in [Handles -> Seq(Nat)]
         /\ crowded' \in BOOLEAN
         /\ rejected' \in [by : Natives \union {"none"}, reported : BOOLEAN]
<1>1. pending' \in [Handles -> Nat] /\ unanswered' \in [Handles -> Nat]
  <2>1. CASE Waited(h) BY <2>1 DEF TypeOK, Waited
  <2>2. CASE Queued(h) BY <2>2 DEF TypeOK, Queued
  <2>. QED BY <2>1, <2>2 DEF Accepted
<1>2. enqueued' \in [Handles -> Seq(Nat)]
  <2>1. Append(enqueued[h], now) \in Seq(Nat) BY DEF TypeOK
  <2>. QED BY <2>1 DEF TypeOK, Accepted
<1>3. crowded' \in BOOLEAN BY Zenon DEF TypeOK, Accepted
<1>4. rejected' \in [by : Natives \union {"none"}, reported : BOOLEAN] BY Zenon DEF Accepted, None
<1>. QED BY <1>1, <1>2, <1>3, <1>4

\* A limit that scripts set is a natural number.
LEMMA SettingsType ==
  ASSUME TypeOK, NEW h \in Handles, NEW guard \in DOMAIN Default, NEW cap \in Caps, SetLimit(h, guard, cap)
  PROVE  guards' \in [Handles -> [DOMAIN Default -> Nat]]
<1>1. cap \in Nat BY QueryGuardsAssumption
<1>2. guards[h] \in [DOMAIN Default -> Nat] BY DEF TypeOK
<1>3. [guards[h] EXCEPT ![guard] = cap] \in [DOMAIN Default -> Nat] BY <1>1, <1>2, Zenon
<1>. QED BY <1>3, Zenon DEF SetLimit, TypeOK

\* The defaults are of the type of guards.
LEMMA DefaultType == Default \in [DOMAIN Default -> Nat]
BY QueryGuardsAssumption DEF Default

-----------------------------------------------------------------------------
(* The steps                                                               *)

\* The facts about types a step needs of the rejected query.
LEMMA TypeStep ==
  ASSUME TypeOK, HandleInv, [Next]_vars
  PROVE  TypeOK'
<1>. USE QueryGuardsAssumption DEF Handles
<1>1. ASSUME NEW h \in Handles, NEW q \in Queries, SubmitUnlimited(h, q)
      PROVE  TypeOK'
  <2>1. Accepted(h, q) BY <1>1 DEF SubmitUnlimited
  <2>. QED BY <1>1, <2>1, AcceptedType DEF SubmitUnlimited, TypeOK, settings
<1>2. ASSUME NEW h \in Handles, NEW q \in Queries, SubmitLimited(h, q)
      PROVE  TypeOK'
  <2>1. Accepted(h, q) BY <1>2 DEF SubmitLimited
  <2>2. rateLog' \in [Handles -> Seq(Nat)]
    <3>1. PICK m \in 0..Len(rateLog[h]) :
            rateLog' = [rateLog EXCEPT ![h] = Append(Trimmed(rateLog[h], m), now)]
          BY <1>2 DEF SubmitLimited
    <3>2. rateLog[h] \in Seq(Nat) /\ now \in Nat BY DEF TypeOK
    <3>3. Trimmed(rateLog[h], m) \in Seq(Nat) BY <3>2, TrimmedFacts
    <3>4. Append(Trimmed(rateLog[h], m), now) \in Seq(Nat) BY <3>2, <3>3, AppendFacts
    <3>. QED BY <3>1, <3>4 DEF TypeOK
  <2>3. limited' \in [Handles -> Seq([at : Nat, limit : Nat \ {0}])]
    <3>1. limited' = [limited EXCEPT ![h] = Append(@, [at |-> now, limit |-> Limit(h)])] /\ Limit(h) # 0
          BY <1>2 DEF SubmitLimited
    <3>2. guards[h] \in [DOMAIN Default -> Nat] /\ "maxQueriesPerWindow" \in DOMAIN Default
          BY DEF TypeOK, Default
    <3>3. [at |-> now, limit |-> Limit(h)] \in [at : Nat, limit : Nat \ {0}]
          BY <3>1, <3>2 DEF TypeOK, Limit
    <3>4. limited[h] \in Seq([at : Nat, limit : Nat \ {0}]) BY DEF TypeOK
    <3>5. Append(limited[h], [at |-> now, limit |-> Limit(h)]) \in Seq([at : Nat, limit : Nat \ {0}])
          BY <3>3, <3>4
    <3>. QED BY <3>1, <3>5, Zenon DEF TypeOK
  <2>3a. UNCHANGED <<now, workers, settings>> BY <1>2 DEF SubmitLimited
  <2>. QED BY <2>1, <2>2, <2>3, <2>3a, AcceptedType DEF TypeOK, settings
<1>3. ASSUME NEW h \in Handles, NEW q \in Queries, SubmitOverLimit(h, q)
      PROVE  TypeOK'
  <2>1. Rejected(q) BY <1>3 DEF SubmitOverLimit
  <2>2. rateLog' \in [Handles -> Seq(Nat)]
    <3>1. PICK m \in 0..Len(rateLog[h]) : rateLog' = [rateLog EXCEPT ![h] = Trimmed(rateLog[h], m)]
          BY <1>3 DEF SubmitOverLimit
    <3>2. Trimmed(rateLog[h], m) \in Seq(Nat) BY TrimmedFacts DEF TypeOK
    <3>. QED BY <3>1, <3>2 DEF TypeOK
  <2>3. UNCHANGED <<now, workers, settings, pending, unanswered, crowded, enqueued, limited>>
        BY <1>3, <2>1 DEF SubmitOverLimit, Rejected
  <2>4. rejected' \in [by : Natives \union {"none"}, reported : BOOLEAN] BY <2>1, RejectedType
  <2>. QED BY <2>2, <2>3, <2>4 DEF TypeOK, settings
<1>4. ASSUME NEW h \in Handles, NEW q \in Queries, SubmitRefused(h, q)
      PROVE  TypeOK'
  <2>1. Rejected(q) BY <1>4 DEF SubmitRefused
  <2>2. UNCHANGED <<now, workers, settings, rateLog, pending, unanswered, crowded, enqueued, limited>>
        BY <1>4, <2>1 DEF SubmitRefused, Rejected
  <2>3. rejected' \in [by : Natives \union {"none"}, reported : BOOLEAN] BY <2>1, RejectedType
  <2>. QED BY <2>2, <2>3 DEF TypeOK, settings
<1>5. ASSUME NEW h \in Handles, NEW guard \in DOMAIN Default, NEW cap \in Caps, SetLimit(h, guard, cap)
      PROVE  TypeOK'
  <2>1. guards' \in [Handles -> [DOMAIN Default -> Nat]] BY <1>5, SettingsType
  <2>. QED BY <1>5, <2>1 DEF SetLimit, TypeOK, history
<1>6. ASSUME NEW h \in Handles, Close(h)
      PROVE  TypeOK'
  <2>1. guards' \in [Handles -> [DOMAIN Default -> Nat]] BY <1>6, DefaultType DEF Close, TypeOK
  <2>2. rateLog' \in [Handles -> Seq(Nat)] BY <1>6 DEF Close, TypeOK
  <2>. QED BY <1>6, <2>1, <2>2 DEF Close, TypeOK, history
<1>7. ASSUME NEW h \in Handles, Answer(h)
      PROVE  TypeOK'
  <2>1. unanswered' \in [Handles -> Nat] BY SMTT(30), <1>7 DEF Answer, TypeOK
  <2>. QED BY <1>7, <2>1 DEF Answer, TypeOK, settings
<1>8. ASSUME NEW h \in Handles, Uncount(h)
      PROVE  TypeOK'
  <2>1. pending' \in [Handles -> Nat] BY <1>8 DEF Uncount, TypeOK
  <2>. QED BY <1>8, <2>1 DEF Uncount, TypeOK, settings, history
<1>9. ASSUME NEW multiStatements \in BOOLEAN, Connect(multiStatements)
      PROVE  TypeOK'
  <2>1. guards' \in [Handles -> [DOMAIN Default -> Nat]] BY <1>9, DefaultType DEF Connect, TypeOK
  <2>2. /\ pending' \in [Handles -> Nat] /\ unanswered' \in [Handles -> Nat]
        /\ enqueued' \in [Handles -> Seq(Nat)]
        BY SMTT(30), <1>9 DEF Connect, TypeOK
  <2>3. limited' \in [Handles -> Seq([at : Nat, limit : Nat \ {0}])]
        BY <1>9 DEF Connect, TypeOK
  <2>4. nextHandle' \in Nat \ {0} BY <1>9 DEF Connect, TypeOK
  <2>4a. workers' \subseteq Handles BY <1>9, Zenon DEF Connect, TypeOK
  <2>4b. multi' \subseteq workers' BY <1>9, Zenon DEF Connect, TypeOK
  <2>5. UNCHANGED <<now, rateLog, crowded, rejected>> BY <1>9 DEF Connect
  <2>. QED BY <2>1, <2>2, <2>3, <2>4, <2>4a, <2>4b, <2>5 DEF TypeOK
<1>10. CASE Reset
  <2>1. guards' \in [Handles -> [DOMAIN Default -> Nat]] BY <1>10, DefaultType DEF Reset
  <2>2. rateLog' \in [Handles -> Seq(Nat)] BY <1>10 DEF Reset
  <2>. QED BY <1>10, <2>1, <2>2 DEF Reset, TypeOK, history
<1>11. CASE Advance
  <2>1. now' \in Nat BY <1>11 DEF Advance, TypeOK
  <2>2. UNCHANGED <<workers, settings, rateLog, pending, history>> BY <1>11 DEF Advance
  <2>. QED BY <2>1, <2>2 DEF TypeOK, settings, history
<1>12. CASE UNCHANGED vars
  BY <1>12 DEF vars, TypeOK, settings, history
<1>. QED BY <1>1, <1>2, <1>3, <1>4, <1>5, <1>6, <1>7, <1>8, <1>9, <1>10, <1>11, <1>12 DEF Next, Submit

\* A step that lets the logs alone preserves what is said of them.
LEMMA LogsAlone ==
  ASSUME TypeOK, LogInv, GoneInv, RateLimitHolds,
         UNCHANGED <<workers, rateLog, limited>>, now' \in Nat, now <= now'
  PROVE  LogInv' /\ GoneInv' /\ RateLimitHolds'
<1>1. LogInv' BY DEF LogInv, GoneCount
<1>2. RateLimitHolds' BY DEF RateLimitHolds
<1>3. ASSUME NEW h \in workers, NEW p \in 1..GoneCount(h)
      PROVE  limited[h][p].at + Window < now'
  <2>1. limited[h] \in Seq([at : Nat, limit : Nat \ {0}]) /\ rateLog[h] \in Seq(Nat)
        BY DEF TypeOK
  <2>2. p \in 1..Len(limited[h]) BY <2>1 DEF GoneCount
  <2>2a. limited[h][p] \in [at : Nat, limit : Nat \ {0}] BY <2>1, <2>2, ElementOfSeq, Zenon
  <2>3. limited[h][p].at \in Nat BY <2>2a
  <2>4. limited[h][p].at + Window < now BY DEF GoneInv
  <2>5. now \in Nat BY DEF TypeOK
  <2>. QED BY <2>3, <2>4, <2>5, QueryGuardsAssumption
<1>4. GoneInv' BY <1>3 DEF GoneInv, GoneCount
<1>. QED BY <1>1, <1>2, <1>4

\* Entries that were popped are older than a window, so that a shorter log says as much.
LEMMA Popped ==
  ASSUME TypeOK, LogInv, GoneInv, NEW h \in workers, NEW m \in 0..Len(rateLog[h]), Pops(rateLog[h], m)
  PROVE  /\ GoneCount(h) \in Nat /\ GoneCount(h) + Len(rateLog[h]) = Len(limited[h])
         /\ \A p \in 1..(GoneCount(h) + m) : limited[h][p].at + Window < now
         /\ \A p \in 1..(Len(rateLog[h]) - m) :
              Trimmed(rateLog[h], m)[p] = limited[h][GoneCount(h) + m + p].at
<1>1. limited[h] \in Seq([at : Nat, limit : Nat \ {0}]) /\ rateLog[h] \in Seq(Nat)
      BY DEF TypeOK
<1>2. /\ Len(rateLog[h]) <= Len(limited[h])
      /\ \A p \in DOMAIN rateLog[h] : rateLog[h][p] = limited[h][GoneCount(h) + p].at
      BY DEF TypeOK, LogInv
<1>3. GoneCount(h) \in Nat /\ GoneCount(h) + Len(rateLog[h]) = Len(limited[h])
      BY <1>1, <1>2 DEF GoneCount
<1>4. ASSUME NEW p \in 1..(GoneCount(h) + m)
      PROVE  limited[h][p].at + Window < now
  <2>1. CASE p <= GoneCount(h) BY <1>3, <2>1 DEF GoneInv
  <2>2. CASE p > GoneCount(h)
    <3>. DEFINE k == p - GoneCount(h)
    <3>0. k \in Nat /\ 1 <= k /\ k <= m /\ GoneCount(h) + k = p BY <1>3, <2>2
    <3>1. k \in 1..m /\ k \in DOMAIN rateLog[h] BY <1>1, <3>0
    <3>2. Stale(rateLog[h][k]) BY <3>1 DEF Pops
    <3>3. rateLog[h][k] = limited[h][p].at BY <1>2, <3>0, <3>1
    <3>. QED BY <3>2, <3>3 DEF Stale
  <2>. QED BY <1>3, <2>1, <2>2
<1>5. ASSUME NEW p \in 1..(Len(rateLog[h]) - m)
      PROVE  Trimmed(rateLog[h], m)[p] = limited[h][GoneCount(h) + m + p].at
  <2>1. Trimmed(rateLog[h], m)[p] = rateLog[h][m + p] BY <1>1, TrimmedFacts
  <2>2. m + p \in DOMAIN rateLog[h] BY <1>1
  <2>3. GoneCount(h) + (m + p) = GoneCount(h) + m + p BY <1>1, <1>3
  <2>. QED BY <1>2, <2>1, <2>2, <2>3
<1>. QED BY <1>3, <1>4, <1>5

\* The index of the query a limit before the last: it is among those that left the log.
LEMMA LimitBefore ==
  ASSUME NEW length \in Nat, NEW inLog \in Nat, NEW m \in 0..inLog, NEW gone \in Nat,
         gone + inLog = length, NEW limit \in Nat, limit # 0, inLog - m < limit, limit < length + 1
  PROVE  length + 1 - limit \in 1..(gone + m) /\ length + 1 - limit \in 1..length
OBVIOUS

\* A query accepted under the limit: the log has less than n entries, so the n-th query
\* before this one is not in it any more, and is older than a window.
LEMMA LimitedStep ==
  ASSUME TypeOK, LogInv, GoneInv, RateLimitHolds, TypeOK',
         NEW h \in Handles, NEW q \in Queries, SubmitLimited(h, q)
  PROVE  LogInv' /\ GoneInv' /\ RateLimitHolds'
<1>. DEFINE entry == [at |-> now, limit |-> Limit(h)]
            old == limited[h]
<1>1. PICK m \in 0..Len(rateLog[h]) :
        /\ Pops(rateLog[h], m) /\ ~Full(Trimmed(rateLog[h], m), h)
        /\ rateLog' = [rateLog EXCEPT ![h] = Append(Trimmed(rateLog[h], m), now)]
      BY DEF SubmitLimited
<1>2. /\ h \in workers /\ limited' = [limited EXCEPT ![h] = Append(old, entry)]
      /\ workers' = workers /\ now' = now
      BY DEF SubmitLimited, Submitting
<1>3. /\ old \in Seq([at : Nat, limit : Nat \ {0}]) /\ rateLog[h] \in Seq(Nat)
      /\ now \in Nat /\ Limit(h) \in Nat
  <2>1. guards[h] \in [DOMAIN Default -> Nat] /\ "maxQueriesPerWindow" \in DOMAIN Default
        BY DEF TypeOK, Default
  <2>. QED BY <2>1 DEF TypeOK, Limit
<1>4. /\ GoneCount(h) \in Nat /\ GoneCount(h) + Len(rateLog[h]) = Len(old)
      /\ \A p \in 1..(GoneCount(h) + m) : old[p].at + Window < now
      /\ \A p \in 1..(Len(rateLog[h]) - m) :
           Trimmed(rateLog[h], m)[p] = old[GoneCount(h) + m + p].at
      BY <1>1, <1>2, Popped
<1>5. /\ Trimmed(rateLog[h], m) \in Seq(Nat)
      /\ Len(Trimmed(rateLog[h], m)) = Len(rateLog[h]) - m
      BY <1>3, TrimmedFacts
<1>6. /\ rateLog'[h] = Append(Trimmed(rateLog[h], m), now) /\ limited'[h] = Append(old, entry)
      /\ \A g \in Handles \ {h} : rateLog'[g] = rateLog[g] /\ limited'[g] = limited[g]
      BY <1>1, <1>2 DEF TypeOK
<1>7. /\ Len(rateLog'[h]) = Len(rateLog[h]) - m + 1 /\ Len(limited'[h]) = Len(old) + 1
      /\ \A p \in 1..Len(old) : limited'[h][p] = old[p]
      /\ limited'[h][Len(old) + 1] = entry
      /\ \A p \in 1..(Len(rateLog[h]) - m) : rateLog'[h][p] = Trimmed(rateLog[h], m)[p]
      /\ rateLog'[h][Len(rateLog[h]) - m + 1] = now
  <2>1. Limit(h) # 0 BY DEF SubmitLimited
  <2>2. entry \in [at : Nat, limit : Nat \ {0}] BY <1>3, <2>1
  <2>3. /\ Len(limited'[h]) = Len(old) + 1
        /\ \A p \in 1..Len(old) : limited'[h][p] = old[p]
        /\ limited'[h][Len(old) + 1] = entry
    <3>. HIDE DEF entry, old
    <3>. QED BY <1>3, <1>6, <2>2, AppendFacts
  <2>. DEFINE rest == Trimmed(rateLog[h], m)
  <2>4. /\ Len(rateLog'[h]) = Len(rest) + 1
        /\ \A p \in 1..Len(rest) : rateLog'[h][p] = rest[p]
        /\ rateLog'[h][Len(rest) + 1] = now
    <3>1. rest \in Seq(Nat) BY <1>5
    <3>. HIDE DEF rest
    <3>. QED BY <1>3, <1>6, <3>1, AppendFacts DEF rest
  <2>. QED BY <1>5, <2>3, <2>4
<1>8. Len(old) \in Nat /\ Len(rateLog[h]) \in Nat /\ m \in Nat /\ m <= Len(rateLog[h]) BY <1>3
<1>9. GoneCount(h)' = GoneCount(h) + m BY <1>4, <1>7, <1>8 DEF GoneCount
<1>10. \A g \in Handles \ {h} : GoneCount(g)' = GoneCount(g) BY <1>6 DEF GoneCount
<1>11. workers \subseteq Handles BY DEF TypeOK
<1>12. LogInv'
  <2>1. ASSUME NEW p \in DOMAIN rateLog'[h]
        PROVE  rateLog'[h][p] = limited'[h][GoneCount(h)' + p].at
    <3>1. p \in 1..(Len(rateLog[h]) - m + 1) BY <1>5, <1>6, <1>7, <1>8
    <3>2. CASE p = Len(rateLog[h]) - m + 1
      <4>1. GoneCount(h) \in Int /\ GoneCount(h) + Len(rateLog[h]) = Len(old)
        BY <1>8 DEF GoneCount
      <4>2. GoneCount(h)' + p = Len(old) + 1
        <5>1. GoneCount(h)' + p = (GoneCount(h) + m) + (Len(rateLog[h]) - m + 1)
          BY <1>9, <3>2, Zenon
        <5>2. GoneCount(h) = Len(old) - Len(rateLog[h])
          <6>. HIDE DEF old
          <6>. QED BY <1>8, <4>1
        <5>. HIDE DEF old
        <5>. QED BY <1>8, <5>1, <5>2
      <4>. QED BY <1>7, <3>2, <4>2
    <3>3. CASE p # Len(rateLog[h]) - m + 1
      <4>1. p \in 1..(Len(rateLog[h]) - m) BY <1>8, <3>1, <3>3
      <4>2. GoneCount(h) + m + p \in 1..Len(old) BY <1>4, <1>8, <4>1
      <4>3. GoneCount(h)' + p = GoneCount(h) + m + p BY <1>9
      <4>. QED BY <1>4, <1>7, <4>1, <4>2, <4>3
    <3>. QED BY <3>2, <3>3
  <2>2. Len(rateLog'[h]) <= Len(limited'[h]) BY <1>4, <1>7, <1>8
  <2>3. ASSUME NEW g \in Handles
        PROVE  IF g \in workers'
               THEN /\ Len(rateLog'[g]) <= Len(limited'[g])
                    /\ \A p \in DOMAIN rateLog'[g] : rateLog'[g][p] = limited'[g][GoneCount(g)' + p].at
               ELSE rateLog'[g] = <<>>
    <3>1. CASE g = h BY <1>2, <2>1, <2>2, <3>1
    <3>2. CASE g # h BY <1>2, <1>6, <1>10, <3>2 DEF LogInv
    <3>. QED BY <3>1, <3>2
  <2>. QED BY <2>3 DEF LogInv
<1>13. GoneInv'
  <2>1. ASSUME NEW g \in workers, NEW p \in 1..GoneCount(g)'
        PROVE  limited'[g][p].at + Window < now'
    <3>1. CASE g = h
      <4>1. p \in 1..(GoneCount(h) + m) BY <1>9, <3>1
      <4>2. p \in 1..Len(old) BY <1>4, <1>8, <4>1
      <4>. QED BY <1>2, <1>4, <1>7, <3>1, <4>1, <4>2
    <3>2. CASE g # h BY <1>2, <1>6, <1>10, <1>11, <3>2 DEF GoneInv
    <3>. QED BY <3>1, <3>2
  <2>. QED BY <1>2, <2>1 DEF GoneInv
<1>14. RateLimitHolds'
  <2>1. ASSUME NEW j \in 1..(Len(old) + 1), limited'[h][j].limit < j
        PROVE  limited'[h][j - limited'[h][j].limit].at + Window < limited'[h][j].at
    <3>1. CASE j = Len(old) + 1
      <4>. DEFINE k == j - Limit(h)
      <4>1. limited'[h][j] = entry /\ entry.limit = Limit(h) /\ entry.at = now BY <1>7, <3>1
      <4>2. Limit(h) # 0 BY DEF SubmitLimited
      <4>3. Len(rateLog[h]) - m < Limit(h) BY <1>1, <1>3, <1>5, <1>8 DEF Full
      <4>4. Limit(h) < Len(old) + 1 BY <2>1, <3>1, <4>1
      <4>4a. m \in 0..Len(rateLog[h]) /\ Limit(h) \in Nat /\ GoneCount(h) \in Nat BY <1>3, <1>4
      <4>4b. /\ Len(old) + 1 - Limit(h) \in 1..(GoneCount(h) + m)
             /\ Len(old) + 1 - Limit(h) \in 1..Len(old)
        <5>. HIDE DEF old
        <5>. QED BY <1>4, <1>8, <4>2, <4>3, <4>4, <4>4a, LimitBefore
      <4>5. k \in 1..(GoneCount(h) + m) /\ k \in 1..Len(old)
        <5>. HIDE DEF old
        <5>. QED BY <1>8, <3>1, <4>4a, <4>4b
      <4>. QED BY <1>4, <1>7, <4>1, <4>5
    <3>2. CASE j # Len(old) + 1
      <4>. HIDE DEF old
      <4>1. j \in 1..Len(old) /\ j \in DOMAIN old BY <1>3, <1>8, <3>2
      <4>2. old[j] \in [at : Nat, limit : Nat \ {0}] BY <1>3, <4>1, ElementOfSeq, Zenon
      <4>3. limited'[h][j] = old[j] BY <1>7, <4>1
      <4>4. old[j].limit \in Nat /\ old[j].limit # 0 /\ old[j].limit < j BY <2>1, <4>2, <4>3
      <4>5. j - old[j].limit \in 1..Len(old) BY <1>8, <4>1, <4>4
      <4>6. old[j - old[j].limit].at + Window < old[j].at
            BY <1>2, <4>1, <4>4 DEF RateLimitHolds, old
      <4>. QED BY <1>7, <4>3, <4>5, <4>6
    <3>. QED BY <3>1, <3>2
  <2>2. DOMAIN limited'[h] = 1..(Len(old) + 1) BY <1>3, <1>6, <1>7
  <2>3. ASSUME NEW g \in workers, NEW j \in DOMAIN limited'[g], limited'[g][j].limit < j
        PROVE  limited'[g][j - limited'[g][j].limit].at + Window < limited'[g][j].at
    <3>1. CASE g = h BY <2>1, <2>2, <2>3, <3>1
    <3>2. CASE g # h BY <1>6, <1>11, <2>3, <3>2 DEF RateLimitHolds
    <3>. QED BY <3>1, <3>2
  <2>. QED BY <1>2, <2>3 DEF RateLimitHolds
<1>. QED BY <1>12, <1>13, <1>14

\* A query over the limit trims the log: what left it is older than a window.
LEMMA OverLimitStep ==
  ASSUME TypeOK, LogInv, GoneInv, RateLimitHolds, TypeOK',
         NEW h \in Handles, NEW q \in Queries, SubmitOverLimit(h, q)
  PROVE  LogInv' /\ GoneInv' /\ RateLimitHolds'
<1>1. PICK m \in 0..Len(rateLog[h]) :
        Pops(rateLog[h], m) /\ rateLog' = [rateLog EXCEPT ![h] = Trimmed(rateLog[h], m)]
      BY DEF SubmitOverLimit
<1>2. h \in workers /\ limited' = limited /\ workers' = workers /\ now' = now
      BY DEF SubmitOverLimit, Submitting, Rejected
<1>3. limited[h] \in Seq([at : Nat, limit : Nat \ {0}]) /\ rateLog[h] \in Seq(Nat)
      BY DEF TypeOK
<1>4. /\ GoneCount(h) \in Nat /\ GoneCount(h) + Len(rateLog[h]) = Len(limited[h])
      /\ \A p \in 1..(GoneCount(h) + m) : limited[h][p].at + Window < now
      /\ \A p \in 1..(Len(rateLog[h]) - m) :
           Trimmed(rateLog[h], m)[p] = limited[h][GoneCount(h) + m + p].at
      BY <1>1, <1>2, Popped
<1>5. /\ rateLog'[h] = Trimmed(rateLog[h], m) /\ Len(rateLog'[h]) = Len(rateLog[h]) - m
      /\ DOMAIN rateLog'[h] = 1..(Len(rateLog[h]) - m)
      /\ \A g \in Handles \ {h} : rateLog'[g] = rateLog[g]
  <2>1. rateLog'[h] = Trimmed(rateLog[h], m) /\ \A g \in Handles \ {h} : rateLog'[g] = rateLog[g]
        BY <1>1 DEF TypeOK
  <2>. QED BY <1>3, <2>1, TrimmedFacts
<1>6. Len(limited[h]) \in Nat /\ Len(rateLog[h]) \in Nat BY <1>3
<1>7. GoneCount(h)' = GoneCount(h) + m BY <1>2, <1>4, <1>5, <1>6 DEF GoneCount
<1>8. \A g \in Handles \ {h} : GoneCount(g)' = GoneCount(g) BY <1>2, <1>5 DEF GoneCount
<1>9. workers \subseteq Handles BY DEF TypeOK
<1>10. LogInv'
  <2>1. /\ Len(rateLog'[h]) <= Len(limited'[h])
        /\ \A p \in DOMAIN rateLog'[h] : rateLog'[h][p] = limited'[h][GoneCount(h)' + p].at
    <3>1. ASSUME NEW p \in 1..(Len(rateLog[h]) - m)
          PROVE  Trimmed(rateLog[h], m)[p] = limited[h][GoneCount(h)' + p].at
      <4>1. GoneCount(h)' + p = GoneCount(h) + m + p BY <1>7
      <4>. QED BY <1>4, <4>1, Zenon
    <3>2. Len(rateLog[h]) - m <= Len(limited[h]) BY <1>4, <1>6
    <3>. QED BY <1>2, <1>5, <3>1, <3>2
  <2>2. ASSUME NEW g \in Handles
        PROVE  IF g \in workers'
               THEN /\ Len(rateLog'[g]) <= Len(limited'[g])
                    /\ \A p \in DOMAIN rateLog'[g] : rateLog'[g][p] = limited'[g][GoneCount(g)' + p].at
               ELSE rateLog'[g] = <<>>
    <3>1. CASE g = h BY <1>2, <2>1, <3>1
    <3>2. CASE g # h BY <1>2, <1>5, <1>8, <3>2 DEF LogInv
    <3>. QED BY <3>1, <3>2
  <2>. QED BY <2>2 DEF LogInv
<1>11. GoneInv'
  <2>1. ASSUME NEW g \in workers, NEW p \in 1..GoneCount(g)'
        PROVE  limited[g][p].at + Window < now
    <3>1. CASE g = h BY <1>4, <1>7, <3>1
    <3>2. CASE g # h BY <1>8, <1>9, <3>2 DEF GoneInv
    <3>. QED BY <3>1, <3>2
  <2>. QED BY <1>2, <2>1 DEF GoneInv
<1>12. RateLimitHolds' BY <1>2 DEF RateLimitHolds
<1>. QED BY <1>10, <1>11, <1>12

\* A new connection starts with nothing in its log, a closed one leaves nothing.
LEMMA RegistryStep ==
  ASSUME TypeOK, LogInv, GoneInv, RateLimitHolds, HandleInv, TypeOK',
         \/ \E multiStatements \in BOOLEAN : Connect(multiStatements)
         \/ \E h \in Handles : Close(h)
         \/ Reset
  PROVE  LogInv' /\ GoneInv' /\ RateLimitHolds' /\ HandleInv'
<1>1. ASSUME NEW multiStatements \in BOOLEAN, Connect(multiStatements)
      PROVE  LogInv' /\ GoneInv' /\ RateLimitHolds' /\ HandleInv'
  <2>0. PICK new \in Handles : new = nextHandle BY <1>1 DEF Connect
  <2>1. /\ new \in Handles /\ new \in Nat /\ workers' = workers \union {new}
        /\ nextHandle' = new + 1 /\ rateLog' = rateLog /\ now' = now
        BY <1>1, <2>0 DEF Connect, TypeOK
  <2>2. new \notin workers BY <2>0, <2>1 DEF HandleInv
  <2>3. limited'[new] = <<>> /\ \A g \in Handles \ {new} : limited'[g] = limited[g]
        BY <1>1, <2>0, <2>1 DEF Connect, TypeOK
  <2>4. rateLog'[new] = <<>> BY <2>1, <2>2 DEF LogInv
  <2>5. \A g \in Handles \ {new} : GoneCount(g)' = GoneCount(g) BY <2>1, <2>3 DEF GoneCount
  <2>6. GoneCount(new)' = 0 BY <2>3, <2>4 DEF GoneCount
  <2>7. workers \subseteq Handles BY DEF TypeOK
  <2>8. LogInv' BY <2>1, <2>2, <2>3, <2>4, <2>5 DEF LogInv
  <2>9. ASSUME NEW g \in workers', NEW p \in 1..GoneCount(g)'
        PROVE  limited'[g][p].at + Window < now'
    <3>1. CASE g = new BY <2>6, <3>1
    <3>2. CASE g # new
      <4>1. g \in workers /\ g \in Handles \ {new} BY <2>1, <2>7, <3>2
      <4>. QED BY <2>1, <2>3, <2>5, <4>1 DEF GoneInv
    <3>. QED BY <3>1, <3>2
  <2>9a. GoneInv' BY <2>9 DEF GoneInv
  <2>10. RateLimitHolds' BY <2>1, <2>3, <2>7 DEF RateLimitHolds
  <2>11. HandleInv'
    <3>1. \A g \in workers : g \in Nat /\ g < new BY <2>0, <2>7 DEF HandleInv, Handles
    <3>2. \A g \in workers \union {new} : g < new + 1 BY <2>1, <3>1
    <3>. QED BY <2>1, <3>2 DEF HandleInv
  <2>. QED BY <2>8, <2>9a, <2>10, <2>11
<1>2. ASSUME NEW h \in Handles, Close(h)
      PROVE  LogInv' /\ GoneInv' /\ RateLimitHolds' /\ HandleInv'
  <2>1. /\ workers' = workers \ {h} /\ limited' = limited /\ now' = now /\ nextHandle' = nextHandle
        BY <1>2 DEF Close, history
  <2>2. rateLog'[h] = <<>> /\ \A g \in Handles \ {h} : rateLog'[g] = rateLog[g]
        BY <1>2 DEF Close, TypeOK
  <2>3. \A g \in Handles \ {h} : GoneCount(g)' = GoneCount(g) BY <2>1, <2>2 DEF GoneCount
  <2>4. workers \subseteq Handles BY DEF TypeOK
  <2>5. LogInv' BY <2>1, <2>2, <2>3 DEF LogInv
  <2>6. GoneInv' BY <2>1, <2>3, <2>4 DEF GoneInv
  <2>. QED BY <2>1, <2>5, <2>6 DEF RateLimitHolds, HandleInv
<1>3. CASE Reset
  <2>1. workers' = {} /\ \A h \in Handles : rateLog'[h] = <<>> BY <1>3 DEF Reset
  <2>. QED BY <2>1 DEF LogInv, GoneInv, RateLimitHolds, HandleInv
<1>. QED BY <1>1, <1>2, <1>3

\* An accepted query finds room: whoever is unanswered is counted.
LEMMA PendingStep ==
  ASSUME TypeOK, PendingInv, BackpressureHolds, [Next]_vars
  PROVE  PendingInv' /\ BackpressureHolds'
<1>1. ASSUME NEW h \in Handles, NEW q \in Queries, Accepted(h, q), Admitted(h, q)
      PROVE  PendingInv' /\ BackpressureHolds'
  <2>1. PendingInv'
    <3>1. CASE Waited(h) BY <3>1 DEF Waited, PendingInv, TypeOK
    <3>2. CASE Queued(h) BY <3>2 DEF Queued, PendingInv, TypeOK
    <3>. QED BY <1>1, <3>1, <3>2 DEF Accepted
  <2>2. guards[h] \in [DOMAIN Default -> Nat] /\ "maxPendingQueries" \in DOMAIN Default
        BY DEF TypeOK, Default
  <2>3. guards[h].maxPendingQueries \in Nat BY <2>2
  <2>4. pending[h] \in Nat /\ unanswered[h] \in Nat /\ unanswered[h] <= pending[h]
        BY DEF TypeOK, PendingInv
  <2>5. guards[h].maxPendingQueries # 0 => unanswered[h] + 1 <= guards[h].maxPendingQueries
        BY <1>1, <2>3, <2>4 DEF Admitted, TooManyPending
  <2>6. ~(guards[h].maxPendingQueries # 0 /\ unanswered[h] + 1 > guards[h].maxPendingQueries)
        BY <2>3, <2>4, <2>5
  <2>7. ~crowded' BY <1>1, <2>6, Zenon DEF Accepted, BackpressureHolds
  <2>. QED BY <2>1, <2>7 DEF BackpressureHolds
<1>2. ASSUME UNCHANGED <<pending, unanswered, crowded>>
      PROVE  PendingInv' /\ BackpressureHolds'
  BY <1>2 DEF PendingInv, BackpressureHolds
<1>3. ASSUME NEW h \in Handles, NEW q \in Queries, Submit(h, q)
      PROVE  PendingInv' /\ BackpressureHolds'
  <2>1. CASE SubmitUnlimited(h, q) BY <1>1, <2>1 DEF SubmitUnlimited
  <2>2. CASE SubmitLimited(h, q) BY <1>1, <2>2 DEF SubmitLimited
  <2>3. CASE SubmitOverLimit(h, q) BY <1>2, <2>3 DEF SubmitOverLimit, Rejected
  <2>4. CASE SubmitRefused(h, q) BY <1>2, <2>4 DEF SubmitRefused, Rejected
  <2>. QED BY <1>3, <2>1, <2>2, <2>3, <2>4 DEF Submit
<1>4. ASSUME NEW h \in Handles, NEW guard \in DOMAIN Default, NEW cap \in Caps, SetLimit(h, guard, cap)
      PROVE  PendingInv' /\ BackpressureHolds'
  BY <1>2, <1>4 DEF SetLimit, history
<1>5. ASSUME NEW h \in Handles, Close(h) PROVE PendingInv' /\ BackpressureHolds'
  BY <1>2, <1>5 DEF Close, history
<1>6. ASSUME NEW h \in Handles, Answer(h) PROVE PendingInv' /\ BackpressureHolds'
  BY <1>6 DEF Answer, PendingInv, BackpressureHolds, TypeOK
<1>7. ASSUME NEW h \in Handles, Uncount(h) PROVE PendingInv' /\ BackpressureHolds'
  BY <1>7 DEF Uncount, PendingInv, BackpressureHolds, TypeOK, history
<1>8. ASSUME NEW multiStatements \in BOOLEAN, Connect(multiStatements)
      PROVE  PendingInv' /\ BackpressureHolds'
  BY <1>8 DEF Connect, PendingInv, BackpressureHolds, TypeOK
<1>9. CASE Reset BY <1>2, <1>9 DEF Reset, history
<1>10. CASE Advance BY <1>2, <1>10 DEF Advance, history
<1>11. CASE UNCHANGED vars BY <1>2, <1>11 DEF vars, history
<1>. QED BY <1>3, <1>4, <1>5, <1>6, <1>7, <1>8, <1>9, <1>10, <1>11 DEF Next

\* Every step preserves the invariant.
LEMMA Step ==
  ASSUME IInv, [Next]_vars
  PROVE  IInv'
<1>1. /\ TypeOK /\ LogInv /\ GoneInv /\ RateLimitHolds
      /\ HandleInv /\ PendingInv /\ BackpressureHolds
      BY DEF IInv
<1>2. TypeOK' BY <1>1, TypeStep
<1>3. PendingInv' /\ BackpressureHolds' BY <1>1, PendingStep
<1>. DEFINE Rest == LogInv' /\ GoneInv' /\ RateLimitHolds' /\ HandleInv'
<1>4. ASSUME UNCHANGED <<workers, nextHandle, rateLog, limited, now>> PROVE Rest
  <2>1. now' \in Nat /\ now <= now' BY <1>1, <1>4 DEF TypeOK
  <2>. QED BY <1>1, <1>4, <2>1, LogsAlone DEF HandleInv
<1>5. ASSUME NEW h \in Handles, NEW q \in Queries, Submit(h, q) PROVE Rest
  <2>1. CASE SubmitUnlimited(h, q) BY <1>4, <2>1 DEF SubmitUnlimited, settings
  <2>2. CASE SubmitLimited(h, q)
    <3>1. HandleInv' BY <1>1, <2>2 DEF SubmitLimited, settings, HandleInv
    <3>. QED BY <1>1, <1>2, <2>2, <3>1, LimitedStep
  <2>3. CASE SubmitOverLimit(h, q)
    <3>1. HandleInv' BY <1>1, <2>3 DEF SubmitOverLimit, settings, HandleInv
    <3>. QED BY <1>1, <1>2, <2>3, <3>1, OverLimitStep
  <2>4. CASE SubmitRefused(h, q) BY <1>4, <2>4 DEF SubmitRefused, settings, Rejected
  <2>. QED BY <1>5, <2>1, <2>2, <2>3, <2>4 DEF Submit
<1>6. ASSUME NEW h \in Handles, NEW guard \in DOMAIN Default, NEW cap \in Caps, SetLimit(h, guard, cap)
      PROVE  Rest
  BY <1>4, <1>6 DEF SetLimit, history
<1>7. ASSUME NEW h \in Handles, Answer(h) PROVE Rest BY <1>4, <1>7 DEF Answer, settings
<1>8. ASSUME NEW h \in Handles, Uncount(h) PROVE Rest BY <1>4, <1>8 DEF Uncount, settings, history
<1>9. ASSUME \/ \E multiStatements \in BOOLEAN : Connect(multiStatements)
             \/ \E h \in Handles : Close(h)
             \/ Reset
      PROVE  Rest
  BY <1>1, <1>2, <1>9, RegistryStep
<1>10. ASSUME Advance PROVE Rest
  <2>1. now' \in Nat /\ now <= now' BY <1>1, <1>10 DEF Advance, TypeOK
  <2>2. UNCHANGED <<workers, nextHandle, rateLog, limited>> BY <1>10 DEF Advance, settings, history
  <2>. QED BY <1>1, <2>1, <2>2, LogsAlone DEF HandleInv
<1>11. ASSUME UNCHANGED vars PROVE Rest BY <1>4, <1>11 DEF vars, settings, history
<1>12. Rest BY <1>5, <1>6, <1>7, <1>8, <1>9, <1>10, <1>11 DEF Next
<1>. QED BY <1>2, <1>3, <1>12 DEF IInv

\* The invariant holds at the start.
LEMMA Starts == Init => IInv
<1>. SUFFICES ASSUME Init PROVE IInv OBVIOUS
<1>. USE QueryGuardsAssumption
<1>1. guards \in [Handles -> [DOMAIN Default -> Nat]] BY DefaultType DEF Init
<1>2. rejected \in [by : Natives \union {"none"}, reported : BOOLEAN] BY Zenon DEF Init, None
<1>3. TypeOK
  <2>1. /\ rateLog \in [Handles -> Seq(Nat)] /\ enqueued \in [Handles -> Seq(Nat)]
        /\ limited \in [Handles -> Seq([at : Nat, limit : Nat \ {0}])]
        BY DEF Init
  <2>2. /\ pending \in [Handles -> Nat] /\ unanswered \in [Handles -> Nat]
        /\ now \in Nat /\ nextHandle \in Nat \ {0} /\ workers \subseteq Handles /\ multi \subseteq workers
        BY DEF Init
  <2>3. crowded \in BOOLEAN BY Zenon DEF Init
  <2>. QED BY <1>1, <1>2, <2>1, <2>2, <2>3 DEF TypeOK
<1>4. LogInv /\ GoneInv /\ RateLimitHolds /\ HandleInv BY DEF Init, LogInv, GoneInv, RateLimitHolds, HandleInv
<1>5. PendingInv /\ BackpressureHolds BY DEF Init, PendingInv, BackpressureHolds
<1>. QED BY <1>3, <1>4, <1>5 DEF IInv

\* The invariant of the guards, for every instance.
THEOREM Invariance == Spec => []IInv
BY Starts, Step, PTL DEF Spec

\* Type correctness.
THEOREM TypeCorrect == Spec => []TypeOK
<1>1. IInv => TypeOK BY DEF IInv
<1>. QED BY <1>1, Invariance, PTL

\* The sliding window: whatever limits scripts set and change, checkGuards accepts a query
\* under a limit of n only if the n-th limited query before it is older than a window.
THEOREM RateLimit == Spec => []RateLimitHolds
<1>1. IInv => RateLimitHolds BY DEF IInv
<1>. QED BY <1>1, Invariance, PTL

\* The rate log is what was accepted last on this very connection.
THEOREM LogRecent == Spec => []LogIsRecent
<1>1. IInv => LogIsRecent BY DEF IInv, LogInv, LogIsRecent, GoneCount, TypeOK
<1>. QED BY <1>1, Invariance, PTL

\* The limiter of checkGuards is exact.
THEOREM RateLimitExact == Spec => []RateLimitIsExact
<1>1. RateLimitHolds /\ LogIsRecent => RateLimitIsExact BY DEF RateLimitIsExact
<1>. QED BY <1>1, RateLimit, LogRecent, PTL

\* Backpressure: checkGuards accepts no query beyond maxPendingQueries unanswered ones,
\* although the worker counts them out later than it answers them.
THEOREM Backpressure == Spec => []BackpressureHolds
<1>1. IInv => BackpressureHolds BY DEF IInv
<1>. QED BY <1>1, Invariance, PTL

-----------------------------------------------------------------------------
(* The lexers: what they take for code is code, in every text over every alphabet. *)


\* Where a lexer in mode md stands at j, with the reference's token begun at k.
InMode(md, t, k, j) ==
    /\ md \in Quotes \cup {"Normal", "LineComment", "BlockComment"}
    /\ md = "Normal" => k = j
    /\ md \in Quotes =>
         /\ k < j /\ k <= Len(t) /\ t[k] = md
         /\ (md # "backtick" /\ j <= Len(t) => Unescaped(t, k, j))
    /\ md = "LineComment" => k < j /\ OpensLine(t, k) /\ j <= Len(t) + 1
    /\ md = "BlockComment" =>
         /\ k + 2 <= j /\ OpensBlock(t, k) /\ j <= Len(t) + 1
         /\ ~(j > k + 2 /\ t[j - 1] = "star" /\ CharAt(t, j) = "slash")

\* The reference has read the text before j.
RefOK(r, t, j) ==
    /\ r \in [token : 1 .. Len(t) + 1, code : SUBSET (1 .. Len(t)), quoted : SUBSET (1 .. Len(t))]
    /\ \A p \in r.code : p < j
    /\ \A p \in r.quoted : t[p] \in Quotes

\* CountPlaceholders' three variables as one mode.
CountMode(q, line, block) ==
    IF line THEN "LineComment" ELSE IF block THEN "BlockComment" ELSE q

\* Both lexers stand where the reference does.
ModeInv ==
    /\ pc = "multi" => InMode(state, text, ref.token, i)
    /\ pc = "count" => InMode(CountMode(quote, lineComment, blockComment), text, ref.token, i)

\* What isMultiStatement looks for: code behind a separator.
Stacked(t, code) ==
    \E p, q \in code : p < q /\ t[p] = "semicolon" /\ t[q] \notin Spaces \cup {"semicolon"}

\* isMultiStatement remembers whether a separator was code, and goes on while no code
\* followed one.
SeparatorInv ==
    pc \in {"multi", "verdict"} =>
        /\ sawSeparator <=> \E p \in ref.code : text[p] = "semicolon"
        /\ verdict <=> Stacked(text, ref.code)

\* While isMultiStatement runs it has found nothing.
GoesOnInv == pc = "multi" => ~verdict

\* CountPlaceholders counts along the code.
CountInv ==
    pc \in {"count", "counted"} => count = Cardinality(Placeholders(text, ref.code))

ScanInv ==
    /\ ScanTypeOK /\ RefOK(ref, text, i) /\ CodeIsRecognised
    /\ ModeInv /\ SeparatorInv /\ GoesOnInv /\ CountInv

-----------------------------------------------------------------------------
(* The reference, one character at a time. *)

\* A quote in code begins a literal.
LEMMA QuoteOpens ==
    ASSUME NEW t \in Seq(Chars), NEW j \in 1 .. Len(t), NEW r, RefOK(r, t, j),
           InMode("Normal", t, r.token, j), t[j] \in Quotes
    PROVE  /\ Read(r, t, j).token = j /\ Read(r, t, j).code = r.code
           /\ RefOK(Read(r, t, j), t, j + 1)
           /\ InMode(t[j], t, Read(r, t, j).token, j + 1)
<1>1. r.token = j BY DEF InMode
<1>2. ~OpensLine(t, j) /\ ~OpensBlock(t, j) /\ ~IsCode(t, j)
  BY DEF OpensLine, OpensBlock, IsCode, CharAt, Quotes
<1>3. ~Ends(t, j, j) BY <1>2 DEF Ends
<1>4. r = [token |-> r.token, code |-> r.code, quoted |-> r.quoted] BY DEF RefOK
<1>5. Read(r, t, j) = [token |-> j, code |-> r.code, quoted |-> r.quoted \cup {j}]
  BY <1>1, <1>2, <1>3, <1>4 DEF Read
<1>6. Unescaped(t, j, j + 1)
  <2>1. t[j] # "backslash" BY DEF Quotes
  <2>2. j \in j .. (j + 1) - 1 /\ 0 \in 0 .. j + 1 /\ j + 1 = j + 1 + 2 * 0 OBVIOUS
  <2>3. \A p \in j + 1 .. (j + 1) - 1 : t[p] = "backslash" OBVIOUS
  <2>. QED BY <2>1, <2>2, <2>3 DEF Unescaped
<1>7. RefOK([token |-> j, code |-> r.code, quoted |-> r.quoted \cup {j}], t, j + 1) BY DEF RefOK
<1>8. InMode(t[j], t, j, j + 1) BY <1>6 DEF InMode, Quotes
<1>. QED BY <1>5, <1>7, <1>8

\* A `#` or `--` in code begins a comment, which the opener itself does not end.
LEMMA LineOpens ==
    ASSUME NEW t \in Seq(Chars), NEW j \in 1 .. Len(t), NEW r, RefOK(r, t, j),
           InMode("Normal", t, r.token, j), OpensLine(t, j)
    PROVE  /\ Read(r, t, j) = r /\ InMode("LineComment", t, r.token, j + 1)
           /\ CharAt(t, j) = "dash" =>
                Read(r, t, j + 1) = r /\ InMode("LineComment", t, r.token, j + 2)
<1>1. r.token = j BY DEF InMode
<1>2. CharAt(t, j) = t[j] /\ t[j] \in {"hash", "dash"} BY DEF OpensLine, CharAt
<1>3. ~IsCode(t, j) /\ ~OpensBlock(t, j) /\ t[j] \notin Quotes
  BY <1>2 DEF IsCode, OpensBlock, Quotes
<1>4. r = [token |-> r.token, code |-> r.code, quoted |-> r.quoted] BY DEF RefOK
<1>5. ~Ends(t, j, j) BY <1>2, <1>3 DEF Ends
<1>6. Read(r, t, j) = r BY <1>1, <1>3, <1>4, <1>5 DEF Read
<1>7. ASSUME CharAt(t, j) = "dash"
      PROVE  Read(r, t, j + 1) = r /\ j + 1 <= Len(t)
  <2>1. j + 1 <= Len(t) /\ t[j + 1] = "dash" BY <1>7 DEF OpensLine, CharAt
  <2>2. ~Ends(t, j, j + 1) BY <1>2, <1>3, <2>1 DEF Ends
  <2>. QED BY <1>1, <1>4, <2>1, <2>2 DEF Read
<1>. QED BY <1>1, <1>6, <1>7 DEF InMode, Quotes

\* A `/*` in code begins a comment, and its star cannot end it.
LEMMA BlockOpens ==
    ASSUME NEW t \in Seq(Chars), NEW j \in 1 .. Len(t), NEW r, RefOK(r, t, j),
           InMode("Normal", t, r.token, j), OpensBlock(t, j)
    PROVE  /\ Read(r, t, j) = r /\ Read(r, t, j + 1) = r
           /\ InMode("BlockComment", t, r.token, j + 2)
<1>1. r.token = j BY DEF InMode
<1>2. t[j] = "slash" /\ CharAt(t, j) = "slash" /\ j + 1 <= Len(t) /\ t[j + 1] = "star"
  BY DEF OpensBlock, CharAt
<1>3. ~IsCode(t, j) /\ ~OpensLine(t, j) /\ t[j] \notin Quotes
  BY <1>2 DEF IsCode, OpensLine, Quotes
<1>4. r = [token |-> r.token, code |-> r.code, quoted |-> r.quoted] BY DEF RefOK
<1>5. ~Ends(t, j, j) /\ ~Ends(t, j, j + 1) BY <1>2, <1>3 DEF Ends
<1>6. Read(r, t, j) = r /\ Read(r, t, j + 1) = r BY <1>1, <1>2, <1>3, <1>4, <1>5 DEF Read
<1>. QED BY <1>1, <1>2, <1>6 DEF InMode, Quotes

\* Any other character of code is a token of its own.
LEMMA CodeGoesOn ==
    ASSUME NEW t \in Seq(Chars), NEW j \in 1 .. Len(t), NEW r, RefOK(r, t, j),
           InMode("Normal", t, r.token, j), IsCode(t, j)
    PROVE  /\ Read(r, t, j).token = j + 1 /\ Read(r, t, j).code = r.code \cup {j}
           /\ InMode("Normal", t, Read(r, t, j).token, j + 1)
           /\ RefOK(Read(r, t, j), t, j + 1)
<1>1. r.token = j BY DEF InMode
<1>2. Ends(t, j, j) BY DEF Ends
<1>3. t[j] \notin Quotes BY DEF IsCode, CharAt
<1>4. Read(r, t, j) = [token |-> j + 1, code |-> r.code \cup {j}, quoted |-> r.quoted]
  BY <1>1, <1>2, <1>3 DEF Read
<1>. QED BY <1>4 DEF InMode, RefOK, Quotes

\* Inside a token that began earlier nothing is code, and the reference moves on only
\* when the token ends.
LEMMA InsideToken ==
    ASSUME NEW t \in Seq(Chars), NEW j \in 1 .. Len(t), NEW r, RefOK(r, t, j), r.token < j
    PROVE  /\ ~Ends(t, r.token, j) => Read(r, t, j) = r
           /\ Ends(t, r.token, j) =>
                /\ Read(r, t, j).token = j + 1 /\ Read(r, t, j).code = r.code
                /\ InMode("Normal", t, Read(r, t, j).token, j + 1)
                /\ RefOK(Read(r, t, j), t, j + 1)
<1>1. r = [token |-> r.token, code |-> r.code, quoted |-> r.quoted] BY DEF RefOK
<1>2. ~Ends(t, r.token, j) => Read(r, t, j) = r BY <1>1 DEF Read, RefOK
<1>3. Ends(t, r.token, j) => Read(r, t, j) = [token |-> j + 1, code |-> r.code, quoted |-> r.quoted]
  BY DEF Read, RefOK
<1>4. RefOK([token |-> j + 1, code |-> r.code, quoted |-> r.quoted], t, j + 1) BY DEF RefOK
<1>. QED BY <1>2, <1>3, <1>4 DEF InMode, Quotes

\* A reference that has read less than j has read less than what follows.
LEMMA RefLater ==
    ASSUME NEW t, NEW j \in Nat, NEW l \in Nat, j <= l, NEW r, RefOK(r, t, j), t \in Seq(Chars)
    PROVE  RefOK(r, t, l)
BY DEF RefOK

\* How a literal of either quote ends, and how it goes on.
LEMMA StringGoesOn ==
    ASSUME NEW t \in Seq(Chars), NEW k \in 1 .. Len(t), NEW j \in k + 1 .. Len(t),
           t[k] \in {"apostrophe", "quotation"}, Unescaped(t, k, j)
    PROVE  /\ t[j] = t[k] => Ends(t, k, j)
           /\ t[j] # t[k] => ~Ends(t, k, j)
           /\ t[j] # "backslash" => Unescaped(t, k, j + 1)
           /\ t[j] = "backslash" => ~Unescaped(t, k, j + 1)
           /\ t[j] = "backslash" /\ j + 2 <= Len(t) => Unescaped(t, k, j + 2)
<1>1. ~OpensLine(t, k) /\ ~OpensBlock(t, k) /\ ~IsCode(t, k) /\ t[k] # "backtick"
  BY DEF OpensLine, OpensBlock, IsCode, CharAt, Quotes
<1>2. /\ t[j] = t[k] => Ends(t, k, j)
      /\ t[j] # t[k] => ~Ends(t, k, j)
  BY <1>1 DEF Ends
<1>3. ASSUME t[j] # "backslash" PROVE Unescaped(t, k, j + 1)
  <2>1. j \in k .. (j + 1) - 1 /\ 0 \in 0 .. j + 1 /\ j + 1 = j + 1 + 2 * 0 OBVIOUS
  <2>2. \A p \in j + 1 .. (j + 1) - 1 : t[p] = "backslash" OBVIOUS
  <2>. QED BY <1>3, <2>1, <2>2 DEF Unescaped
<1>4. PICK m \in k .. j - 1, h \in 0 .. j :
        /\ j = m + 1 + 2 * h
        /\ t[m] # "backslash" /\ \A p \in m + 1 .. j - 1 : t[p] = "backslash"
  BY DEF Unescaped
<1>5. ASSUME t[j] = "backslash" PROVE ~Unescaped(t, k, j + 1)
  <2>1. SUFFICES ASSUME NEW l \in k .. (j + 1) - 1, NEW g \in 0 .. j + 1,
                        j + 1 = l + 1 + 2 * g, t[l] # "backslash",
                        \A p \in l + 1 .. (j + 1) - 1 : t[p] = "backslash"
                 PROVE  FALSE
    BY DEF Unescaped
  <2>2. l # j BY <1>5, <2>1
  <2>3. l < m => FALSE BY <1>4, <2>1
  <2>4. m < l => FALSE BY <1>4, <2>1, <2>2
  <2>5. l = m => FALSE BY <1>4, <2>1
  <2>. QED BY <2>3, <2>4, <2>5
<1>6. ASSUME t[j] = "backslash", j + 2 <= Len(t) PROVE Unescaped(t, k, j + 2)
  <2>1. CASE t[j + 1] # "backslash"
    <3>1. j + 1 \in k .. (j + 2) - 1 /\ 0 \in 0 .. j + 2 /\ j + 2 = (j + 1) + 1 + 2 * 0 OBVIOUS
    <3>2. \A p \in (j + 1) + 1 .. (j + 2) - 1 : t[p] = "backslash" OBVIOUS
    <3>. QED BY <2>1, <3>1, <3>2 DEF Unescaped
  <2>2. CASE t[j + 1] = "backslash"
    <3>1. m \in k .. (j + 2) - 1 /\ h + 1 \in 0 .. j + 2 /\ j + 2 = m + 1 + 2 * (h + 1)
      BY <1>4
    <3>2. \A p \in m + 1 .. (j + 2) - 1 : t[p] = "backslash" BY <1>4, <1>6, <2>2
    <3>. QED BY <1>4, <3>1, <3>2 DEF Unescaped
  <2>. QED BY <2>1, <2>2
<1>. QED BY <1>2, <1>3, <1>5, <1>6

-----------------------------------------------------------------------------
(* Iterations that take nothing for code. *)

\* The reference goes from r to r2 while a lexer goes to j in mode md.
Goes(t, r, r2, j, md) ==
    r2.code = r.code /\ RefOK(r2, t, j) /\ InMode(md, t, r2.token, j)

\* A literal or a comment begins.
LEMMA OpensStep ==
    ASSUME NEW t \in Seq(Chars), NEW j \in 1 .. Len(t), NEW r, RefOK(r, t, j),
           InMode("Normal", t, r.token, j)
    PROVE  /\ t[j] \in Quotes => Goes(t, r, Read(r, t, j), j + 1, t[j])
           /\ CharAt(t, j) = "dash" /\ CharAt(t, j + 1) = "dash" =>
                Goes(t, r, Read(Read(r, t, j), t, j + 1), j + 2, "LineComment")
           /\ CharAt(t, j) = "hash" => Goes(t, r, Read(r, t, j), j + 1, "LineComment")
           /\ CharAt(t, j) = "slash" /\ CharAt(t, j + 1) = "star" =>
                Goes(t, r, Read(Read(r, t, j), t, j + 1), j + 2, "BlockComment")
<1>1. RefOK(r, t, j + 1) /\ RefOK(r, t, j + 2) BY DEF RefOK
<1>2. t[j] \in Quotes => Goes(t, r, Read(r, t, j), j + 1, t[j])
  BY QuoteOpens DEF Goes
<1>3. CharAt(t, j) = "dash" /\ CharAt(t, j + 1) = "dash" =>
        Goes(t, r, Read(Read(r, t, j), t, j + 1), j + 2, "LineComment")
  BY <1>1, LineOpens DEF Goes, OpensLine
<1>4. CharAt(t, j) = "hash" => Goes(t, r, Read(r, t, j), j + 1, "LineComment")
  BY <1>1, LineOpens DEF Goes, OpensLine
<1>5. CharAt(t, j) = "slash" /\ CharAt(t, j + 1) = "star" =>
        Goes(t, r, Read(Read(r, t, j), t, j + 1), j + 2, "BlockComment")
  BY <1>1, BlockOpens DEF Goes, OpensBlock
<1>. QED BY <1>2, <1>3, <1>4, <1>5

\* A literal in apostrophes or quotation marks.
LEMMA StringStep ==
    ASSUME NEW t \in Seq(Chars), NEW j \in 1 .. Len(t), NEW r, RefOK(r, t, j),
           NEW q \in {"apostrophe", "quotation"}, InMode(q, t, r.token, j)
    PROVE  /\ t[j] = "backslash" => Goes(t, r, Read(Read(r, t, j), t, j + 1), j + 2, q)
           /\ t[j] = q => Goes(t, r, Read(r, t, j), j + 1, "Normal")
           /\ t[j] \notin {"backslash", q} => Goes(t, r, Read(r, t, j), j + 1, q)
<1>. DEFINE k == r.token
<1>1. k \in 1 .. Len(t) /\ k < j /\ j \in k + 1 .. Len(t) BY DEF InMode, RefOK, Quotes
<1>2. t[k] = q /\ Unescaped(t, k, j) BY <1>1 DEF InMode, Quotes
<1>3. RefOK(r, t, j + 1) /\ RefOK(r, t, j + 2) BY DEF RefOK
<1>4. ASSUME t[j] = q PROVE Goes(t, r, Read(r, t, j), j + 1, "Normal")
  BY <1>1, <1>2, <1>4, StringGoesOn, InsideToken DEF Goes
<1>5. ASSUME t[j] \notin {"backslash", q} PROVE Goes(t, r, Read(r, t, j), j + 1, q)
  <2>1. Read(r, t, j) = r BY <1>1, <1>2, <1>5, StringGoesOn, InsideToken
  <2>2. Unescaped(t, k, j + 1) BY <1>1, <1>2, <1>5, StringGoesOn
  <2>3. InMode(q, t, k, j + 1) BY <1>1, <1>2, <2>2 DEF InMode, Quotes
  <2>. QED BY <1>3, <2>1, <2>3 DEF Goes
<1>6. ASSUME t[j] = "backslash" PROVE Goes(t, r, Read(Read(r, t, j), t, j + 1), j + 2, q)
  <2>1. Read(r, t, j) = r BY <1>1, <1>2, <1>6, StringGoesOn, InsideToken
  <2>2. Read(r, t, j + 1) = r
    <3>1. CASE j + 1 > Len(t) BY <3>1 DEF Read
    <3>2. CASE j + 1 <= Len(t)
      <4>1. ~Unescaped(t, k, j + 1) BY <1>1, <1>2, <1>6, StringGoesOn
      <4>2. ~OpensLine(t, k) /\ ~OpensBlock(t, k) /\ ~IsCode(t, k) /\ t[k] # "backtick"
        BY <1>1, <1>2 DEF OpensLine, OpensBlock, IsCode, CharAt, Quotes
      <4>3. ~Ends(t, k, j + 1) BY <4>1, <4>2 DEF Ends
      <4>4. j + 1 \in 1 .. Len(t) /\ k < j + 1 BY <1>1, <3>2
      <4>. QED BY <1>3, <4>3, <4>4, InsideToken
    <3>. QED BY <3>1, <3>2, <1>1
  <2>3. j + 2 <= Len(t) => Unescaped(t, k, j + 2) BY <1>1, <1>2, <1>6, StringGoesOn
  <2>4. InMode(q, t, k, j + 2) BY <1>1, <1>2, <2>3 DEF InMode, Quotes
  <2>. QED BY <1>3, <2>1, <2>2, <2>4 DEF Goes
<1>. QED BY <1>4, <1>5, <1>6

\* A quoted identifier.
LEMMA IdentifierStep ==
    ASSUME NEW t \in Seq(Chars), NEW j \in 1 .. Len(t), NEW r, RefOK(r, t, j),
           InMode("backtick", t, r.token, j)
    PROVE  /\ t[j] = "backtick" => Goes(t, r, Read(r, t, j), j + 1, "Normal")
           /\ t[j] # "backtick" => Goes(t, r, Read(r, t, j), j + 1, "backtick")
<1>. DEFINE k == r.token
<1>1. k \in 1 .. Len(t) /\ k < j /\ t[k] = "backtick" BY DEF InMode, RefOK, Quotes
<1>2. ~OpensLine(t, k) /\ ~OpensBlock(t, k) /\ ~IsCode(t, k)
  BY <1>1 DEF OpensLine, OpensBlock, IsCode, CharAt, Quotes
<1>3. Ends(t, k, j) <=> t[j] = "backtick" BY <1>1, <1>2 DEF Ends
<1>4. RefOK(r, t, j + 1) BY DEF RefOK
<1>5. ASSUME t[j] # "backtick" PROVE Goes(t, r, Read(r, t, j), j + 1, "backtick")
  <2>1. Read(r, t, j) = r BY <1>1, <1>3, <1>5, InsideToken
  <2>2. InMode("backtick", t, k, j + 1) BY <1>1 DEF InMode, Quotes
  <2>. QED BY <1>4, <2>1, <2>2 DEF Goes
<1>. QED BY <1>1, <1>3, <1>5, InsideToken DEF Goes

\* A comment up to the end of its line.
LEMMA LineCommentStep ==
    ASSUME NEW t \in Seq(Chars), NEW j \in 1 .. Len(t), NEW r, RefOK(r, t, j),
           InMode("LineComment", t, r.token, j)
    PROVE  /\ t[j] = "newline" => Goes(t, r, Read(r, t, j), j + 1, "Normal")
           /\ t[j] # "newline" => Goes(t, r, Read(r, t, j), j + 1, "LineComment")
<1>. DEFINE k == r.token
<1>1. k \in 1 .. Len(t) /\ k < j /\ OpensLine(t, k) BY DEF InMode, RefOK, Quotes
<1>2. t[k] \in {"hash", "dash"} BY <1>1 DEF OpensLine, CharAt
<1>3. ~OpensBlock(t, k) /\ ~IsCode(t, k) BY <1>1, <1>2 DEF OpensBlock, IsCode, CharAt
<1>4. Ends(t, k, j) <=> t[j] = "newline" BY <1>1, <1>2, <1>3 DEF Ends
<1>5. RefOK(r, t, j + 1) BY DEF RefOK
<1>6. ASSUME t[j] # "newline" PROVE Goes(t, r, Read(r, t, j), j + 1, "LineComment")
  <2>1. Read(r, t, j) = r BY <1>1, <1>4, <1>6, InsideToken
  <2>2. InMode("LineComment", t, k, j + 1) BY <1>1 DEF InMode, Quotes
  <2>. QED BY <1>5, <2>1, <2>2 DEF Goes
<1>. QED BY <1>1, <1>4, <1>6, InsideToken DEF Goes

\* A comment up to its closing mark.
LEMMA BlockCommentStep ==
    ASSUME NEW t \in Seq(Chars), NEW j \in 1 .. Len(t), NEW r, RefOK(r, t, j),
           InMode("BlockComment", t, r.token, j)
    PROVE  /\ CharAt(t, j) = "star" /\ CharAt(t, j + 1) = "slash" =>
                Goes(t, r, Read(Read(r, t, j), t, j + 1), j + 2, "Normal")
           /\ ~(CharAt(t, j) = "star" /\ CharAt(t, j + 1) = "slash") =>
                Goes(t, r, Read(r, t, j), j + 1, "BlockComment")
<1>. DEFINE k == r.token
<1>1. /\ k \in 1 .. Len(t) /\ k + 2 <= j /\ OpensBlock(t, k)
      /\ ~(j > k + 2 /\ t[j - 1] = "star" /\ CharAt(t, j) = "slash")
  BY DEF InMode, RefOK, Quotes
<1>2. t[k] = "slash" BY <1>1 DEF OpensBlock, CharAt
<1>3. ~OpensLine(t, k) /\ ~IsCode(t, k) BY <1>1, <1>2 DEF OpensLine, IsCode, CharAt
<1>4. CharAt(t, j) = t[j] BY DEF CharAt
<1>5. ~Ends(t, k, j) BY <1>1, <1>2, <1>3, <1>4 DEF Ends
<1>6. Read(r, t, j) = r BY <1>1, <1>5, InsideToken
<1>7. RefOK(r, t, j + 1) BY DEF RefOK
<1>8. ASSUME CharAt(t, j) = "star", CharAt(t, j + 1) = "slash"
      PROVE  Goes(t, r, Read(Read(r, t, j), t, j + 1), j + 2, "Normal")
  <2>1. j + 1 \in 1 .. Len(t) /\ t[j + 1] = "slash" /\ k < j + 1 BY <1>1, <1>8 DEF CharAt
  <2>2. Ends(t, k, j + 1)
    <3>1. t[j] = "star" /\ (j + 1) - 1 = j BY <1>4, <1>8
    <3>2. j + 1 > k + 2 BY <1>1
    <3>. QED BY <1>1, <2>1, <3>1, <3>2 DEF Ends
  <2>3. (j + 1) + 1 = j + 2 OBVIOUS
  <2>. QED BY <1>6, <1>7, <2>1, <2>2, <2>3, InsideToken DEF Goes
<1>9. ASSUME ~(CharAt(t, j) = "star" /\ CharAt(t, j + 1) = "slash")
      PROVE  Goes(t, r, Read(r, t, j), j + 1, "BlockComment")
  <2>1. (j + 1) - 1 = j OBVIOUS
  <2>2. InMode("BlockComment", t, k, j + 1) BY <1>1, <1>4, <1>9, <2>1 DEF InMode, Quotes
  <2>. QED BY <1>6, <1>7, <2>2 DEF Goes
<1>. QED BY <1>8, <1>9

-----------------------------------------------------------------------------
(* What the properties count. *)

\* A character behind all code so far makes a second statement if it is neither a
\* space nor a separator and follows one.
LEMMA StackedGrows ==
    ASSUME NEW t, NEW j \in Nat, NEW code \in SUBSET Nat, \A p \in code : p < j
    PROVE  Stacked(t, code \cup {j}) <=>
              \/ Stacked(t, code)
              \/ /\ \E p \in code : t[p] = "semicolon"
                 /\ t[j] \notin Spaces \cup {"semicolon"}
BY DEF Stacked

\* Code behind a separator is more than one statement, unless nothing comes before; and
\* more than one statement is code behind a separator, unless all behind is quoted.
LEMMA StackedMeaning ==
    ASSUME NEW t \in Seq(Chars), NEW j, NEW r, RefOK(r, t, j)
    PROVE  /\ Stacked(t, r.code) => Documented(t, r) \/ FirstIsEmpty(t, r)
           /\ Documented(t, r) => Stacked(t, r.code) \/ RestIsQuoted(t, r)
<1>1. /\ r.code \in SUBSET (1 .. Len(t)) /\ r.quoted \in SUBSET (1 .. Len(t))
      /\ \A p \in r.quoted : t[p] \in Quotes /\ t[p] # "semicolon"
  BY DEF RefOK, Quotes
<1>2. ASSUME Stacked(t, r.code), ~Documented(t, r) PROVE FirstIsEmpty(t, r)
  <2>1. PICK q \in r.code, s \in r.code :
          q < s /\ t[q] = "semicolon" /\ t[s] \notin Spaces \cup {"semicolon"}
    BY <1>2 DEF Stacked
  <2>2. q \in Separators(t, r) /\ s \in Words(t, r) BY <2>1 DEF Separators, Words
  <2>3. ASSUME NEW p \in Words(t, r) PROVE q < p
    <3>1. p \in 1 .. Len(t) /\ t[p] # "semicolon" BY <1>1 DEF Words
    <3>2. ~(p < q) BY <1>2, <2>1, <2>2 DEF Documented
    <3>3. q \in 1 .. Len(t) /\ p # q BY <1>1, <2>1, <3>1
    <3>. QED BY <3>1, <3>2, <3>3
  <2>. QED BY <2>2, <2>3 DEF FirstIsEmpty
<1>3. ASSUME ~RestIsQuoted(t, r) PROVE Stacked(t, r.code)
  <2>1. PICK q \in Separators(t, r), s \in Words(t, r) : q < s /\ s \notin r.quoted
    BY <1>3 DEF RestIsQuoted
  <2>. QED BY <2>1 DEF Separators, Words, Stacked
<1>. QED BY <1>2, <1>3

\* A character behind all code so far adds a placeholder exactly if it is a `?`.
LEMMA PlaceholdersGrow ==
    ASSUME NEW t, NEW code, IsFiniteSet(code), NEW j, j \notin code
    PROVE  Cardinality(Placeholders(t, code \cup {j})) =
              IF t[j] = "question" THEN Cardinality(Placeholders(t, code)) + 1
                                   ELSE Cardinality(Placeholders(t, code))
<1>1. IsFiniteSet(Placeholders(t, code))
  <2>1. Placeholders(t, code) \in SUBSET code BY DEF Placeholders
  <2>. QED BY <2>1, FS_Subset
<1>2. CASE t[j] = "question"
  <2>1. Placeholders(t, code \cup {j}) = Placeholders(t, code) \cup {j} BY <1>2 DEF Placeholders
  <2>2. j \notin Placeholders(t, code) BY DEF Placeholders
  <2>. QED BY <1>1, <1>2, <2>1, <2>2, FS_AddElement
<1>3. CASE t[j] # "question"
  <2>1. Placeholders(t, code \cup {j}) = Placeholders(t, code) BY <1>3 DEF Placeholders
  <2>. QED BY <1>3, <2>1
<1>. QED BY <1>2, <1>3

\* There are no more placeholders than characters.
LEMMA PlaceholdersBounded ==
    ASSUME NEW t, NEW l \in Nat, NEW code \in SUBSET (1 .. l)
    PROVE  Cardinality(Placeholders(t, code)) \in 0 .. l
<1>1. IsFiniteSet(1 .. l) /\ Cardinality(1 .. l) = l BY FS_Interval
<1>2. Placeholders(t, code) \in SUBSET (1 .. l) BY DEF Placeholders
<1>3. /\ IsFiniteSet(Placeholders(t, code))
      /\ Cardinality(Placeholders(t, code)) <= Cardinality(1 .. l)
  BY <1>1, <1>2, FS_Subset
<1>4. Cardinality(Placeholders(t, code)) \in Nat BY <1>3, FS_CardinalityType
<1>. QED BY <1>1, <1>3, <1>4

-----------------------------------------------------------------------------
(* The invariant. *)

\* The loops start in code, with nothing read.
LEMMA ScanInitInv == ScanInit => ScanInv
<1>. SUFFICES ASSUME ScanInit PROVE ScanInv OBVIOUS
<1>1. text \in Seq(Chars) /\ Len(text) \in Nat
  <2>1. PICK len \in 0 .. MaxLen : text \in [1 .. len -> Chars] BY DEF ScanInit
  <2>2. len \in Nat BY LenAssumption
  <2>. QED BY <2>1, <2>2
<1>2. ref = [token |-> 1, code |-> {}, quoted |-> {}] BY DEF ScanInit, Start
<1>3. Cardinality(Placeholders(text, {})) = 0
  <2>1. Placeholders(text, {}) = {} BY DEF Placeholders
  <2>. QED BY <2>1, FS_EmptySet
<1>4. ScanTypeOK
  <2>1. ref \in [token : 1 .. Len(text) + 1, code : SUBSET (1 .. Len(text)),
             quoted : SUBSET (1 .. Len(text))] BY <1>1, <1>2
  <2>2. pc \in {"multi", "count"} /\ i \in 1 .. Len(text) + 2 /\ count \in 0 .. Len(text)
    BY <1>1 DEF ScanInit
  <2>3. sawSeparator = FALSE /\ verdict = FALSE /\ lineComment = FALSE /\ blockComment = FALSE
    BY DEF ScanInit
  <2>4. state = "Normal" /\ quote = "Normal" /\ seen = {} BY DEF ScanInit
  <2>. QED BY <1>1, <2>1, <2>2, <2>3, <2>4 DEF ScanTypeOK
<1>5. RefOK(ref, text, i) BY <1>1, <1>2 DEF ScanInit, RefOK
<1>6. ModeInv
  <2>1. InMode("Normal", text, ref.token, i) BY <1>2 DEF ScanInit, InMode, Quotes
  <2>. QED BY <2>1 DEF ScanInit, ModeInv, CountMode
<1>7. SeparatorInv /\ GoesOnInv /\ CountInv /\ CodeIsRecognised
  BY <1>2, <1>3 DEF ScanInit, SeparatorInv, GoesOnInv, CountInv, CodeIsRecognised, Stacked
<1>. QED BY <1>4, <1>5, <1>6, <1>7 DEF ScanInv

\* What an iteration that takes nothing for code must keep, whichever lexer runs.
LEMMA QuietStep ==
    ASSUME ScanInv, NEW j \in i + 1 .. i + 2, NEW md, i <= Len(text),
           i' = j, UNCHANGED <<text, pc, sawSeparator, verdict, count, seen>>,
           Goes(text, ref, ref', j, md),
           state' \in Quotes \cup {"Normal", "LineComment", "BlockComment"},
           quote' \in Quotes \cup {"Normal"}, lineComment' \in BOOLEAN, blockComment' \in BOOLEAN,
           lineComment' => quote' = "Normal" /\ ~blockComment',
           blockComment' => quote' = "Normal",
           pc = "multi" => state' = md,
           pc = "count" => CountMode(quote', lineComment', blockComment') = md
    PROVE  ScanInv'
<1>1. i \in Nat /\ Len(text) \in Nat /\ j \in 1 .. Len(text) + 2 BY DEF ScanInv, ScanTypeOK
<1>2. ref'.code = ref.code /\ RefOK(ref', text, j) /\ InMode(md, text, ref'.token, j) BY DEF Goes
<1>3. ref' \in [token : 1 .. Len(text) + 1, code : SUBSET (1 .. Len(text)),
             quoted : SUBSET (1 .. Len(text))] BY <1>2 DEF RefOK
<1>4. ScanTypeOK' BY <1>1, <1>3 DEF ScanInv, ScanTypeOK
<1>5. RefOK(ref', text', i') BY <1>2
<1>6. CodeIsRecognised' BY <1>2 DEF ScanInv, CodeIsRecognised
<1>7. ModeInv' BY <1>2 DEF ModeInv
<1>8. SeparatorInv' /\ GoesOnInv' BY <1>2 DEF ScanInv, SeparatorInv, GoesOnInv
<1>9. CountInv' BY <1>2 DEF ScanInv, CountInv
<1>. QED BY <1>4, <1>5, <1>6, <1>7, <1>8, <1>9 DEF ScanInv

\* The iterations of isMultiStatement that take nothing for code.
LEMMA MultiQuiet ==
    ASSUME ScanInv, MultiOpens \/ MultiString \/ MultiSkipped
    PROVE  ScanInv'
<1>1. text \in Seq(Chars) /\ pc = "multi" /\ i \in 1 .. Len(text)
  BY DEF ScanInv, ScanTypeOK, MultiOpens, MultiString, MultiSkipped, In
<1>2. RefOK(ref, text, i) /\ InMode(state, text, ref.token, i) BY <1>1 DEF ScanInv, ModeInv
<1>3. CharAt(text, i) = text[i] BY <1>1 DEF CharAt
<1>4. \E j \in i + 1 .. i + 2, md \in Quotes \cup {"Normal", "LineComment", "BlockComment"} :
        /\ Goes(text, ref, ref', j, md) /\ i' = j /\ To(md) /\ UNCHANGED text
  <2>1. CASE MultiOpens
    <3>1. state = "Normal" BY <2>1 DEF MultiOpens, In
    <3>. QED BY <1>1, <1>2, <1>3, <2>1, <3>1, OpensStep DEF MultiOpens, Skip1, Skip2, c, n
  <2>2. CASE MultiString
    <3>1. PICK q \in {"apostrophe", "quotation"} :
            /\ In(q)
            /\ \/ c = "backslash" /\ To(q) /\ Skip2
               \/ c = q /\ To("Normal") /\ Skip1
               \/ c \notin {"backslash", q} /\ To(q) /\ Skip1
      BY <2>2 DEF MultiString
    <3>2. InMode(q, text, ref.token, i) /\ q \in Quotes BY <1>2, <3>1 DEF In, Quotes
    <3>. QED BY <1>1, <1>2, <1>3, <3>1, <3>2, StringStep DEF Skip1, Skip2, c
  <2>3. CASE MultiSkipped
    <3>1. CASE In("backtick") /\ To(IF c = "backtick" THEN "Normal" ELSE "backtick") /\ Skip1
      <4>1. InMode("backtick", text, ref.token, i) BY <1>2, <3>1 DEF In
      <4>. QED BY <1>1, <1>2, <1>3, <3>1, <4>1, IdentifierStep DEF Skip1, c, Quotes
    <3>2. CASE In("LineComment") /\ To(IF c = "newline" THEN "Normal" ELSE "LineComment") /\ Skip1
      <4>1. InMode("LineComment", text, ref.token, i) BY <1>2, <3>2 DEF In
      <4>. QED BY <1>1, <1>2, <1>3, <3>2, <4>1, LineCommentStep DEF Skip1, c
    <3>3. CASE In("BlockComment") /\ c = "star" /\ n = "slash" /\ To("Normal") /\ Skip2
      <4>1. InMode("BlockComment", text, ref.token, i) BY <1>2, <3>3 DEF In
      <4>. QED BY <1>1, <1>2, <3>3, <4>1, BlockCommentStep DEF Skip2, c, n
    <3>4. CASE In("BlockComment") /\ ~(c = "star" /\ n = "slash") /\ To("BlockComment") /\ Skip1
      <4>1. InMode("BlockComment", text, ref.token, i) BY <1>2, <3>4 DEF In
      <4>. QED BY <1>1, <1>2, <3>4, <4>1, BlockCommentStep DEF Skip1, c, n
    <3>. QED BY <2>3, <3>1, <3>2, <3>3, <3>4 DEF MultiSkipped
  <2>. QED BY <2>1, <2>2, <2>3
<1>5. PICK j \in i + 1 .. i + 2, md \in Quotes \cup {"Normal", "LineComment", "BlockComment"} :
        /\ Goes(text, ref, ref', j, md) /\ i' = j /\ To(md) /\ UNCHANGED text
  BY <1>4
<1>6. ScanTypeOK BY DEF ScanInv
<1>. QED BY <1>1, <1>5, <1>6, QuietStep DEF To, countVars, ScanTypeOK

\* An iteration of CountPlaceholders that takes nothing for code.
LEMMA IntoStep ==
    ASSUME ScanInv, pc = "count", i <= Len(text), NEW j \in i + 1 .. i + 2,
           NEW q \in Quotes \cup {"Normal"}, NEW line \in BOOLEAN, NEW block \in BOOLEAN,
           line => q = "Normal" /\ ~block, block => q = "Normal",
           Into(q, line, block), i' = j, UNCHANGED text,
           Goes(text, ref, ref', j, CountMode(q, line, block))
    PROVE  ScanInv'
<1>1. /\ quote' \in Quotes \cup {"Normal"} /\ lineComment' \in BOOLEAN /\ blockComment' \in BOOLEAN
      /\ lineComment' => quote' = "Normal" /\ ~blockComment'
      /\ blockComment' => quote' = "Normal"
      /\ CountMode(quote', lineComment', blockComment') = CountMode(q, line, block)
  BY Zenon DEF Into
<1>2. UNCHANGED <<text, pc, sawSeparator, verdict, count, seen>> /\ state' = state
  BY DEF Into, multiVars
<1>3. state \in Quotes \cup {"Normal", "LineComment", "BlockComment"} BY DEF ScanInv, ScanTypeOK
<1>. QED BY <1>1, <1>2, <1>3, QuietStep

\* The modes of the values the iterations assign.
LEMMA CountModes ==
    /\ CountMode("Normal", TRUE, FALSE) = "LineComment"
    /\ CountMode("Normal", FALSE, TRUE) = "BlockComment"
    /\ \A q : CountMode(q, FALSE, FALSE) = q
BY DEF CountMode

\* CountPlaceholders reads the text where isMultiStatement does.
LEMMA CountingAt ==
    ASSUME ScanInv, NEW q, NEW line, NEW block, Counting(q, line, block)
    PROVE  /\ text \in Seq(Chars) /\ pc = "count" /\ i \in 1 .. Len(text) /\ i <= Len(text)
           /\ i + 1 \in i + 1 .. i + 2 /\ i + 2 \in i + 1 .. i + 2
           /\ RefOK(ref, text, i) /\ CharAt(text, i) = text[i]
           /\ InMode(CountMode(q, line, block), text, ref.token, i)
<1>1. text \in Seq(Chars) /\ pc = "count" /\ i \in 1 .. Len(text)
  <2>1. i \in 1 .. Len(text) + 2 /\ text \in Seq(Chars) BY DEF ScanInv, ScanTypeOK
  <2>. QED BY <2>1 DEF Counting
<1>2. InMode(CountMode(q, line, block), text, ref.token, i) BY DEF ScanInv, ModeInv, Counting
<1>3. RefOK(ref, text, i) BY DEF ScanInv
<1>. QED BY <1>1, <1>2, <1>3 DEF CharAt

\* The iterations of CountPlaceholders inside a comment.
LEMMA CommentQuiet == ScanInv /\ CountComment => ScanInv'
<1>1. ASSUME ScanInv, NEW q \in Quotes \cup {"Normal"}, NEW block \in BOOLEAN,
             Counting(q, TRUE, block), Into(q, c # "newline", block), Skip1
      PROVE  ScanInv'
  <2>1. q = "Normal" /\ block = FALSE
    <3>1. lineComment => quote = "Normal" /\ ~blockComment BY <1>1 DEF ScanInv, ScanTypeOK
    <3>. QED BY <1>1, <3>1, Zenon DEF Counting
  <2>2. CountMode(q, TRUE, block) = "LineComment" BY DEF CountMode
  <2>3. InMode("LineComment", text, ref.token, i) BY <1>1, <2>2, CountingAt
  <2>4. CASE c = "newline"
    <3>1. Goes(text, ref, ref', i + 1, "Normal")
      BY <1>1, <2>3, <2>4, CountingAt, LineCommentStep DEF Skip1, c
    <3>2. Into("Normal", FALSE, FALSE) BY <1>1, <2>1, <2>4
    <3>. QED BY <1>1, <3>1, <3>2, CountingAt, CountModes, IntoStep DEF Skip1
  <2>5. CASE c # "newline"
    <3>1. Goes(text, ref, ref', i + 1, "LineComment")
      BY <1>1, <2>3, <2>5, CountingAt, LineCommentStep DEF Skip1, c
    <3>2. Into("Normal", TRUE, FALSE)
      <4>1. (c # "newline") = TRUE BY <2>5
      <4>. QED BY <1>1, <2>1, <4>1
    <3>. QED BY <1>1, <3>1, <3>2, CountingAt, CountModes, IntoStep DEF Skip1
  <2>. QED BY <2>4, <2>5
<1>2. ASSUME ScanInv, NEW q \in Quotes \cup {"Normal"}, Counting(q, FALSE, TRUE),
             IF c = "star" /\ n = "slash" THEN Into(q, FALSE, FALSE) /\ Skip2
                                           ELSE Into(q, FALSE, TRUE) /\ Skip1
      PROVE  ScanInv'
  <2>1. q = "Normal"
    <3>1. blockComment => quote = "Normal" BY <1>2 DEF ScanInv, ScanTypeOK
    <3>. QED BY <1>2, <3>1, Zenon DEF Counting
  <2>2. CountMode(q, FALSE, TRUE) = "BlockComment" BY DEF CountMode
  <2>3. InMode("BlockComment", text, ref.token, i) BY <1>2, <2>2, CountingAt
  <2>4. CASE c = "star" /\ n = "slash"
    <3>1. Into("Normal", FALSE, FALSE) /\ Skip2 BY <1>2, <2>1, <2>4
    <3>2. Goes(text, ref, ref', i + 2, "Normal")
      BY <1>2, <2>3, <2>4, <3>1, CountingAt, BlockCommentStep DEF Skip2, c, n
    <3>. QED BY <1>2, <3>1, <3>2, CountingAt, CountModes, IntoStep DEF Skip2
  <2>5. CASE ~(c = "star" /\ n = "slash")
    <3>1. Into("Normal", FALSE, TRUE) /\ Skip1 BY <1>2, <2>1, <2>5
    <3>2. Goes(text, ref, ref', i + 1, "BlockComment")
      BY <1>2, <2>3, <2>5, <3>1, CountingAt, BlockCommentStep DEF Skip1, c, n
    <3>. QED BY <1>2, <3>1, <3>2, CountingAt, CountModes, IntoStep DEF Skip1
  <2>. QED BY <2>4, <2>5
<1>. QED BY <1>1, <1>2 DEF CountComment

\* The iterations of CountPlaceholders inside a literal.
LEMMA LiteralQuiet == ScanInv /\ CountLiteral => ScanInv'
<1>1. SUFFICES ASSUME ScanInv, NEW q \in Quotes, Counting(q, FALSE, FALSE),
               \/ c = "backslash" /\ q # "backtick" /\ Into(q, FALSE, FALSE) /\ Skip2
               \/ c = q /\ Into("Normal", FALSE, FALSE) /\ Skip1
               \/ c # q /\ (c = "backslash" => q = "backtick") /\ Into(q, FALSE, FALSE) /\ Skip1
             PROVE  ScanInv'
  BY DEF CountLiteral
<1>2. InMode(q, text, ref.token, i)
  <2>1. InMode(CountMode(q, FALSE, FALSE), text, ref.token, i) BY <1>1, CountingAt
  <2>2. CountMode(q, FALSE, FALSE) = q BY CountModes
  <2>. QED BY <2>1, <2>2
<1>3. CASE c = "backslash" /\ q # "backtick" /\ Into(q, FALSE, FALSE) /\ Skip2
  <2>1. Goes(text, ref, ref', i + 2, q)
    BY <1>1, <1>2, <1>3, CountingAt, StringStep DEF Skip2, c, Quotes
  <2>. QED BY <1>1, <1>3, <2>1, CountingAt, CountModes, IntoStep DEF Skip2
<1>4. CASE c = q /\ Into("Normal", FALSE, FALSE) /\ Skip1
  <2>1. CASE q = "backtick"
    <3>1. Goes(text, ref, ref', i + 1, "Normal")
      BY <1>1, <1>2, <1>4, <2>1, CountingAt, IdentifierStep DEF Skip1, c
    <3>. QED BY <1>1, <1>4, <3>1, CountingAt, CountModes, IntoStep DEF Skip1
  <2>2. CASE q # "backtick"
    <3>1. Goes(text, ref, ref', i + 1, "Normal")
      BY <1>1, <1>2, <1>4, <2>2, CountingAt, StringStep DEF Skip1, c, Quotes
    <3>. QED BY <1>1, <1>4, <3>1, CountingAt, CountModes, IntoStep DEF Skip1
  <2>. QED BY <2>1, <2>2
<1>5. CASE c # q /\ (c = "backslash" => q = "backtick") /\ Into(q, FALSE, FALSE) /\ Skip1
  <2>1. CASE q = "backtick"
    <3>1. Goes(text, ref, ref', i + 1, q)
      BY <1>1, <1>2, <1>5, <2>1, CountingAt, IdentifierStep DEF Skip1, c
    <3>. QED BY <1>1, <1>5, <3>1, CountingAt, CountModes, IntoStep DEF Skip1
  <2>2. CASE q # "backtick"
    <3>1. Goes(text, ref, ref', i + 1, q)
      BY <1>1, <1>2, <1>5, <2>2, CountingAt, StringStep DEF Skip1, c, Quotes
    <3>. QED BY <1>1, <1>5, <3>1, CountingAt, CountModes, IntoStep DEF Skip1
  <2>. QED BY <2>1, <2>2
<1>. QED BY <1>1, <1>3, <1>4, <1>5

\* The iterations of CountPlaceholders that open a literal or a comment.
LEMMA OpensQuiet == ScanInv /\ CountOpens => ScanInv'
<1>. SUFFICES ASSUME ScanInv, CountOpens PROVE ScanInv' OBVIOUS
<1>1. Counting("Normal", FALSE, FALSE) BY DEF CountOpens
<1>2. InMode("Normal", text, ref.token, i)
  <2>1. InMode(CountMode("Normal", FALSE, FALSE), text, ref.token, i) BY <1>1, CountingAt
  <2>2. CountMode("Normal", FALSE, FALSE) = "Normal" BY CountModes
  <2>. QED BY <2>1, <2>2
<1>3. CASE c \in Quotes /\ Into(c, FALSE, FALSE) /\ Skip1
  <2>1. Goes(text, ref, ref', i + 1, c)
    BY <1>1, <1>2, <1>3, CountingAt, OpensStep DEF Skip1, c
  <2>. QED BY <1>1, <1>3, <2>1, CountingAt, CountModes, IntoStep DEF Skip1
<1>4. CASE c = "dash" /\ n = "dash" /\ Into("Normal", TRUE, FALSE) /\ Skip2
  <2>1. Goes(text, ref, ref', i + 2, "LineComment")
    BY <1>1, <1>2, <1>4, CountingAt, OpensStep DEF Skip2, c, n
  <2>. QED BY <1>1, <1>4, <2>1, CountingAt, CountModes, IntoStep DEF Skip2
<1>5. CASE c = "hash" /\ Into("Normal", TRUE, FALSE) /\ Skip1
  <2>1. Goes(text, ref, ref', i + 1, "LineComment")
    BY <1>1, <1>2, <1>5, CountingAt, OpensStep DEF Skip1, c
  <2>. QED BY <1>1, <1>5, <2>1, CountingAt, CountModes, IntoStep DEF Skip1
<1>6. CASE c = "slash" /\ n = "star" /\ Into("Normal", FALSE, TRUE) /\ Skip2
  <2>1. Goes(text, ref, ref', i + 2, "BlockComment")
    BY <1>1, <1>2, <1>6, CountingAt, OpensStep DEF Skip2, c, n
  <2>. QED BY <1>1, <1>6, <2>1, CountingAt, CountModes, IntoStep DEF Skip2
<1>. QED BY <1>3, <1>4, <1>5, <1>6 DEF CountOpens

\* What a character of code must leave behind, whichever lexer runs.
LEMMA CodeRead ==
    ASSUME ScanInv, i <= Len(text), i' = i + 1, ref' = Read(ref, text, i), text' = text,
           InMode("Normal", text, ref.token, i), IsCode(text, i), seen' = seen \cup {i}
    PROVE  /\ ref'.code = ref.code \cup {i} /\ ref'.code \in SUBSET (1 .. Len(text))
           /\ RefOK(ref', text', i') /\ CodeIsRecognised'
           /\ InMode("Normal", text', ref'.token, i')
           /\ ref' \in [token : 1 .. Len(text') + 1, code : SUBSET (1 .. Len(text')),
                  quoted : SUBSET (1 .. Len(text'))]
           /\ i' \in 1 .. Len(text') + 2 /\ seen' \subseteq 1 .. Len(text')
           /\ text[i] = CharAt(text, i)
<1>1. text \in Seq(Chars) /\ i \in 1 .. Len(text) /\ RefOK(ref, text, i) /\ seen = ref.code
  BY DEF ScanInv, ScanTypeOK, CodeIsRecognised
<1>2. /\ ref'.code = ref.code \cup {i} /\ InMode("Normal", text, ref'.token, i + 1)
      /\ RefOK(ref', text, i + 1)
  BY <1>1, CodeGoesOn
<1>3. ref' \in [token : 1 .. Len(text) + 1, code : SUBSET (1 .. Len(text)),
             quoted : SUBSET (1 .. Len(text))]
  BY <1>2 DEF RefOK
<1>4. CodeIsRecognised' BY <1>1, <1>2 DEF CodeIsRecognised
<1>5. seen' \subseteq 1 .. Len(text) BY <1>1, <1>2, <1>3
<1>. QED BY <1>1, <1>2, <1>3, <1>4, <1>5 DEF CharAt

\* isMultiStatement judges a character of code.
LEMMA MultiCodeStep == ScanInv /\ MultiCode => ScanInv'
<1>. SUFFICES ASSUME ScanInv, MultiCode PROVE ScanInv' OBVIOUS
<1>1. /\ ScanTypeOK /\ text \in Seq(Chars) /\ pc = "multi" /\ state = "Normal" /\ i <= Len(text)
      /\ i' = i + 1 /\ ref' = Read(ref, text, i) /\ text' = text /\ seen' = seen \cup {i}
      /\ UNCHANGED <<state, quote, lineComment, blockComment, count>>
  BY DEF ScanInv, ScanTypeOK, MultiCode, In, Skip1, countVars
<1>2. IsCode(text, i) BY DEF MultiCode, c, n, IsCode, OpensLine, OpensBlock
<1>3. InMode("Normal", text, ref.token, i) BY <1>1 DEF ScanInv, ModeInv
<1>4. /\ ref'.code = ref.code \cup {i} /\ RefOK(ref', text', i') /\ CodeIsRecognised'
      /\ InMode("Normal", text', ref'.token, i')
      /\ ref' \in [token : 1 .. Len(text') + 1, code : SUBSET (1 .. Len(text')),
                  quoted : SUBSET (1 .. Len(text'))]
      /\ i' \in 1 .. Len(text') + 2 /\ seen' \subseteq 1 .. Len(text') /\ c = text[i]
  BY <1>1, <1>2, <1>3, CodeRead DEF c
<1>5. /\ sawSeparator' = (sawSeparator \/ c = "semicolon")
      /\ verdict' = (sawSeparator /\ c \notin Spaces \cup {"semicolon"})
      /\ pc' = IF verdict' THEN "verdict" ELSE "multi"
  BY DEF MultiCode
<1>6. /\ sawSeparator <=> \E p \in ref.code : text[p] = "semicolon"
      /\ verdict <=> Stacked(text, ref.code)
  BY <1>1 DEF ScanInv, SeparatorInv
<1>7. ~verdict BY <1>1 DEF ScanInv, GoesOnInv
<1>8. Stacked(text, ref.code \cup {i}) <=>
        Stacked(text, ref.code)
          \/ ((\E p \in ref.code : text[p] = "semicolon") /\ text[i] \notin Spaces \cup {"semicolon"})
  <2>1. i \in Nat /\ ref.code \in SUBSET Nat /\ \A p \in ref.code : p < i
    BY <1>1 DEF ScanInv, ScanTypeOK, RefOK
  <2>. QED BY <2>1, StackedGrows
<1>9. SeparatorInv'
  <2>1. sawSeparator' <=> \E p \in ref'.code : text'[p] = "semicolon"
    BY <1>1, <1>4, <1>5, <1>6
  <2>2. verdict' <=> Stacked(text, ref'.code)
    BY <1>4, <1>5, <1>6, <1>7, <1>8
  <2>. QED BY <1>1, <2>1, <2>2 DEF SeparatorInv
<1>10. ScanTypeOK'
  <2>1. sawSeparator' \in BOOLEAN /\ verdict' \in BOOLEAN BY <1>5
  <2>2. pc' \in {"multi", "verdict"} BY <1>5
  <2>. QED BY <1>1, <1>4, <2>1, <2>2 DEF ScanTypeOK
<1>11. ModeInv' /\ CountInv' /\ GoesOnInv'
  <2>1. pc' \notin {"count", "counted"} /\ (pc' = "multi" => ~verdict') BY <1>5
  <2>. QED BY <1>1, <1>4, <2>1 DEF ModeInv, CountInv, GoesOnInv
<1>. QED BY <1>4, <1>9, <1>10, <1>11 DEF ScanInv

\* CountPlaceholders counts a character of code.
LEMMA CountCodeStep == ScanInv /\ CountCode => ScanInv'
<1>. SUFFICES ASSUME ScanInv, CountCode PROVE ScanInv' OBVIOUS
<1>1. Counting("Normal", FALSE, FALSE) BY DEF CountCode
<1>2. /\ ScanTypeOK /\ text \in Seq(Chars) /\ pc = "count" /\ i <= Len(text)
      /\ i' = i + 1 /\ ref' = Read(ref, text, i) /\ text' = text /\ seen' = seen \cup {i}
      /\ UNCHANGED <<pc, state, sawSeparator, verdict, quote, lineComment, blockComment>>
  BY <1>1, CountingAt DEF ScanInv, CountCode, Skip1, multiVars
<1>3. IsCode(text, i) BY DEF CountCode, c, n, IsCode, OpensLine, OpensBlock
<1>4. InMode("Normal", text, ref.token, i)
  <2>1. InMode(CountMode("Normal", FALSE, FALSE), text, ref.token, i) BY <1>1, CountingAt
  <2>2. CountMode("Normal", FALSE, FALSE) = "Normal" BY CountModes
  <2>. QED BY <2>1, <2>2
<1>5. /\ ref'.code = ref.code \cup {i} /\ RefOK(ref', text', i') /\ CodeIsRecognised'
      /\ ref'.code \in SUBSET (1 .. Len(text)) /\ InMode("Normal", text', ref'.token, i')
      /\ ref' \in [token : 1 .. Len(text') + 1, code : SUBSET (1 .. Len(text')),
                  quoted : SUBSET (1 .. Len(text'))]
      /\ i' \in 1 .. Len(text') + 2 /\ seen' \subseteq 1 .. Len(text') /\ c = text[i]
  BY <1>2, <1>3, <1>4, CodeRead DEF c
<1>6. count' = Cardinality(Placeholders(text, ref'.code))
  <2>1. count = Cardinality(Placeholders(text, ref.code)) BY <1>2 DEF ScanInv, CountInv
  <2>2. count' = IF c = "question" THEN count + 1 ELSE count BY DEF CountCode
  <2>3. Len(text) \in Nat /\ i \in 1 .. Len(text) /\ RefOK(ref, text, i)
    <3>1. i \in 1 .. Len(text) + 2 /\ RefOK(ref, text, i) BY DEF ScanInv, ScanTypeOK
    <3>. QED BY <1>2, <3>1
  <2>4. ref.code \in SUBSET (1 .. Len(text)) /\ i \notin ref.code BY <2>3 DEF RefOK
  <2>5. Cardinality(Placeholders(text, ref.code \cup {i})) =
          IF text[i] = "question" THEN Cardinality(Placeholders(text, ref.code)) + 1
                                  ELSE Cardinality(Placeholders(text, ref.code))
    <3>1. IsFiniteSet(1 .. Len(text)) BY <2>3, FS_Interval
    <3>2. IsFiniteSet(ref.code) BY <2>4, <3>1, FS_Subset
    <3>. QED BY <2>4, <3>2, PlaceholdersGrow
  <2>6. ref'.code = ref.code \cup {i} /\ c = text[i] BY <1>5
  <2>7. CASE c = "question" BY <2>1, <2>2, <2>5, <2>6, <2>7
  <2>8. CASE c # "question" BY <2>1, <2>2, <2>5, <2>6, <2>8
  <2>. QED BY <2>7, <2>8
<1>7. count' \in 0 .. Len(text)
  <2>1. Len(text) \in Nat BY <1>2
  <2>. QED BY <1>5, <1>6, <2>1, PlaceholdersBounded
<1>8. ScanTypeOK' BY <1>2, <1>5, <1>7 DEF ScanTypeOK
<1>9. CountInv' BY <1>2, <1>6 DEF CountInv
<1>10. ModeInv'
  <2>1. CountMode(quote', lineComment', blockComment') = "Normal"
    <3>1. quote' = "Normal" /\ lineComment' = FALSE /\ blockComment' = FALSE
      BY <1>1, <1>2 DEF Counting
    <3>. QED BY <3>1, CountModes
  <2>. QED BY <1>2, <1>5, <2>1 DEF ModeInv
<1>11. SeparatorInv' /\ GoesOnInv' BY <1>2 DEF SeparatorInv, GoesOnInv
<1>. QED BY <1>5, <1>8, <1>9, <1>10, <1>11 DEF ScanInv

\* A function returns at the end of the text.
LEMMA EndStep == ScanInv /\ (MultiEnd \/ CountEnd) => ScanInv'
<1>. SUFFICES ASSUME ScanInv, MultiEnd \/ CountEnd PROVE ScanInv' OBVIOUS
<1>1. UNCHANGED <<text, i, multiVars, countVars, seen, ref>>
  BY DEF MultiEnd, CountEnd
<1>2. (pc = "multi" /\ pc' = "verdict") \/ (pc = "count" /\ pc' = "counted")
  BY DEF MultiEnd, CountEnd
<1>3. ScanTypeOK' BY <1>1, <1>2 DEF ScanInv, ScanTypeOK, multiVars, countVars
<1>4. RefOK(ref', text', i') /\ CodeIsRecognised'
  BY <1>1 DEF ScanInv, CodeIsRecognised
<1>5. ModeInv' /\ GoesOnInv' BY <1>2 DEF ModeInv, GoesOnInv
<1>6. SeparatorInv' BY <1>1, <1>2 DEF ScanInv, SeparatorInv, multiVars
<1>7. CountInv' BY <1>1, <1>2 DEF ScanInv, CountInv, countVars
<1>. QED BY <1>3, <1>4, <1>5, <1>6, <1>7 DEF ScanInv

\* Nothing happens.
LEMMA ScanStutter == ScanInv /\ UNCHANGED scanVars => ScanInv'
<1>. SUFFICES ASSUME ScanInv, UNCHANGED scanVars PROVE ScanInv' OBVIOUS
<1>1. UNCHANGED <<text, pc, i, state, sawSeparator, verdict, quote, lineComment, blockComment,
                  count, seen, ref>>
  BY DEF scanVars, multiVars, countVars
<1>2. ScanTypeOK' /\ RefOK(ref', text', i') BY <1>1 DEF ScanInv, ScanTypeOK
<1>3. ModeInv' /\ GoesOnInv' /\ SeparatorInv' /\ CountInv' /\ CodeIsRecognised'
  BY <1>1 DEF ScanInv, ModeInv, GoesOnInv, SeparatorInv, CountInv, CodeIsRecognised
<1>. QED BY <1>2, <1>3 DEF ScanInv

\* The lexers stand where the reference does, in every text.
THEOREM ScanInvariance == ScanSpec => []ScanInv
<1>1. ScanInv /\ [ScanNext]_scanVars => ScanInv'
  BY MultiQuiet, MultiCodeStep, CommentQuiet, LiteralQuiet, OpensQuiet, CountCodeStep, EndStep,
     ScanStutter DEF ScanNext
<1>. QED BY ScanInitInv, <1>1, PTL DEF ScanSpec

-----------------------------------------------------------------------------
(* The theorems. *)

\* Every variable has its type, in texts of every length.
THEOREM ScanTypeCorrect == ScanSpec => []ScanTypeOK
<1>1. ScanInv => ScanTypeOK BY DEF ScanInv
<1>. QED BY <1>1, ScanInvariance, PTL

\* Both lexers take for code what lies in no literal and no comment, in every text
\* (MySQLComponent.cpp:345-349, Statement.cpp:20-23).
THEOREM Recognised == ScanSpec => []CodeIsRecognised
<1>1. ScanInv => CodeIsRecognised BY DEF ScanInv
<1>. QED BY <1>1, ScanInvariance, PTL

\* isMultiStatement rejects the texts with a separator between SQL and SQL, up to an empty
\* first statement and to quoted text behind every separator (MySQLComponent.hpp:213-215).
THEOREM Judged == ScanSpec => []VerdictIsRight
<1>1. ScanInv => VerdictIsRight
  <2>. SUFFICES ASSUME ScanInv, pc = "verdict" PROVE VerdictIsRight BY DEF VerdictIsRight
  <2>1. text \in Seq(Chars) /\ RefOK(ref, text, i) BY DEF ScanInv, ScanTypeOK
  <2>2. verdict <=> Stacked(text, ref.code) BY DEF ScanInv, SeparatorInv
  <2>. QED BY <2>1, <2>2, StackedMeaning DEF VerdictIsRight
<1>. QED BY <1>1, ScanInvariance, PTL

\* CountPlaceholders counts exactly the placeholders that are code.
THEOREM Counted == ScanSpec => []CountIsRight
<1>1. ScanInv => CountIsRight BY DEF ScanInv, CountInv, CountIsRight
<1>. QED BY <1>1, ScanInvariance, PTL

\* Both functions return what they are for, for every text, the verdict up to the two
\* exceptions that VerdictIsRight names.
THEOREM ResultCorrect == ScanSpec => []ResultIsRight
<1>1. VerdictIsRight /\ CountIsRight => ResultIsRight BY DEF ResultIsRight
<1>. QED BY <1>1, Judged, Counted, PTL

=============================================================================
