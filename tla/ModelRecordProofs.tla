------------------------- MODULE ModelRecordProofs -------------------------
(***************************************************************************)
(* Records are never mixed up, for any number of variables, values,        *)
(* operations and changes by the script.                                   *)
(***************************************************************************)
EXTENDS ModelRecord, SequenceTheorems, FiniteSetTheorems, TLAPS

\* Values of some columns, as a job or a reply carries them.
Tuples == UNION {[C -> Values] : C \in SUBSET Columns}
JobSet == [op : Operations, values : Tuples, key : Values \union {Null}]
ReplySet == [op : Operations, succeeded : BOOLEAN, insertId : Values, row : Tuples]

\* The bindings and the script's memory.
BindingInv ==
  /\ mem \in [Variables -> Values]
  /\ fields \in UNION {[C -> Variables] : C \in SUBSET Columns}
  /\ key \in {None, "id"}
  /\ errno \in {"Ok", "NoData", "Invalid"}

\* The table holds what the script's variables held together.
TableInv ==
  /\ rows \in [DOMAIN rows -> Values]
  /\ DOMAIN rows \subseteq Values
  /\ nextId \in Nat
  /\ \A i \in DOMAIN rows : i < nextId /\ <<i, rows[i]>> \in shown

\* So does an UPDATE on its way, when it has a key.
Honest(j, pairs) ==
  j.op = "update" /\ j.key # Null => "v" \in DOMAIN j.values /\ <<j.key, j.values["v"]>> \in pairs

JobInv ==
  /\ queue \in Seq(JobSet)
  /\ \A i \in 1..Len(queue) : Honest(queue[i], shown)
  /\ completed \in Seq(ReplySet)
  /\ submitted \in Nat
  /\ Len(queue) + Len(completed) <= submitted

IInv == BindingInv /\ TableInv /\ JobInv

-----------------------------------------------------------------------------
(* Sequences and tuples                                                    *)

\* No columns have values, too.
LEMMA NoTuple == <<>> \in Tuples /\ <<>> \in UNION {[C -> Variables] : C \in SUBSET Columns}
<1>1. <<>> \in [{} -> Values] /\ <<>> \in [{} -> Variables]
  OBVIOUS
<1>2. {} \in SUBSET Columns
  OBVIOUS
<1> QED BY <1>1, <1>2 DEF Tuples

\* What appending an element does.
LEMMA AppendFacts ==
  ASSUME NEW S, NEW s \in Seq(S), NEW e \in S
  PROVE  /\ Append(s, e) \in Seq(S)
         /\ Len(Append(s, e)) = Len(s) + 1
         /\ \A i \in 1..Len(Append(s, e)) : Append(s, e)[i] = IF i <= Len(s) THEN s[i] ELSE e
  OBVIOUS

\* What taking the head away does.
LEMMA TailFacts ==
  ASSUME NEW S, NEW s \in Seq(S), s # <<>>
  PROVE  /\ Head(s) \in S /\ Head(s) = s[1] /\ 1 \in 1..Len(s)
         /\ Tail(s) \in Seq(S)
         /\ Len(Tail(s)) = Len(s) - 1
         /\ Len(s) \in Nat
         /\ \A i \in 1..Len(Tail(s)) : Tail(s)[i] = s[i + 1] /\ i + 1 \in 1..Len(s)
  OBVIOUS

\* Bindings are functions.
LEMMA TupleFacts ==
  /\ \A t \in Tuples : DOMAIN t \subseteq Columns /\ \A c \in DOMAIN t : t[c] \in Values
  /\ \A C \in SUBSET Columns : [C -> Values] \subseteq Tuples
BY DEF Tuples

-----------------------------------------------------------------------------
(* The first state                                                         *)

LEMMA Initially == Init => IInv
<1> SUFFICES ASSUME Init PROVE IInv
  OBVIOUS
<1>1. BindingInv
  BY ModelRecordAssumption DEF Init, BindingInv, Values
<1>2. TableInv
  BY ModelRecordAssumption DEF Init, TableInv, Values
<1>3. JobInv
  BY DEF Init, JobInv
<1> QED BY <1>1, <1>2, <1>3 DEF IInv

-----------------------------------------------------------------------------
(* The script                                                              *)

\* Touching the model disturbs nothing but the bindings.
LEMMA TouchStep == ASSUME IInv, Touch, BindingInv' PROVE IInv'
BY DEF IInv, Touch, TableInv, JobInv, Honest, serverVars, jobVars

LEMMA AssignStep == ASSUME IInv, NEW x \in Variables, NEW n \in Values, Assign(x, n) PROVE IInv'
<1>1. BindingInv'
  BY DEF Assign, IInv, BindingInv, modelVars
<1> QED BY <1>1, TouchStep DEF Assign

LEMMA BindStep == ASSUME IInv, NEW x \in Variables, NEW c \in Columns, Bind(c, x) PROVE IInv'
<1>1. fields' \in UNION {[C -> Variables] : C \in SUBSET Columns}
  <2>1. PICK C \in SUBSET Columns : fields \in [C -> Variables]
    BY DEF IInv, BindingInv
  <2>2. fields' \in [C \union {c} -> Variables]
    BY <2>1 DEF Bind, Put
  <2> QED BY <2>1, <2>2
<1>2. BindingInv'
  BY <1>1 DEF Bind, IInv, BindingInv
<1> QED BY <1>2, TouchStep DEF Bind

LEMMA UnbindStep == ASSUME IInv, NEW c \in Columns, Unbind(c) PROVE IInv'
<1>1. fields' \in UNION {[C -> Variables] : C \in SUBSET Columns}
  <2>1. PICK C \in SUBSET Columns : fields \in [C -> Variables]
    BY DEF IInv, BindingInv
  <2>2. fields' \in [C \ {c} -> Variables]
    BY <2>1 DEF Unbind, Restrict
  <2> QED BY <2>1, <2>2
<1>2. BindingInv'
  BY <1>1 DEF Unbind, IInv, BindingInv
<1> QED BY <1>2, TouchStep DEF Unbind

\* Clearing the bindings, choosing the key and destroying the model.
LEMMA ModelStep == ASSUME IInv, ClearFields \/ SetKey \/ Destroy PROVE IInv'
<1>1. BindingInv'
  BY NoTuple DEF ClearFields, SetKey, Destroy, IInv, BindingInv
<1> QED BY <1>1, TouchStep DEF ClearFields, SetKey, Destroy

\* The connection closes, the gamemode ends or starts.
LEMMA WorldStep == ASSUME IInv, CloseConnection \/ Reset \/ LoadMain PROVE IInv'
<1>1. BindingInv'
  BY NoTuple DEF CloseConnection, Reset, LoadMain, modelVars, IInv, BindingInv
<1> QED BY <1>1 DEF CloseConnection, Reset, LoadMain, serverVars, jobVars, IInv, TableInv, JobInv, Honest

\* A job is submitted with values and key that the script's variables hold now.
LEMMA ExecuteStep == ASSUME IInv, NEW op \in Operations, Execute(op) PROVE IInv'
<1>1. BindingInv'
  BY DEF Execute, IInv, BindingInv
<1>2. CASE open /\ CanBuild(op)
  <2>1. PICK C \in SUBSET Columns : fields \in [C -> Variables]
    BY DEF IInv, BindingInv
  <2>2. Literals \in Tuples /\ DOMAIN Literals = DOMAIN fields
    <3>1. Literals \in [C -> Values]
      BY <2>1 DEF Literals, IInv, BindingInv
    <3> QED BY <2>1, <3>1, TupleFacts
  <2>3. KeyLiteral \in Values \union {Null}
    BY <2>1 DEF KeyLiteral, HasKeyField, IInv, BindingInv
  <2>4. PICK j \in JobSet : j = [op |-> op, values |-> Literals, key |-> KeyLiteral]
    BY <2>2, <2>3 DEF JobSet
  <2>5. queue' = Append(queue, j) /\ shown \subseteq shown' /\ submitted' = submitted + 1
    BY <1>2, <2>4 DEF Execute
  <2>6. Honest(j, shown')
    <3> SUFFICES ASSUME op = "update", KeyLiteral # Null
                 PROVE  "v" \in DOMAIN Literals /\ <<KeyLiteral, Literals["v"]>> \in shown'
      BY <2>4 DEF Honest
    <3>1. HasKeyField /\ key = "id"
      BY DEF KeyLiteral, HasKeyField, IInv, BindingInv
    <3>2. "v" \in DOMAIN fields
      BY <1>2, <2>1, <3>1 DEF CanBuild, Columns
    <3>3. KeyLiteral = mem[fields["id"]] /\ Literals["v"] = mem[fields["v"]]
      BY <3>1, <3>2 DEF KeyLiteral, Literals
    <3>4. <<mem[fields["id"]], mem[fields["v"]]>> \in shown'
      BY <1>2, <3>1 DEF Execute
    <3> QED BY <2>2, <3>2, <3>3, <3>4
  <2>7. TableInv'
    BY <2>5 DEF Execute, IInv, TableInv, serverVars
  <2>8. JobInv'
    <3>1. completed' = completed
      BY <1>2 DEF Execute
    <3>2. \A i \in 1..Len(queue) : Honest(queue[i], shown')
      BY <2>5 DEF IInv, JobInv, Honest
    <3>3. \A i \in 1..Len(queue') : Honest(queue'[i], shown')
      BY <2>4, <2>5, <2>6, <3>2, AppendFacts DEF IInv, JobInv
    <3>4. queue' \in Seq(JobSet) /\ Len(queue') = Len(queue) + 1 /\ Len(queue) \in Nat
      BY <2>4, <2>5, AppendFacts DEF IInv, JobInv
    <3>5. Len(completed) \in Nat
      BY DEF IInv, JobInv
    <3> QED BY <2>5, <3>1, <3>3, <3>4, <3>5 DEF IInv, JobInv
  <2> QED BY <1>1, <2>7, <2>8 DEF IInv
<1>3. CASE ~(open /\ CanBuild(op))
  BY <1>1, <1>3 DEF Execute, IInv, TableInv, JobInv, Honest, serverVars, jobVars
<1> QED BY <1>2, <1>3

-----------------------------------------------------------------------------
(* The server                                                              *)

\* What a statement does to the table keeps it honest, and its reply is well formed.
LEMMA EffectStep ==
  ASSUME IInv, NEW j \in JobSet, Honest(j, shown), NEW answered \in BOOLEAN, Effect(j, answered),
         UNCHANGED auto
  PROVE  /\ TableInv' /\ shown \subseteq shown'
         /\ \E r \in ReplySet : completed' = Append(completed, r)
<1>1. j.values \in Tuples /\ DOMAIN j.values \subseteq Columns
  BY TupleFacts DEF JobSet
<1>2. ASSUME NEW id \in Values, NEW row \in Tuples
      PROVE  Reply(j, answered, id, row) \in ReplySet
  BY <1>2 DEF Reply, ReplySet, JobSet
<1>3. 0 \in Values
  BY ModelRecordAssumption DEF Values
<1>4. CASE j.op = "insert"
  <2> DEFINE i == InsertedId(j.values)
  <2>1. i \in Nat /\ Inserted(j.values) \in Values
    BY <1>1, <1>3, TupleFacts DEF InsertedId, Inserted, IInv, TableInv, Values
  <2>2. i \in Values
    BY <2>1 DEF Values
  <2>3. /\ rows' = Put(rows, i, Inserted(j.values))
        /\ nextId' = IF i >= nextId THEN i + 1 ELSE nextId
        /\ shown' = shown \union {<<i, Inserted(j.values)>>}
        /\ completed' = Append(completed, Reply(j, answered, IF auto THEN i ELSE 0, <<>>))
    BY <1>4 DEF Effect
  <2> HIDE DEF i
  <2>4. TableInv'
    <3>1. rows' \in [DOMAIN rows' -> Values] /\ DOMAIN rows' = DOMAIN rows \union {i}
      BY <2>1, <2>3 DEF Put, IInv, TableInv
    <3>2. nextId' \in Nat /\ nextId <= nextId' /\ i < nextId'
      BY <2>1, <2>3 DEF IInv, TableInv
    <3>3. ASSUME NEW k \in DOMAIN rows' PROVE k < nextId' /\ <<k, rows'[k]>> \in shown'
      <4>1. CASE k = i
        BY <2>3, <3>1, <3>2, <4>1 DEF Put
      <4>2. CASE k # i
        <5>1. k \in DOMAIN rows /\ rows'[k] = rows[k]
          BY <2>3, <3>1, <4>2 DEF Put
        <5>2. k \in Nat /\ k < nextId /\ <<k, rows[k]>> \in shown
          BY <5>1 DEF IInv, TableInv, Values
        <5> QED BY <2>3, <3>2, <5>1, <5>2 DEF IInv, TableInv
      <4> QED BY <4>1, <4>2
    <3> QED BY <2>2, <3>1, <3>2, <3>3 DEF IInv, TableInv
  <2>5. Reply(j, answered, IF auto THEN i ELSE 0, <<>>) \in ReplySet
    BY <1>2, <1>3, <2>2, NoTuple
  <2> QED BY <2>3, <2>4, <2>5
<1>5. CASE j.op = "update"
  <2>1. /\ rows' = IF j.key \in DOMAIN rows THEN Updated(j.values, j.key) ELSE rows
        /\ completed' = Append(completed, Reply(j, answered, 0, <<>>))
        /\ UNCHANGED <<nextId, shown>>
    BY <1>5 DEF Effect
  <2>2. TableInv'
    <3>1. CASE j.key \in DOMAIN rows
      <4>1. "v" \in DOMAIN j.values /\ <<j.key, j.values["v"]>> \in shown
        BY <1>5, <3>1, ModelRecordAssumption DEF IInv, TableInv, Honest
      <4>2. j.values["v"] \in Values
        BY <1>1, <4>1, TupleFacts
      <4> QED BY <2>1, <3>1, <4>1, <4>2 DEF Updated, IInv, TableInv
    <3>2. CASE j.key \notin DOMAIN rows
      BY <2>1, <3>2 DEF IInv, TableInv
    <3> QED BY <3>1, <3>2
  <2> QED BY <1>2, <1>3, <2>1, <2>2, NoTuple
<1>6. CASE j.op = "delete"
  <2>1. /\ rows' = Restrict(rows, DOMAIN rows \ {j.key})
        /\ completed' = Append(completed, Reply(j, answered, 0, <<>>))
        /\ UNCHANGED <<nextId, shown>>
    BY <1>6 DEF Effect
  <2>2. TableInv'
    BY <2>1 DEF Restrict, IInv, TableInv
  <2> QED BY <1>2, <1>3, <2>1, <2>2, NoTuple
<1>7. CASE j.op = "find"
  <2> DEFINE row == IF j.key \in DOMAIN rows
                      THEN [c \in DOMAIN j.values |-> IF c = "id" THEN j.key ELSE rows[j.key]] ELSE <<>>
  <2>1. completed' = Append(completed, Reply(j, answered, 0, row)) /\ UNCHANGED <<rows, nextId, shown>>
    BY <1>7 DEF Effect
  <2>2. row \in Tuples
    <3>1. CASE j.key \in DOMAIN rows
      <4>1. row \in [DOMAIN j.values -> Values]
        BY <3>1 DEF IInv, TableInv
      <4> QED BY <1>1, <4>1, TupleFacts
    <3>2. CASE j.key \notin DOMAIN rows
      BY <3>2, NoTuple
    <3> QED BY <3>1, <3>2
  <2> HIDE DEF row
  <2>3. TableInv'
    BY <2>1 DEF IInv, TableInv
  <2> QED BY <1>2, <1>3, <2>1, <2>2, <2>3
<1> QED BY <1>4, <1>5, <1>6, <1>7 DEF JobSet, Operations

LEMMA RunStep == ASSUME IInv, RunJob PROVE IInv'
<1>1. /\ Head(queue) \in JobSet /\ Honest(Head(queue), shown)
      /\ queue' = Tail(queue) /\ queue' \in Seq(JobSet) /\ Len(queue') = Len(queue) - 1 /\ Len(queue) \in Nat
      /\ \A i \in 1..Len(queue') : queue'[i] = queue[i + 1] /\ i + 1 \in 1..Len(queue)
  BY TailFacts DEF RunJob, IInv, JobInv
<1>2. /\ TableInv' /\ shown \subseteq shown'
      /\ \E r \in ReplySet : completed' = Append(completed, r)
  <2>1. CASE Effect(Head(queue), TRUE) \/ Effect(Head(queue), FALSE)
    BY <1>1, <2>1, EffectStep DEF RunJob
  <2>2. CASE Failure(Head(queue))
    <3>1. Reply(Head(queue), FALSE, 0, <<>>) \in ReplySet
      BY <1>1, NoTuple, ModelRecordAssumption DEF Reply, ReplySet, JobSet, Values
    <3>2. TableInv' /\ shown' = shown
      BY <2>2 DEF RunJob, Failure, IInv, TableInv
    <3> QED BY <2>2, <3>1, <3>2 DEF Failure
  <2> QED BY <2>1, <2>2 DEF RunJob
<1>3. PICK r \in ReplySet : completed' = Append(completed, r)
  BY <1>2
<1>4. completed' \in Seq(ReplySet) /\ Len(completed') = Len(completed) + 1 /\ Len(completed) \in Nat
  BY <1>3, AppendFacts DEF IInv, JobInv
<1>5. \A i \in 1..Len(queue') : Honest(queue'[i], shown')
  BY <1>1, <1>2 DEF IInv, JobInv, Honest
<1>6. BindingInv' /\ submitted' = submitted
  BY DEF RunJob, IInv, BindingInv, modelVars
<1>7. JobInv'
  <2>1. submitted' \in Nat
    BY <1>6 DEF IInv, JobInv
  <2>2. Len(queue') + Len(completed') <= submitted'
    <3>1. Len(queue) + Len(completed) <= submitted /\ submitted \in Nat
      BY DEF IInv, JobInv
    <3>2. Len(queue') + Len(completed') = (Len(queue) - 1) + (Len(completed) + 1)
      BY <1>1, <1>4
    <3> QED BY <1>1, <1>4, <1>6, <3>1, <3>2
  <2>3. queue' \in Seq(JobSet) /\ completed' \in Seq(ReplySet)
    BY <1>1, <1>4
  <2> QED BY <1>5, <2>1, <2>2, <2>3 DEF JobInv
<1> QED BY <1>2, <1>6, <1>7 DEF IInv

-----------------------------------------------------------------------------
(* The tick                                                                *)

LEMMA ApplyStep == ASSUME IInv, Apply PROVE IInv'
<1>1. /\ Head(completed) \in ReplySet
      /\ completed' \in Seq(ReplySet) /\ Len(completed') = Len(completed) - 1 /\ Len(completed) \in Nat
  BY TailFacts DEF Apply, IInv, JobInv
<1>2. PICK r \in ReplySet : r = Head(completed)
  BY <1>1
<1>3. mem' \in [Variables -> Values] /\ errno' \in {"Ok", "NoData", "Invalid"}
  <2>1. CASE Applied(r) /\ exists /\ r.op = "insert"
    <3>1. r.insertId \in Values
      BY DEF ReplySet
    <3> QED BY <2>1, <3>1 DEF Applied, WriteKey, IInv, BindingInv
  <2>2. CASE Applied(r) /\ exists /\ r.op = "find"
    <3>1. r.row \in Tuples /\ \A c \in DOMAIN r.row : r.row[c] \in Values
      BY TupleFacts DEF ReplySet
    <3>2. CASE WriteRow(r)
      <4>1. \A c \in DOMAIN r.row \intersect DOMAIN fields : r.row[c] \in Values
        BY <3>1
      <4> QED BY <2>2, <3>2, <4>1 DEF Applied, WriteRow, IInv, BindingInv
    <3> QED BY <2>2, <3>2 DEF Applied, IInv, BindingInv
  <2>3. CASE Applied(r) /\ exists /\ r.op \in {"update", "delete"}
    BY <2>3 DEF Applied, IInv, BindingInv
  <2>4. CASE Unapplied(r) \/ (Applied(r) /\ ~exists)
    BY <2>4 DEF Applied, Unapplied, IInv, BindingInv
  <2>5. Applied(r) \/ Unapplied(r)
    BY <1>2 DEF Apply
  <2> QED BY <2>1, <2>2, <2>3, <2>4, <2>5 DEF ReplySet, Operations
<1>4. UNCHANGED <<fields, key, rows, nextId, queue, submitted, shown>>
  BY DEF Apply, serverVars
<1>5. Len(queue) \in Nat
  BY DEF IInv, JobInv
<1> QED BY <1>1, <1>3, <1>4, <1>5 DEF IInv, BindingInv, TableInv, JobInv

-----------------------------------------------------------------------------
(* The theorems                                                            *)

\* What the jobs on their way carry is part of why the table is right.
LEMMA Inductive == IInv /\ [Next]_vars => IInv'
<1> SUFFICES ASSUME IInv, [Next]_vars PROVE IInv'
  OBVIOUS
<1>1. CASE Script
  <2>1. ASSUME Save PROVE IInv'
    BY <2>1, ExecuteStep DEF Save, Operations
  <2>2. Assigned \subseteq Values
    BY ModelRecordAssumption DEF Assigned, Values
  <2> QED BY <1>1, <2>1, <2>2, AssignStep, BindStep, UnbindStep, ModelStep, ExecuteStep DEF Script
<1>2. CASE UNCHANGED vars
  BY <1>2 DEF vars, modelVars, serverVars, jobVars, IInv, BindingInv, TableInv, JobInv
<1> QED BY <1>1, <1>2, WorldStep, RunStep, ApplyStep DEF Next

\* The invariant holds in every reachable state.
THEOREM Invariance == Spec => []IInv
BY Initially, Inductive, PTL DEF Spec

\* Whatever a script does to its variables, bindings and key while operations are on their
\* way, and whatever fails: no row holds a mixture of two records.
THEOREM RowsCorrect == Spec => []RowsHoldTogether
<1>1. IInv => RowsHoldTogether
  BY DEF IInv, TableInv, RowsHoldTogether
<1> QED BY <1>1, Invariance, PTL

\* Types, keys behind the AUTO_INCREMENT counter, and no more replies than jobs.
THEOREM TypeCorrect == Spec => []TypeOK
<1>1. IInv => TypeOK
  <2> SUFFICES ASSUME IInv PROVE TypeOK
    OBVIOUS
  <2>1. DOMAIN fields \subseteq Columns /\ Range(fields) \subseteq Variables
    BY DEF IInv, BindingInv, Range
  <2> QED BY <2>1 DEF IInv, BindingInv, TableInv, JobInv, TypeOK
<1> QED BY <1>1, Invariance, PTL

\* A step that takes a reply writes to variables bound now, of a model that exists.
LEMMA ApplyWritesBound ==
  ASSUME IInv, Apply, NEW x \in Variables, mem'[x] # mem[x]
  PROVE  exists /\ x \in Range(fields)
<1>1. PICK r \in ReplySet : r = Head(completed)
  BY TailFacts DEF Apply, IInv, JobInv
<1>2. Applied(r) /\ exists
  BY <1>1 DEF Apply, Applied, Unapplied
<1>3. CASE r.op = "insert"
  BY <1>2, <1>3 DEF Applied, WriteKey, HasKeyField, Range, IInv, BindingInv
<1>4. CASE r.op = "find"
  <2>1. WriteRow(r)
    BY <1>2, <1>4 DEF Applied
  <2>2. {c \in DOMAIN r.row \intersect DOMAIN fields : fields[c] = x} # {}
    BY <2>1 DEF WriteRow, IInv, BindingInv
  <2> QED BY <1>2, <2>2 DEF Range
<1>5. CASE r.op \in {"update", "delete"}
  BY <1>2, <1>5 DEF Applied
<1> QED BY <1>3, <1>4, <1>5 DEF ReplySet, Operations

\* A reply is written to no variable unbound meanwhile and to no destroyed model.
THEOREM WritesCorrect == Spec => RepliesWriteBoundOnly
<1>1. IInv /\ [Next]_vars =>
        [Len(completed') < Len(completed) =>
           \A x \in Variables : mem'[x] # mem[x] => exists /\ x \in Range(fields)]_vars
  <2> SUFFICES ASSUME IInv, Next, Len(completed') < Len(completed), NEW x \in Variables, mem'[x] # mem[x]
               PROVE  exists /\ x \in Range(fields)
    OBVIOUS
  <2>1. CASE Apply
    BY <2>1, ApplyWritesBound
  <2>2. CASE RunJob
    BY <2>2 DEF RunJob, modelVars
  <2>3. ASSUME completed' = completed PROVE FALSE
    BY <2>3 DEF IInv, JobInv
  <2>4. CASE CloseConnection \/ Reset \/ LoadMain
    BY <2>3, <2>4 DEF CloseConnection, Reset, LoadMain, jobVars
  <2>5. CASE Script
    BY <2>3, <2>5 DEF Script, Assign, Bind, Unbind, ClearFields, SetKey, Destroy, Touch, Execute, Save, jobVars
  <2> QED BY <2>1, <2>2, <2>4, <2>5 DEF Next
<1> QED BY <1>1, Invariance, PTL DEF Spec, RepliesWriteBoundOnly

-----------------------------------------------------------------------------
(* One row per record                                                      *)

\* The key variable names a row of its record, or none yet; if every row's key was brought
\* back, it names the only one.
Settled == exists =>
  /\ record.rows = {} \/ mem[fields["id"]] \in record.rows \union {0}
  /\ record.answered => \A i \in record.rows : mem[fields["id"]] = i

\* The one operation a patient script has on its way was submitted with this key.
JobCalm(j) ==
  /\ j.op = "insert" =>
       /\ "id" \in DOMAIN j.values /\ j.values["id"] = mem[fields["id"]]
       /\ record.answered => \A i \in record.rows : j.values["id"] = i
  /\ j.op = "find" => j.key = mem[fields["id"]]

\* Or its reply is there: an INSERT brings the key of its row, the only one if every key
\* was brought back before.
ReplyCalm(r) ==
  /\ r.op = "insert" /\ r.succeeded =>
       /\ r.insertId \in record.rows
       /\ mem[fields["id"]] \in record.rows \union {0}
       /\ record.answered => \A i \in record.rows : r.insertId = i
  /\ ~(r.op = "insert" /\ r.succeeded) => Settled
  /\ r.op = "find" /\ "id" \in DOMAIN r.row => r.row["id"] = mem[fields["id"]]

\* At most one row, if every row's key was brought back, and never row 0.
FewRows == 0 \notin record.rows /\ (record.answered => \A i, k \in record.rows : i = k)

Calm ==
  /\ Len(queue) + Len(completed) <= 1
  /\ KeyVariable # {} =>
       /\ FewRows
       /\ Idle => Settled
       /\ \A n \in 1..Len(queue) : Settled /\ JobCalm(queue[n])
       /\ \A n \in 1..Len(completed) : ReplyCalm(completed[n])

Records == [rows : SUBSET Nat, patient : BOOLEAN, answered : BOOLEAN]

CalmInv ==
  /\ record \in Records
  /\ nextId > 0
  /\ auto /\ record.patient => Calm

\* A key variable is the variable of the key column, and of no other.
LEMMA KeyIs ==
  ASSUME KeyVariable # {}, BindingInv
  PROVE  /\ HasKeyField /\ key = "id" /\ "id" \in DOMAIN fields /\ KeyVariable = {fields["id"]}
         /\ fields["id"] \in Variables
         /\ \A c \in DOMAIN fields : c # "id" => fields[c] # fields["id"]
BY DEF KeyVariable, HasKeyField, BindingInv

\* The script's changes: either they leave the record alone or the record is a new one.
LEMMA TouchCalm == ASSUME IInv, CalmInv, Touch, exists' => exists PROVE CalmInv'
<1>1. /\ UNCHANGED <<auto, rows, nextId, queue, completed>>
      /\ record' = IF KeyVariable' # KeyVariable \/ \E x \in KeyVariable : mem'[x] # mem[x]
                     THEN Fresh(Idle) ELSE record
  BY DEF Touch, serverVars, jobVars
<1>2. CASE KeyVariable' # KeyVariable \/ \E x \in KeyVariable : mem'[x] # mem[x]
  <2>1. record' = [rows |-> {}, patient |-> Idle, answered |-> TRUE] /\ Idle \in BOOLEAN
    BY <1>1, <1>2 DEF Fresh, Idle
  <2>2. record' \in Records /\ record'.rows = {} /\ record'.patient = Idle
    BY <2>1 DEF Records
  <2>3. ASSUME Idle PROVE Calm'
    BY <1>1, <2>2, <2>3 DEF Idle, Calm, FewRows, Settled
  <2> QED BY <1>1, <2>2, <2>3 DEF CalmInv
<1>3. CASE KeyVariable' = KeyVariable /\ \A x \in KeyVariable : mem'[x] = mem[x]
  <2>1. record' = record
    BY <1>1, <1>3
  <2>2. ASSUME Calm PROVE Calm'
    <3>1. CASE KeyVariable = {}
      BY <1>1, <1>3, <2>2, <3>1 DEF Calm
    <3>2. CASE KeyVariable # {}
      <4>1. KeyVariable' = {fields'["id"]} /\ KeyVariable = {fields["id"]}
        BY <1>3, <3>2 DEF KeyVariable
      <4>2. mem'[fields'["id"]] = mem[fields["id"]]
        BY <1>3, <4>1
      <4>3. Settled => Settled'
        BY <2>1, <4>2 DEF Settled
      <4>4. \A n \in 1..Len(queue) : JobCalm(queue[n]) => JobCalm(queue[n])'
        BY <1>1, <2>1, <4>2 DEF JobCalm
      <4>5. \A n \in 1..Len(completed) : ReplyCalm(completed[n]) => ReplyCalm(completed[n])'
        BY <1>1, <2>1, <4>2, <4>3 DEF ReplyCalm
      <4>6. FewRows' = FewRows
        BY <2>1 DEF FewRows
      <4> QED BY <1>1, <2>1, <2>2, <3>2, <4>3, <4>4, <4>5, <4>6 DEF Calm, Idle
    <3> QED BY <3>1, <3>2
  <2> QED BY <1>1, <2>1, <2>2 DEF CalmInv
<1> QED BY <1>2, <1>3

\* A patient script submits when nothing is on its way: the job has the settled key.
LEMMA ExecuteCalm == ASSUME IInv, CalmInv, NEW op \in Operations, Execute(op) PROVE CalmInv'
<1>1. UNCHANGED <<mem, fields, key, exists, auto, rows, nextId, completed>> /\ exists /\ BindingInv
  BY DEF Execute, serverVars, jobVars, IInv
<1>2. CASE open /\ CanBuild(op)
  <2> DEFINE j == [op |-> op, values |-> Literals, key |-> KeyLiteral]
  <2>1. queue' = Append(queue, j) /\ record' = [record EXCEPT !.patient = record.patient /\ Idle]
    BY <1>2 DEF Execute
  <2>2. /\ record' \in Records /\ record'.rows = record.rows /\ record'.answered = record.answered
        /\ record'.patient => record.patient /\ Idle
    BY <2>1 DEF CalmInv, Records, Idle
  <2>3. ASSUME auto, record.patient, Idle PROVE Calm'
    <3>1. queue' = <<j>> /\ completed' = <<>> /\ Len(queue') = 1 /\ Len(completed') = 0 /\ queue'[1] = j
      BY <1>1, <2>1, <2>3 DEF Idle
    <3>2. KeyVariable' = KeyVariable
      BY <1>1 DEF KeyVariable, HasKeyField
    <3>3. ASSUME KeyVariable # {}
          PROVE  FewRows' /\ Settled' /\ JobCalm(j)'
      <4>1. HasKeyField /\ key = "id" /\ "id" \in DOMAIN fields
        BY <1>1, <3>3, KeyIs
      <4>2. FewRows' /\ Settled
        BY <2>2, <2>3, <3>3 DEF CalmInv, Calm, FewRows
      <4>3. "id" \in DOMAIN Literals /\ Literals["id"] = mem[fields["id"]] /\ KeyLiteral = mem[fields["id"]]
        BY <4>1 DEF Literals, KeyLiteral
      <4>4. Settled'
        BY <1>1, <2>2, <4>2 DEF Settled
      <4>5. j.values = Literals /\ j.key = KeyLiteral /\ j' = j
        BY <1>1 DEF Literals, KeyLiteral, HasKeyField
      <4> HIDE DEF j
      <4>6. JobCalm(j)'
        BY <1>1, <2>2, <4>2, <4>3, <4>5 DEF JobCalm, Settled
      <4> QED BY <4>2, <4>4, <4>6
    <3>4. j' = j
      BY <1>1 DEF Literals, KeyLiteral, HasKeyField
    <3> HIDE DEF j
    <3>5. \A n \in 1..Len(queue') : n = 1 /\ queue'[n] = j
      BY <3>1
    <3>6. ASSUME KeyVariable # {}, NEW n \in 1..Len(queue') PROVE JobCalm(queue[n])'
      BY <3>3, <3>4, <3>5, <3>6
    <3>7. queue' # <<>>
      BY <3>1
    <3> QED BY <2>2, <3>1, <3>2, <3>3, <3>6, <3>7 DEF Calm, Idle
  <2> QED BY <1>1, <2>2, <2>3 DEF CalmInv
<1>3. CASE ~(open /\ CanBuild(op))
  <2>1. UNCHANGED <<queue, record>>
    BY <1>3 DEF Execute, jobVars
  <2> QED BY <1>1, <2>1 DEF CalmInv, Calm, FewRows, Idle, Settled, JobCalm, ReplyCalm, KeyVariable, HasKeyField
<1> QED BY <1>2, <1>3

\* The statement of a patient script inserts the row its key names, or a first one.
LEMMA EffectCalm ==
  ASSUME IInv, CalmInv, NEW j \in JobSet, NEW answered \in BOOLEAN, Effect(j, answered),
         Len(queue) = 1, queue[1] = j, UNCHANGED <<mem, fields, key, exists, auto>>
  PROVE  /\ record' \in Records /\ nextId' > 0
         /\ \E r : /\ completed' = Append(completed, r)
                   /\ (auto /\ record'.patient /\ KeyVariable # {}) => FewRows' /\ ReplyCalm(r)'
<1>1. nextId \in Nat /\ nextId > 0 /\ record \in Records /\ BindingInv
  BY DEF IInv, TableInv, CalmInv
<1>2. (auto /\ record.patient /\ KeyVariable # {}) => FewRows /\ Settled /\ JobCalm(j)
  BY DEF CalmInv, Calm
<1>3. CASE j.op = "insert"
  <2> DEFINE i == InsertedId(j.values)
             r == Reply(j, answered, IF auto THEN i ELSE 0, <<>>)
  <2>1. /\ nextId' = IF i >= nextId THEN i + 1 ELSE nextId
        /\ record' = [record EXCEPT !.rows = record.rows \union {i}, !.answered = record.answered /\ answered]
        /\ completed' = Append(completed, r)
    BY <1>3 DEF Effect
  <2>2. i \in Nat /\ (auto => i # 0)
    <3>1. "id" \in DOMAIN j.values => j.values["id"] \in Nat
      BY TupleFacts DEF JobSet, Values
    <3> QED BY <1>1, <3>1 DEF InsertedId
  <2>3. ("id" \in DOMAIN j.values /\ j.values["id"] # 0) => i = j.values["id"]
    BY DEF InsertedId
  <2>4. r.op = "insert" /\ r.succeeded = answered /\ r.row = <<>> /\ (auto => r.insertId = i)
    BY <1>3 DEF Reply
  <2>5. "id" \notin DOMAIN <<>>
    OBVIOUS
  <2> HIDE DEF i, r
  <2>6. /\ record'.rows = record.rows \union {i} /\ record'.patient = record.patient
        /\ record'.answered = (record.answered /\ answered)
    BY <1>1, <2>1 DEF Records
  <2>7. record' \in Records /\ nextId' > 0
    <3>1. PICK R \in SUBSET Nat, b \in BOOLEAN : record' = [record EXCEPT !.rows = R, !.answered = b]
      <4>1. (record.answered /\ answered) \in BOOLEAN /\ record.rows \union {i} \in SUBSET Nat
        BY <1>1, <2>2 DEF Records
      <4> QED BY <2>1, <4>1
    <3>2. record' \in Records
      BY <1>1, <3>1 DEF Records
    <3> QED BY <1>1, <2>1, <2>2, <3>2
  <2>8. ASSUME NEW q, q = r, auto, record.patient, KeyVariable # {}
        PROVE  FewRows' /\ ReplyCalm(q)'
    <3> DEFINE k == mem[fields["id"]]
    <3>1. /\ FewRows /\ "id" \in DOMAIN j.values /\ j.values["id"] = k
          /\ record.answered => \A m \in record.rows : j.values["id"] = m
      BY <1>2, <1>3, <2>8 DEF JobCalm
    <3>2. record.answered => \A m \in record.rows : m = i
      BY <2>3, <3>1 DEF FewRows
    <3>3. k \in record'.rows \union {0} /\ (k # 0 => k = i)
      BY <2>3, <2>6, <3>1
    <3>4. FewRows'
      BY <2>2, <2>6, <2>8, <3>1, <3>2 DEF FewRows
    <3>5. k' = k
      OBVIOUS
    <3>6. CASE answered
      BY <2>4, <2>5, <2>6, <2>8, <3>2, <3>3, <3>4, <3>5, <3>6 DEF ReplyCalm
    <3>7. CASE ~answered
      <4>1. Settled'
        BY <2>6, <3>3, <3>5, <3>7 DEF Settled
      <4> QED BY <2>4, <2>5, <2>8, <3>4, <3>7, <4>1 DEF ReplyCalm
    <3> QED BY <3>4, <3>6, <3>7
  <2> QED BY <2>1, <2>6, <2>7, <2>8
<1>4. CASE j.op # "insert"
  <2> DEFINE row == IF j.op = "find" /\ j.key \in DOMAIN rows
                      THEN [c \in DOMAIN j.values |-> IF c = "id" THEN j.key ELSE rows[j.key]] ELSE <<>>
             r == Reply(j, answered, 0, row)
  <2>1. completed' = Append(completed, r) /\ UNCHANGED <<nextId, record>>
    BY <1>4 DEF Effect, JobSet, Operations
  <2>2. "id" \in DOMAIN row => j.op = "find" /\ row["id"] = j.key
    <3>1. "id" \notin DOMAIN <<>>
      OBVIOUS
    <3> QED BY <3>1
  <2>3. r.op = j.op /\ r.row = row
    BY DEF Reply
  <2> HIDE DEF row, r
  <2>4. ASSUME auto, record.patient, KeyVariable # {}
        PROVE  /\ r.op # "insert" /\ FewRows' /\ Settled'
               /\ "id" \in DOMAIN r.row => r.row["id"] = mem[fields["id"]]
    BY <1>2, <1>4, <2>1, <2>2, <2>3, <2>4 DEF Settled, FewRows, JobCalm
  <2>5. ASSUME NEW q, q = r, auto, record.patient, KeyVariable # {} PROVE ReplyCalm(q)'
    BY <2>1, <2>4, <2>5 DEF ReplyCalm
  <2> QED BY <1>1, <1>2, <2>1, <2>4, <2>5
<1> QED BY <1>3, <1>4

\* The job of a patient script is answered, or fails.
LEMMA RunCalm == ASSUME IInv, CalmInv, RunJob PROVE CalmInv'
<1> DEFINE j == Head(queue)
<1>1. /\ queue # <<>> /\ queue \in Seq(JobSet) /\ completed \in Seq(ReplySet) /\ queue' = Tail(queue)
      /\ UNCHANGED <<mem, fields, key, errno, exists, auto>>
      /\ record \in Records /\ nextId > 0 /\ BindingInv
  BY DEF RunJob, modelVars, IInv, JobInv, CalmInv
<1>2. j \in JobSet /\ j = queue[1] /\ 1 \in 1..Len(queue) /\ Len(queue) \in Nat
      /\ queue' \in Seq(JobSet) /\ Len(queue') = Len(queue) - 1
  BY <1>1, TailFacts
<1>3. KeyVariable' = KeyVariable
  BY <1>1 DEF KeyVariable, HasKeyField
<1> HIDE DEF j
\* Either way one reply comes.
<1>4. /\ record' \in Records /\ nextId' > 0 /\ record'.patient = record.patient
      /\ \E r : completed' = Append(completed, r)
  <2>1. CASE Failure(j)
    BY <1>1, <2>1 DEF Failure
  <2>2. CASE \E answered \in BOOLEAN : Effect(j, answered)
    <3>1. PICK answered \in BOOLEAN : Effect(j, answered)
      BY <2>2
    <3>2. CASE j.op = "insert"
      <4> DEFINE i == InsertedId(j.values)
      <4>1. /\ nextId' = IF i >= nextId THEN i + 1 ELSE nextId
            /\ record' = [record EXCEPT !.rows = record.rows \union {i},
                                        !.answered = record.answered /\ answered]
            /\ \E r : completed' = Append(completed, r)
        BY <3>1, <3>2 DEF Effect
      <4>2. i \in Nat
        BY <1>2, TupleFacts DEF InsertedId, JobSet, Values, IInv, TableInv
      <4> HIDE DEF i
      <4>3. /\ (record.answered /\ answered) \in BOOLEAN /\ nextId \in Nat
            /\ record.rows \union {i} \in SUBSET Nat
        BY <1>1, <4>2 DEF IInv, TableInv, Records
      <4>4. PICK R \in SUBSET Nat, b \in BOOLEAN : record' = [record EXCEPT !.rows = R, !.answered = b]
        BY <4>1, <4>3
      <4>5. record' \in Records /\ record'.patient = record.patient
        BY <1>1, <4>4 DEF Records
      <4> QED BY <1>1, <4>1, <4>2, <4>3, <4>5
    <3>3. CASE j.op # "insert"
      BY <1>1, <1>2, <3>1, <3>3 DEF Effect, JobSet, Operations
    <3> QED BY <3>2, <3>3
  <2> QED BY <2>1, <2>2 DEF RunJob, j
<1>5. ASSUME auto, record.patient
      PROVE  Calm'
  <2>1. Len(queue) = 1 /\ Len(queue') = 0 /\ completed = <<>>
    <3>1. Len(queue) + Len(completed) <= 1 /\ Len(completed) \in Nat
      BY <1>1, <1>5 DEF CalmInv, Calm
    <3> QED BY <1>1, <1>2, <3>1
  <2>2. PICK r : /\ completed' = Append(completed, r)
                 /\ KeyVariable # {} => FewRows' /\ ReplyCalm(r)'
    <3>1. CASE Failure(j)
      <4> DEFINE r == Reply(j, FALSE, 0, <<>>)
      <4>1. completed' = Append(completed, r) /\ record' = record
        BY <3>1 DEF Failure
      <4>2. ~r.succeeded /\ r.row = <<>> /\ "id" \notin DOMAIN <<>>
        BY DEF Reply
      <4> HIDE DEF r
      <4>3. KeyVariable # {} => FewRows' /\ Settled
        BY <1>2, <1>5, <2>1, <4>1 DEF CalmInv, Calm, FewRows
      <4>4. ASSUME NEW q, q = r, KeyVariable # {} PROVE ReplyCalm(q)'
        BY <1>1, <4>1, <4>2, <4>3, <4>4 DEF ReplyCalm, Settled
      <4> QED BY <4>1, <4>3, <4>4
    <3>2. ASSUME NEW answered \in BOOLEAN, Effect(j, answered)
          PROVE  \E r : /\ completed' = Append(completed, r)
                        /\ KeyVariable # {} => FewRows' /\ ReplyCalm(r)'
      BY <1>1, <1>2, <1>4, <1>5, <2>1, <3>2, EffectCalm
    <3> QED BY <3>1, <3>2 DEF RunJob, j
  <2>3. completed' = <<r>> /\ Len(completed') = 1 /\ completed'[1] = r /\ completed' # <<>>
    BY <2>1, <2>2
  <2>4. \A n \in 1..Len(queue') : FALSE
    BY <2>1
  <2>5. \A n \in 1..Len(completed') : completed'[n] = r
    BY <2>3
  <2>6. ASSUME KeyVariable # {}, NEW n \in 1..Len(completed') PROVE ReplyCalm(completed[n])'
    BY <2>2, <2>5, <2>6
  <2> QED BY <1>3, <2>1, <2>2, <2>3, <2>4, <2>6 DEF Calm, Idle
<1> QED BY <1>1, <1>4, <1>5 DEF CalmInv

\* The reply settles the key variable, or finds it settled; if no script takes it, the key
\* stays what it was.
LEMMA ApplyCalm == ASSUME IInv, CalmInv, Apply PROVE CalmInv'
<1>1. /\ completed # <<>> /\ completed \in Seq(ReplySet) /\ completed' = Tail(completed)
      /\ UNCHANGED <<fields, key, exists, auto, nextId, queue>>
      /\ BindingInv /\ queue \in Seq(JobSet) /\ record \in Records
  BY DEF Apply, serverVars, IInv, JobInv, CalmInv
<1>2. PICK r \in ReplySet : r = Head(completed)
  BY <1>1, TailFacts
<1>3. r = completed[1] /\ 1 \in 1..Len(completed) /\ Len(completed) \in Nat /\ Len(completed) > 0
      /\ Len(completed') = Len(completed) - 1
  BY <1>1, <1>2, TailFacts
<1>4. KeyVariable' = KeyVariable
  BY <1>1 DEF KeyVariable, HasKeyField
<1>5. Applied(r) \/ Unapplied(r)
  BY <1>2 DEF Apply
<1>6. record' \in Records /\ record'.rows = record.rows /\ record'.patient = record.patient
      /\ (record'.answered => record.answered)
  <2>1. CASE Applied(r)
    BY <1>1, <2>1 DEF Applied
  <2>2. CASE Unapplied(r)
    <3>1. (record.answered /\ ~(r.op = "insert" /\ r.succeeded)) \in BOOLEAN
      BY <1>1 DEF Records
    <3> QED BY <1>1, <2>2, <3>1 DEF Unapplied, Records
  <2> QED BY <1>5, <2>1, <2>2
<1>7. ASSUME auto, record.patient PROVE Calm'
  <2>1. Len(completed') = 0 /\ Len(queue) = 0
    <3>1. Len(queue) + Len(completed) <= 1 /\ Len(queue) \in Nat
      BY <1>1, <1>7 DEF CalmInv, Calm
    <3> QED BY <1>3, <3>1
  <2>2. ASSUME KeyVariable # {} PROVE FewRows' /\ Settled'
    <3>1. FewRows /\ ReplyCalm(r)
      BY <1>3, <1>7, <2>2 DEF CalmInv, Calm
    <3>2. FewRows'
      BY <1>6, <3>1 DEF FewRows
    <3>3. /\ HasKeyField /\ key = "id" /\ "id" \in DOMAIN fields /\ fields["id"] \in Variables
          /\ \A c \in DOMAIN fields : c # "id" => fields[c] # fields["id"]
      BY <1>1, <2>2, KeyIs
    <3>4. CASE ~exists
      BY <1>1, <3>2, <3>4 DEF Settled
    <3>5. CASE Unapplied(r)
      <4>1. CASE r.op = "insert" /\ r.succeeded
        <5>1. ~record'.answered /\ mem' = mem
          BY <1>1, <3>5, <4>1 DEF Unapplied, Records
        <5> QED BY <1>1, <1>6, <3>1, <3>2, <4>1, <5>1 DEF Settled, ReplyCalm
      <4>2. CASE ~(r.op = "insert" /\ r.succeeded)
        <5>1. mem' = mem
          BY <3>5 DEF Unapplied
        <5> QED BY <1>1, <1>6, <3>1, <3>2, <4>2, <5>1 DEF Settled, ReplyCalm
      <4> QED BY <4>1, <4>2
    <3>6. CASE Applied(r) /\ exists
      <4>0. record' = record
        BY <3>6 DEF Applied
      <4>1. CASE r.op = "insert" /\ r.succeeded
        <5>1. mem' = [mem EXCEPT ![fields["id"]] = r.insertId]
          BY <3>3, <3>6, <4>1 DEF Applied, WriteKey
        <5>2. mem'[fields["id"]] = r.insertId
          BY <1>1, <3>3, <5>1 DEF BindingInv
        <5> QED BY <1>1, <3>1, <3>2, <4>0, <4>1, <5>2 DEF Settled, ReplyCalm
      <4>2. CASE r.op = "find" /\ r.succeeded /\ r.row # <<>>
        <5>1. WriteRow(r)
          BY <3>6, <4>2 DEF Applied
        <5> DEFINE x == fields["id"]
                   mine == {c \in DOMAIN r.row \intersect DOMAIN fields : fields[c] = x}
        <5>2. mem'[x] = mem[x] \/ \E c \in mine : mem'[x] = r.row[c]
          <6>1. PICK last \in Columns :
                   mem'[x] = IF mine = {} THEN mem[x]
                             ELSE r.row[IF last \in mine THEN last ELSE CHOOSE c \in mine : TRUE]
            BY <3>3, <5>1 DEF WriteRow
          <6>2. (CHOOSE c \in mine : TRUE) \in mine \/ mine = {}
            OBVIOUS
          <6> HIDE DEF mine, x
          <6> QED BY <6>1, <6>2
        <5>3. \A c \in mine : c = "id" /\ "id" \in DOMAIN r.row
          BY <3>3
        <5> HIDE DEF mine, x
        <5>4. mem'[x] = mem[x]
          BY <3>1, <4>2, <5>2, <5>3 DEF ReplyCalm, x
        <5> QED BY <1>1, <3>1, <3>2, <4>0, <4>2, <5>4 DEF Settled, ReplyCalm, x
      <4>3. CASE /\ ~(r.op = "insert" /\ r.succeeded)
                 /\ ~(r.op = "find" /\ r.succeeded /\ r.row # <<>>)
        <5>1. mem' = mem
          <6>1. CASE r.op = "insert"
            BY <3>6, <4>3, <6>1 DEF Applied, WriteKey
          <6>2. CASE r.op = "find"
            BY <3>6, <4>3, <6>2 DEF Applied
          <6>3. CASE r.op \in {"update", "delete"}
            BY <3>6, <4>3, <6>3 DEF Applied
          <6> QED BY <6>1, <6>2, <6>3 DEF ReplySet, Operations
        <5> QED BY <1>1, <3>1, <3>2, <4>0, <4>3, <5>1 DEF Settled, ReplyCalm
      <4> QED BY <4>1, <4>2, <4>3
    <3> QED BY <1>5, <3>4, <3>5, <3>6
  <2>3. \A n \in 1..0 : FALSE
    OBVIOUS
  <2> QED BY <1>1, <1>4, <2>1, <2>2, <2>3 DEF Calm
<1>8. nextId' > 0
  BY <1>1 DEF CalmInv
<1> QED BY <1>1, <1>6, <1>7, <1>8 DEF CalmInv

LEMMA CalmInductive == IInv /\ CalmInv /\ [Next]_vars => CalmInv'
<1> SUFFICES ASSUME IInv, CalmInv, [Next]_vars PROVE CalmInv'
  OBVIOUS
<1>1. CASE Script
  <2>1. ASSUME Touch, exists' => exists PROVE CalmInv'
    BY <2>1, TouchCalm
  <2>2. ASSUME NEW op \in Operations, Execute(op) PROVE CalmInv'
    BY <2>2, ExecuteCalm
  <2>3. ASSUME Save PROVE CalmInv'
    BY <2>2, <2>3 DEF Save, Operations
  <2>4. ASSUME NEW x \in Variables, NEW n \in Assigned, Assign(x, n) PROVE Touch /\ (exists' => exists)
    BY <2>4, Zenon DEF Assign, modelVars
  <2>5. ASSUME NEW x \in Variables, NEW c \in Columns, Bind(c, x) PROVE Touch /\ (exists' => exists)
    BY <2>5, Zenon DEF Bind
  <2>6. ASSUME ClearFields \/ SetKey \/ Destroy PROVE Touch /\ (exists' => exists)
    BY <2>6, Zenon DEF ClearFields, SetKey, Destroy
  <2>7. ASSUME NEW c \in Columns, Unbind(c) PROVE Touch /\ (exists' => exists)
    BY <2>7, Zenon DEF Unbind
  <2> QED BY <1>1, <2>1, <2>2, <2>3, <2>4, <2>5, <2>6, <2>7 DEF Script
<1>2. CASE CloseConnection \/ LoadMain \/ UNCHANGED vars
  <2>1. UNCHANGED <<mem, fields, key, exists, auto, nextId, queue, completed, record>>
    BY <1>2 DEF CloseConnection, LoadMain, vars, modelVars, serverVars, jobVars
  <2> QED BY <2>1 DEF CalmInv, Calm, FewRows, Idle, Settled, JobCalm, ReplyCalm, KeyVariable, HasKeyField
<1>3. CASE Reset
  <2>1. UNCHANGED <<auto, nextId, queue, completed, record>> /\ KeyVariable' = {}
    BY <1>3 DEF Reset, serverVars, jobVars, KeyVariable, HasKeyField
  <2> QED BY <2>1 DEF CalmInv, Calm
<1> QED BY <1>1, <1>2, <1>3, RunCalm, ApplyCalm DEF Next

\* A script that waits for each reply before the next operation: its key variable never leaves
\* its record, whatever is rebound, found, deleted or destroyed, and whatever fails; and as long
\* as the key of each row was brought back, buildInsert has run at most once for the record.
THEOREM OneRowCorrect == Spec => []OneRowPerRecord
<1>1. Init => CalmInv
  <2> SUFFICES ASSUME Init PROVE CalmInv
    OBVIOUS
  <2>1. /\ record = [rows |-> {}, patient |-> TRUE, answered |-> TRUE]
        /\ queue = <<>> /\ completed = <<>> /\ nextId = 2
    BY DEF Init, Fresh
  <2> QED BY <2>1 DEF CalmInv, Calm, FewRows, Settled, Records
<1>2. CalmInv => OneRowPerRecord
  <2> SUFFICES ASSUME CalmInv, Patient PROVE OneRowPerRecord
    BY DEF OneRowPerRecord
  <2>1. Calm /\ KeyVariable # {}
    BY DEF CalmInv, Patient
  <2>2. ASSUME record.answered PROVE Cardinality(record.rows) <= 1
    <3>1. \A i, k \in record.rows : i = k
      BY <2>1, <2>2 DEF Calm, FewRows
    <3>2. CASE record.rows = {}
      BY <3>2, FS_EmptySet
    <3>3. CASE record.rows # {}
      <4>1. PICK i \in record.rows : record.rows = {i}
        BY <3>1, <3>3
      <4>2. Cardinality({i}) = 1
        BY FS_Singleton
      <4> QED BY <4>1, <4>2
    <3> QED BY <3>2, <3>3
  <2>3. ASSUME exists, Idle, record.rows # {}
        PROVE  mem[fields["id"]] \in record.rows \union (IF record.answered THEN {} ELSE {0})
    <3>1. Settled
      BY <2>1, <2>3 DEF Calm
    <3> QED BY <2>3, <3>1 DEF Settled
  <2>4. ASSUME NEW n \in DOMAIN completed, completed[n].op = "find", "id" \in DOMAIN completed[n].row
        PROVE  completed[n].row["id"] = mem[fields["id"]]
    <3>1. Len(completed) \in Nat /\ Len(queue) \in Nat
      BY <2>1 DEF Calm
    <3> QED BY <2>1, <2>4 DEF Calm, ReplyCalm
  <2> QED BY <2>2, <2>3, <2>4 DEF OneRowPerRecord
<1> QED BY <1>1, <1>2, CalmInductive, Invariance, PTL DEF Spec
=============================================================================
