---------------------------- MODULE ModelRecord ----------------------------
(***************************************************************************)
(* One active-record model (Model.cpp, the mysql_model_* natives and       *)
(* applyModelResult): the script variables bound to its columns, the jobs  *)
(* it submits, the table they run on and the replies that write back.      *)
(*                                                                         *)
(* The table has two columns: "id", its primary key, and "v".  The jobs    *)
(* run in order on one connection (ConnectionWorker) and their replies are *)
(* dispatched in order (ConnectionRegistry).  A job that enqueueJob        *)
(* rejects changes nothing here (QueryGuards).                             *)
(***************************************************************************)
EXTENDS Naturals, Sequences, FiniteSets, Functions

CONSTANTS
  Variables,  \* global variables of the script
  Null,       \* SQL's NULL
  MaxId,      \* bound on the keys and values the script assigns
  MaxJobs,    \* bound on the jobs submitted
  MaxTouches  \* bound on what else the script does with the model and its variables

Columns == {"id", "v"}
Values == Nat
Assigned == 0..MaxId

ASSUME ModelRecordAssumption ==
  /\ MaxId \in Nat /\ MaxJobs \in Nat /\ MaxTouches \in Nat
  /\ Null \notin Values

None == "none"
Operations == {"find", "insert", "update", "delete"}

VARIABLES
  mem,        \* the script's variables
  fields,     \* fields_ : column -> variable, for the columns bound
  key,        \* key_ : the key column, or None
  errno,      \* lastError_
  exists,     \* the model's handle is valid
  open,       \* its connection is open
  mainLoaded, \* is there a gamemode?
  auto,       \* the table's key is AUTO_INCREMENT
  rows,       \* the table: id -> v
  nextId,     \* its AUTO_INCREMENT counter
  queue,      \* jobs on the worker
  completed,  \* replies waiting for the tick
  submitted, touches,  \* counted against the bounds
  record,     \* history: the rows inserted for the record the key variable stands for, whether
              \* the script waited for each reply, and whether each row's key was brought back
  shown       \* history: <<id, v>> the script's variables held together in an operation

modelVars == <<fields, key, errno, exists>>
serverVars == <<auto, rows, nextId>>
jobVars == <<queue, completed, submitted>>
worldVars == <<open, mainLoaded>>
vars == <<mem, modelVars, worldVars, serverVars, jobVars, touches, record, shown>>

\* f with k mapped to v.
Put(f, k, v) == [x \in DOMAIN f \union {k} |-> IF x = k THEN v ELSE f[x]]

Fresh(patient) == [rows |-> {}, patient |-> patient, answered |-> TRUE]
Idle == queue = <<>> /\ completed = <<>>

\* Any bindings that a script sets up before its first operation.
Init ==
  /\ mem = [x \in Variables |-> 0]
  /\ fields \in UNION {[C -> Variables] : C \in SUBSET Columns}
  /\ key \in {None, "id"}
  /\ errno = "Ok" /\ exists = TRUE /\ open = TRUE /\ mainLoaded \in BOOLEAN
  /\ auto \in BOOLEAN
  /\ rows = [i \in {IF auto THEN 1 ELSE 0} |-> 1]
  /\ nextId = 2
  /\ queue = <<>> /\ completed = <<>> /\ submitted = 0 /\ touches = 0
  /\ record = Fresh(TRUE)
  /\ shown = {<<i, rows[i]>> : i \in DOMAIN rows}

-----------------------------------------------------------------------------
(* Bindings                                                                *)

\* keyField() is a bound column.
HasKeyField == key # None /\ key \in DOMAIN fields

\* The key variable, when it is bound to nothing else.
KeyVariable == IF HasKeyField THEN {fields["id"]} \ {fields[c] : c \in DOMAIN fields \ {"id"}} ELSE {}

\* The script touches the model: when its key variable is now another one or has another
\* value, the script has taken up another record.
Touch ==
  /\ touches < MaxTouches
  /\ touches' = touches + 1
  /\ record' = IF KeyVariable' # KeyVariable \/ \E x \in KeyVariable : mem'[x] # mem[x]
                 THEN Fresh(Idle) ELSE record
  /\ UNCHANGED <<worldVars, serverVars, jobVars, shown>>

\* The script assigns to one of its variables.
Assign(x, n) ==
  /\ mem' = [mem EXCEPT ![x] = n]
  /\ UNCHANGED modelVars
  /\ Touch

\* mysql_model_bind_int, upsertField: a column is bound once.
Bind(c, x) ==
  /\ exists
  /\ fields' = Put(fields, c, x)
  /\ UNCHANGED <<mem, key, errno, exists>>
  /\ Touch

\* mysql_model_unbind.
Unbind(c) ==
  /\ exists /\ c \in DOMAIN fields
  /\ fields' = Restrict(fields, DOMAIN fields \ {c})
  /\ UNCHANGED <<mem, key, errno, exists>>
  /\ Touch

\* mysql_model_clear.
ClearFields ==
  /\ exists
  /\ fields' = <<>>
  /\ UNCHANGED <<mem, key, errno, exists>>
  /\ Touch

\* mysql_model_set_key.
SetKey ==
  /\ exists
  /\ key' = "id"
  /\ UNCHANGED <<mem, fields, errno, exists>>
  /\ Touch

\* mysql_model_destroy: jobs on their way keep the handle.
Destroy ==
  /\ exists
  /\ exists' = FALSE
  /\ UNCHANGED <<mem, fields, key, errno>>
  /\ Touch

\* mysql_close: removeConnection waits until the worker has drained its queue.
CloseConnection ==
  /\ open /\ queue = <<>>
  /\ open' = FALSE
  /\ UNCHANGED <<mem, modelVars, mainLoaded, serverVars, jobVars, touches, record, shown>>

\* reset: the gamemode is gone, and with it every model and connection, a filterscript's too.
Reset ==
  /\ exists /\ queue = <<>>
  /\ exists' = FALSE /\ fields' = <<>> /\ key' = None /\ errno' = "Ok"
  /\ open' = FALSE /\ mainLoaded' = FALSE
  /\ UNCHANGED <<mem, serverVars, jobVars, touches, record, shown>>

\* The server loads a gamemode.
LoadMain ==
  /\ ~mainLoaded /\ mainLoaded' = TRUE
  /\ UNCHANGED <<mem, modelVars, open, serverVars, jobVars, touches, record, shown>>

-----------------------------------------------------------------------------
(* Operations                                                              *)

\* ModelFieldLiteral of every bound column.
Literals == [c \in DOMAIN fields |-> mem[fields[c]]]

\* Variant: an unbound key is rendered as zero.
KeyLiteralOrZero == IF HasKeyField THEN mem[fields[key]] ELSE 0

\* The key literal; NULL when the key column is not bound.
KeyLiteral == IF HasKeyField THEN mem[fields[key]] ELSE Null

\* buildFind, buildInsert, buildUpdate and buildDelete return a statement.
CanBuild(op) ==
  /\ op \in {"find", "insert"} => DOMAIN fields # {}
  /\ op = "update" => DOMAIN fields \ {key} # {}
  /\ op # "insert" => key # None

\* ModelExecute: values and key are read now.
Execute(op) ==
  /\ exists /\ submitted < MaxJobs
  /\ IF open /\ CanBuild(op)
       THEN /\ queue' = Append(queue, [op |-> op, values |-> Literals, key |-> KeyLiteral])
            /\ submitted' = submitted + 1
            /\ record' = [record EXCEPT !.patient = @ /\ Idle]
            /\ shown' = IF op = "update" /\ HasKeyField
                          THEN shown \union {<<mem[fields["id"]], mem[fields["v"]]>>} ELSE shown
            /\ UNCHANGED <<completed, errno>>
       ELSE errno' = "Invalid" /\ UNCHANGED <<jobVars, record, shown>>
  /\ UNCHANGED <<mem, fields, key, exists, worldVars, serverVars, touches>>

\* mysql_model_save.
Save == Execute(IF HasKeyField /\ mem[fields[key]] # 0 THEN "update" ELSE "insert")

-----------------------------------------------------------------------------
(* The server                                                              *)

\* The id an INSERT of these values gives its row.
InsertedId(values) ==
  IF "id" \in DOMAIN values /\ values["id"] # 0 THEN values["id"]
  ELSE IF auto THEN nextId ELSE 0
Inserted(values) == IF "v" \in DOMAIN values THEN values["v"] ELSE 0

\* The table after an UPDATE: the key column is not in the SET list.
Updated(values, k) == [rows EXCEPT ![k] = values["v"]]

Reply(j, ok, id, row) == [op |-> j.op, succeeded |-> ok, insertId |-> id, row |-> row]

\* The statement takes effect; answered unless the reply is lost.
Effect(j, answered) ==
  /\ LET k == j.key
         i == InsertedId(j.values)
         Answer(id, row) == completed' = Append(completed, Reply(j, answered, id, row))
     IN \/ /\ j.op = "insert" /\ i \notin DOMAIN rows
           /\ rows' = Put(rows, i, Inserted(j.values))
           /\ nextId' = IF i >= nextId THEN i + 1 ELSE nextId
           /\ record' = [record EXCEPT !.rows = @ \union {i}, !.answered = @ /\ answered]
           /\ shown' = shown \union {<<i, Inserted(j.values)>>}
           /\ Answer(IF auto THEN i ELSE 0, <<>>)
        \/ /\ j.op = "update"
           /\ rows' = IF k \in DOMAIN rows THEN Updated(j.values, k) ELSE rows
           /\ Answer(0, <<>>) /\ UNCHANGED <<nextId, record, shown>>
        \/ /\ j.op = "delete"
           /\ rows' = Restrict(rows, DOMAIN rows \ {k})
           /\ Answer(0, <<>>) /\ UNCHANGED <<nextId, record, shown>>
        \/ /\ j.op = "find"
           /\ Answer(0, IF k \in DOMAIN rows
                          THEN [c \in DOMAIN j.values |-> IF c = "id" THEN k ELSE rows[k]] ELSE <<>>)
           /\ UNCHANGED <<rows, nextId, record, shown>>

\* The statement fails: a duplicate key, a lock, a lost connection.
Failure(j) ==
  /\ completed' = Append(completed, Reply(j, FALSE, 0, <<>>))
  /\ UNCHANGED <<rows, nextId, record, shown>>

\* Variant: a job that failed is answered and tried again.
RunJobRetrying ==
  /\ queue # <<>>
  /\ \/ queue' = Tail(queue) /\ Effect(Head(queue), TRUE)
     \/ queue' = queue /\ Failure(Head(queue))
  /\ UNCHANGED <<mem, modelVars, worldVars, auto, submitted, touches>>

\* The worker runs its oldest job.
RunJob ==
  /\ queue # <<>>
  /\ queue' = Tail(queue)
  /\ Effect(Head(queue), TRUE) \/ Effect(Head(queue), FALSE) \/ Failure(Head(queue))
  /\ UNCHANGED <<mem, modelVars, worldVars, auto, submitted, touches>>

-----------------------------------------------------------------------------
(* The tick                                                                *)

\* Variant: the id is written back although the INSERT failed.
WriteKeyAlways(r) ==
  mem' = IF HasKeyField THEN [mem EXCEPT ![fields[key]] = r.insertId] ELSE mem

\* An INSERT's id is written to the key variable.
WriteKey(r) ==
  mem' = IF HasKeyField /\ r.succeeded THEN [mem EXCEPT ![fields[key]] = r.insertId] ELSE mem

\* Variant: columns of the reply that are bound no more are written to the first variable.
WriteRowStale(r) ==
  mem' = [x \in Variables |-> IF \E c \in DOMAIN r.row : c \notin DOMAIN fields \/ fields[c] = x
                                THEN r.row[CHOOSE c \in DOMAIN r.row : c \notin DOMAIN fields \/ fields[c] = x]
                                ELSE mem[x]]

\* A FIND's row is written to the variables bound now to the columns it has.  When one variable is
\* bound to both, either comes last.
WriteRow(r) ==
  \E last \in Columns :
    mem' = [x \in Variables |->
              LET mine == {c \in DOMAIN r.row \intersect DOMAIN fields : fields[c] = x}
              IN IF mine = {} THEN mem[x]
                 ELSE r.row[IF last \in mine THEN last ELSE CHOOSE c \in mine : TRUE]]

\* dispatchJob: without a gamemode, and without a script that has the callback, there is no
\* AMX, and it returns before applyModelResult.
Unapplied(r) ==
  /\ ~mainLoaded
  /\ record' = [record EXCEPT !.answered = @ /\ ~(r.op = "insert" /\ r.succeeded)]
  /\ UNCHANGED <<mem, errno>>

\* applyModelResult
Applied(r) ==
  /\ UNCHANGED record
  /\ IF ~exists THEN UNCHANGED <<mem, errno>>
     ELSE CASE r.op = "insert" ->
                 /\ WriteKey(r)
                 /\ errno' = IF r.succeeded THEN "Ok" ELSE "Invalid"
            [] r.op \in {"update", "delete"} ->
                 /\ errno' = IF r.succeeded THEN "Ok" ELSE "Invalid"
                 /\ UNCHANGED mem
            [] r.op = "find" ->
                 IF r.succeeded /\ r.row # <<>>
                   THEN WriteRow(r) /\ errno' = "Ok"
                   ELSE errno' = "NoData" /\ UNCHANGED mem

\* dispatchJob
Apply ==
  /\ completed # <<>>
  /\ completed' = Tail(completed)
  /\ Applied(Head(completed)) \/ Unapplied(Head(completed))
  /\ UNCHANGED <<fields, key, exists, worldVars, serverVars, queue, submitted, touches, shown>>

Script ==
  \/ \E x \in Variables : (\E n \in Assigned : Assign(x, n)) \/ \E c \in Columns : Bind(c, x)
  \/ \E c \in Columns : Unbind(c)
  \/ ClearFields \/ SetKey \/ Destroy
  \/ \E op \in Operations : Execute(op)
  \/ Save

Next == Script \/ CloseConnection \/ Reset \/ LoadMain \/ RunJob \/ Apply

Spec == Init /\ [][Next]_vars

-----------------------------------------------------------------------------
(* What is promised                                                        *)

\* Types; the table's counter is ahead of its keys.
TypeOK ==
  /\ mem \in [Variables -> Values]
  /\ DOMAIN fields \subseteq Columns /\ Range(fields) \subseteq Variables
  /\ errno \in {"Ok", "NoData", "Invalid"}
  /\ DOMAIN rows \subseteq Values /\ \A i \in DOMAIN rows : i < nextId /\ rows[i] \in Values
  /\ Len(queue) + Len(completed) <= submitted

Patient == auto /\ record.patient /\ KeyVariable # {}

\* mysql_model_save is an upsert for a script that waits for each reply.  If the key of each
\* row it inserted was brought back, it has one row for its record however often it saved it, and
\* its key variable names that row.  If a reply was lost, or came while no script could take it,
\* there may be two; the key is then that of one of them, or unset, and never of another record.
\* A find brings the row the key variable still names.
OneRowPerRecord ==
  Patient =>
    /\ record.answered => Cardinality(record.rows) <= 1
    /\ (exists /\ Idle /\ record.rows # {}) =>
         mem[fields["id"]] \in record.rows \union (IF record.answered THEN {} ELSE {0})
    /\ exists => \A i \in DOMAIN completed :
         LET r == completed[i] IN
         r.op = "find" /\ "id" \in DOMAIN r.row => r.row["id"] = mem[fields["id"]]

\* Rows are only written with what the script's variables held together: no operation
\* writes the values of one record into the row of another, and one without a bound key
\* writes to no row.
RowsHoldTogether == \A i \in DOMAIN rows : <<i, rows[i]>> \in shown

\* A reply is written to no variable unbound since its operation was submitted, and to none
\* when the model is destroyed.
RepliesWriteBoundOnly ==
  [][Len(completed') < Len(completed) =>
       \A x \in Variables : mem'[x] # mem[x] => exists /\ x \in Range(fields)]_vars

-----------------------------------------------------------------------------
(* What the documentation says, and the code does not do                   *)

\* "Upsert: INSERT if the key is unset/zero, otherwise UPDATE the keyed row" (omp-mysql.inc):
\* whatever happens to the replies, a record saved again is not inserted again.
SaveIsAnUpsert == auto /\ KeyVariable # {} => Cardinality(record.rows) <= 1
=============================================================================
