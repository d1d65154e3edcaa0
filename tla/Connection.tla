----------------------------- MODULE Connection -----------------------------
(***************************************************************************)
(* One connection to the MySQL server: DoConnect with Connection::open and *)
(* the check that the link is encrypted, the queries the worker runs on it *)
(* result set by result set, and the natives that call libmysqlclient for  *)
(* it on the main thread.                                                  *)
(*                                                                         *)
(* libmysqlclient and the server are external: a MYSQL handle is `link`,   *)
(* `status`, `more` and `errno`; `wire` is what the server has sent and    *)
(* the client has not read.  Calls of the library are the steps, so that   *)
(* the two threads interleave between them.                                *)
(***************************************************************************)
EXTENDS Integers, Sequences

CONSTANTS
    MaxJobs,       \* queries given to the worker
    MaxResults,    \* results one query can produce (statements, or a CALL)
    MaxConnects,   \* calls of mysql_connect and mysql_connect_config
    MaxCalls       \* calls of the library on the main thread

ASSUME BoundsAssumption ==
    /\ MaxJobs \in Nat
    /\ MaxResults \in Nat \ {0}
    /\ MaxConnects \in Nat /\ MaxCalls \in Nat

VARIABLES
    conn,         \* the Connection object: none, being checked, refused, registered
    link,         \* the transport under the handle
    status,       \* the handle: ready, or a result set is to be stored
    more,         \* the server announced another result
    errno,        \* what mysql_errno of the handle says
    wire,         \* results sent and not read, the one being stored first
    wpc,          \* place of the worker thread
    job,          \* the job the worker has: its number and its kind
    sets,         \* out.sets of the job
    succeeded,    \* what queryBuffered or execute returned
    stmtErrno,    \* what mysql_stmt_errno of the job's statement says
    cipherKnown,  \* the client library can tell the cipher of a link that is up
    counts        \* how much of each bound is used up

\* History: read by the properties and by no guard.
VARIABLES
    trusted,      \* the link is encrypted and the server verified as was asked
    did,          \* what the server did with the job, result by result
    fetchFailed,  \* mysql_store_result failed during the job
    reply,        \* the job as the last reply carries it
    overlapped,   \* the main thread used the handle during a job
    called        \* a prepared statement produced more than one result

handleVars == <<link, status, more, errno, wire>>
workerVars == <<wpc, job, sets, succeeded, stmtErrno, fetchFailed, reply>>
openVars   == <<conn, trusted, cipherKnown>>
vars == <<handleVars, workerVars, openVars, counts, did,
          overlapped, called>>

Modes == 0 .. 2                     \* SSLMode: Required, VerifyCA, VerifyIdentity
Options == [sslMode : Modes, sslCA : BOOLEAN, sslCAPath : BOOLEAN]   \* given, or ""
Defaults == [sslMode |-> 1, sslCA |-> FALSE, sslCAPath |-> FALSE]
Peers == [tls : BOOLEAN, good : BOOLEAN]
Kinds == {"query", "statement"}
Codes == {"none", "server", "lost", "sync"}
Set == [rows : BOOLEAN, of : 0 .. MaxJobs]
Bounds == [jobs |-> MaxJobs, connects |-> MaxConnects, calls |-> MaxCalls]
NoReply == [job |-> 0, kind |-> "query", succeeded |-> FALSE, code |-> "none",
            sets |-> <<>>, fetchFailed |-> FALSE, link |-> "up"]

Use(c) == counts[c] < Bounds[c] /\ counts' = [counts EXCEPT ![c] = @ + 1]

\* What the server can do with a query of n results: all of them, or as many as
\* precede an error; "broken" is an error among the rows of a result set.
Outcomes(n) ==
    {o \in UNION {[1 .. k -> {"ok", "rows", "error", "broken"}] : k \in 1 .. n} :
        /\ \A i \in 1 .. Len(o) - 1 : o[i] \in {"ok", "rows"}
        /\ Len(o) < n => o[Len(o)] \in {"error", "broken"}}
Results == UNION {Outcomes(n) : n \in 1 .. MaxResults}
Sent(o, of) == [i \in 1 .. Len(o) |-> [what |-> o[i], of |-> of]]

Init ==
    /\ conn = "none" /\ trusted = FALSE
    /\ link = "lost" /\ status = "ready" /\ more = FALSE
    /\ errno = "none" /\ wire = <<>>
    /\ wpc = "idle" /\ job = [id |-> 0, kind |-> "query"]
    /\ sets = <<>> /\ succeeded = FALSE /\ stmtErrno = "none"
    /\ fetchFailed = FALSE /\ reply = NoReply
    /\ cipherKnown \in BOOLEAN
    /\ counts = [c \in DOMAIN Bounds |-> 0]
    /\ did = <<>> /\ overlapped = FALSE /\ called = FALSE
-----------------------------------------------------------------------------
(* libmysqlclient, as the code uses it. *)

\* The library closes a command it cannot send: an earlier result is unread.
OutOfSync == status # "ready" \/ more

\* The next result of w arrives: an error ends the query, rows wait to be stored.
ReadResult(w) ==
    LET what == Head(w).what IN
    /\ wire' = IF what \in {"rows", "broken"} THEN w ELSE Tail(w)
    /\ status' = IF what \in {"rows", "broken"} THEN "result" ELSE "ready"
    /\ more' = (Len(w) > 1)
    /\ errno' = IF what = "error" THEN "server" ELSE "none"

\* A command reaches the server if the link is up and the library sends it.
Reaches == link = "up" /\ ~OutOfSync

\* The command fails: the link is gone, the library refuses it, the link breaks
\* before the answer is read, or the server answers with an error.  The server
\* does o if the command reaches it.
CommandFails(o, of) ==
    \/ /\ link = "lost"
       /\ errno' = "lost" /\ UNCHANGED <<link, status, more, wire>>
    \/ /\ link = "up" /\ OutOfSync
       /\ errno' = "sync" /\ UNCHANGED <<link, status, more, wire>>
    \/ /\ Reaches
       /\ link' = "lost" /\ errno' = "lost" /\ UNCHANGED <<status, more, wire>>
    \/ /\ Reaches /\ o[1] = "error"
       /\ ReadResult(Sent(o, of)) /\ UNCHANGED link

CommandSucceeds(o, of) ==
    Reaches /\ o[1] # "error" /\ ReadResult(Sent(o, of)) /\ UNCHANGED link

\* mysql_store_result and mysql_stmt_store_result: NULL when there is nothing to
\* store, and NULL as well when the rows do not arrive.
NothingToStore == status = "ready" /\ UNCHANGED handleVars
StoreFails ==
    /\ status = "result"
    /\ status' = "ready"
    /\ \/ /\ link = "lost"
          /\ errno' = "lost" /\ wire' = Tail(wire) /\ UNCHANGED <<link, more>>
       \/ /\ link = "up" /\ Head(wire).what = "broken"
          /\ errno' = "server" /\ wire' = <<>> /\ more' = FALSE /\ UNCHANGED link
StoreSucceeds ==
    /\ status = "result" /\ link = "up" /\ Head(wire).what = "rows"
    /\ status' = "ready" /\ wire' = Tail(wire)
    /\ UNCHANGED <<link, more, errno>>

\* mysql_next_result: -1, > 0 and 0.
NoMoreResults ==
    /\ status = "ready" /\ ~more
    /\ errno' = "none" /\ UNCHANGED <<link, status, more, wire>>
NextResultFails ==
    \/ /\ status # "ready"
       /\ errno' = "sync" /\ UNCHANGED <<link, status, more, wire>>
    \/ /\ status = "ready" /\ more /\ link = "lost"
       /\ errno' = "lost" /\ UNCHANGED <<link, status, more, wire>>
    \/ /\ status = "ready" /\ more /\ link = "up"
       /\ Head(wire).what = "error"
       /\ ReadResult(wire) /\ UNCHANGED link
NextResultArrives ==
    /\ status = "ready" /\ more /\ link = "up"
    /\ Head(wire).what # "error"
    /\ ReadResult(wire) /\ UNCHANGED link

\* The link breaks by itself, or stays silent longer than a timeout allows.
LoseLink ==
    /\ conn # "none" /\ link = "up"
    /\ link' = "lost"
    /\ UNCHANGED <<workerVars, openVars, status, more, errno, wire,
                   counts, did, overlapped, called>>
-----------------------------------------------------------------------------
(* Opening a connection. *)

\* mysql_config_set, and the lines of a configuration file: a mode out of range
\* is ignored; the options no property reads leave the record as it is.
ApplyMode(o, v) == [o EXCEPT !.sslMode = IF v \in Modes THEN v ELSE @]
ApplyCA(o, given) == [o EXCEPT !.sslCA = given]
ApplyCAPath(o, given) == [o EXCEPT !.sslCAPath = given]

\* The sets a script can build, or a file give: those of three calls.
Configured(o) ==
    {ApplyMode(o, v) : v \in -1 .. 3}
        \cup UNION {{ApplyCA(o, given), ApplyCAPath(o, given)} : given \in BOOLEAN}
Twice == UNION {Configured(o) : o \in Configured(Defaults)}
Asked == {Defaults} \cup UNION {Configured(o) : o \in Twice}

\* Variant: only a CA file counts, not a directory of them.
effectiveModeOfFile(o) == IF o.sslCA /\ o.sslMode # 2 THEN 1 ELSE o.sslMode

\* A CA, given as a file or as a directory, always means that it is verified.
HasCA(o) == o.sslCA \/ o.sslCAPath
effectiveSSLMode(o) == IF HasCA(o) /\ o.sslMode # 2 THEN 1 ELSE o.sslMode

\* mysql_real_connect with MYSQL_OPT_SSL_ENFORCE and, for both verifying modes,
\* MYSQL_OPT_SSL_VERIFY_SERVER_CERT.
Accepts(o, p) == p.tls /\ (effectiveSSLMode(o) \in {1, 2} => p.good)

\* What the options ask of the server: to be verified with a CA, or in a
\* verifying mode.
MustVerify(o) == HasCA(o) \/ o.sslMode # 0

\* mysql_connect, mysql_connect_config: a stored set or the defaults, a fresh
\* handle.  A Connection that does not open (refused, no server) is destroyed.
mysql_connect ==
    /\ conn = "none" /\ Use("connects")
    /\ \/ UNCHANGED <<conn, trusted, handleVars>>
       \/ \E o \in Asked, p \in Peers :
            /\ Accepts(o, p)
            /\ conn' = "checking" /\ trusted' = (p.tls /\ (MustVerify(o) => p.good))
            /\ link' = "up" /\ status' = "ready" /\ more' = FALSE
            /\ errno' = "none" /\ wire' = <<>>
    /\ UNCHANGED <<workerVars, cipherKnown, did, overlapped, called>>

\* sslCipher where the client knows it: no command is sent.
ConfirmCipher ==
    /\ conn = "checking" /\ cipherKnown
    /\ conn' = "registered"
    /\ UNCHANGED <<handleVars, workerVars, trusted, cipherKnown, counts, did,
                   overlapped, called>>

\* sslCipher where it does not, in DoConnect, and in mysql_get_tls_cipher and
\* mysql_is_tls_enabled after the link was lost: the server is asked, with 36 of
\* the 37 bytes of the query.  It answers the open quote with a syntax error.
AskCipher ==
    /\ \/ conn = "checking" /\ ~cipherKnown /\ conn' = "refused" /\ UNCHANGED counts
       \/ conn = "registered" /\ link = "lost" /\ UNCHANGED conn /\ Use("calls")
    /\ CommandFails(<<"error">>, 0)
    /\ overlapped' = (overlapped \/ wpc # "idle")
    /\ UNCHANGED <<workerVars, trusted, cipherKnown, did, called>>

\* ~Connection; the next one has a handle, and histories, of its own.
Destroy ==
    /\ conn' = "none" /\ link' = "lost" /\ status' = "ready" /\ more' = FALSE
    /\ errno' = "none" /\ wire' = <<>>
    /\ trusted' = FALSE /\ did' = <<>> /\ reply' = NoReply
    /\ overlapped' = FALSE /\ called' = FALSE
    /\ UNCHANGED <<wpc, job, sets, succeeded, stmtErrno, fetchFailed,
                   cipherKnown, counts>>

\* DoConnect: no cipher, no connection.
RefuseConnection == conn = "refused" /\ Destroy

\* mysql_set_charset and mysql_server_status: a command and its one answer.
DirectCommand ==
    /\ conn = "registered" /\ Use("calls")
    /\ overlapped' = (overlapped \/ wpc # "idle")
    /\ \E o \in {<<"ok">>, <<"error">>} : CommandSucceeds(o, 0) \/ CommandFails(o, 0)
    /\ UNCHANGED <<workerVars, openVars, did, called>>

\* mysql_close, reset() and free() join the worker and destroy the connection.
mysql_close == conn = "registered" /\ wpc = "idle" /\ Destroy
-----------------------------------------------------------------------------
(* The worker. *)

\* The worker takes a job and sends it: mysql_real_query, or the calls up to
\* mysql_stmt_execute.  connected_ stays set when the link is lost.
Begin(kind, o) ==
    /\ wpc = "idle" /\ conn = "registered" /\ Use("jobs")
    /\ job' = [id |-> counts'.jobs, kind |-> kind]
    /\ did' = IF Reaches THEN o ELSE <<>>
    /\ fetchFailed' = FALSE
    /\ UNCHANGED <<openVars, reply, overlapped>>

NoRows == [rows |-> FALSE, of |-> 0]

QueryBuffered ==
    \E o \in Results :
        /\ Begin("query", o)
        /\ sets' = <<>>
        /\ \/ CommandFails(o, job'.id) /\ succeeded' = FALSE /\ wpc' = "reply"
           \/ CommandSucceeds(o, job'.id) /\ wpc' = "store" /\ UNCHANGED succeeded
        /\ UNCHANGED <<stmtErrno, called>>

StoreResult ==
    /\ wpc = "store" /\ job.kind = "query"
    /\ \/ NothingToStore /\ sets' = Append(sets, NoRows) /\ UNCHANGED fetchFailed
       \/ StoreFails /\ sets' = Append(sets, NoRows) /\ fetchFailed' = TRUE
       \/ /\ StoreSucceeds
          /\ sets' = Append(sets, [rows |-> TRUE, of |-> Head(wire).of])
          /\ UNCHANGED fetchFailed
    /\ wpc' = "next"
    /\ UNCHANGED <<openVars, counts, did, overlapped, called, job,
                   succeeded, stmtErrno, reply>>

\* Variant: the first result only, as in a client without multi-statements.
NextResultIgnored ==
    /\ wpc = "next" /\ succeeded' = TRUE /\ wpc' = "reply"
    /\ UNCHANGED <<handleVars, openVars, counts, did, overlapped, called, job,
                   sets, stmtErrno, fetchFailed, reply>>

\* Variant: the loop ends, and so the query was a success.
NextErrorIgnored ==
    /\ wpc = "next"
    /\ \/ (NoMoreResults \/ NextResultFails) /\ succeeded' = TRUE /\ wpc' = "reply"
       \/ NextResultArrives /\ wpc' = "store" /\ UNCHANGED succeeded
    /\ UNCHANGED <<openVars, counts, did, overlapped, called, job,
                   sets, stmtErrno, fetchFailed, reply>>

\* Variant: mysql_next_result is called again until the link is back.
NextErrorRetried ==
    /\ wpc = "next"
    /\ \/ NoMoreResults /\ succeeded' = TRUE /\ wpc' = "reply"
       \/ NextResultFails /\ errno' # "lost" /\ succeeded' = FALSE /\ wpc' = "reply"
       \/ NextResultFails /\ errno' = "lost" /\ UNCHANGED <<succeeded, wpc>>
       \/ NextResultArrives /\ wpc' = "store" /\ UNCHANGED succeeded
    /\ UNCHANGED <<openVars, counts, did, overlapped, called, job,
                   sets, stmtErrno, fetchFailed, reply>>

NextResult ==
    /\ wpc = "next"
    /\ \/ NoMoreResults /\ succeeded' = TRUE /\ wpc' = "reply"
       \/ NextResultFails /\ succeeded' = FALSE /\ wpc' = "reply"
       \/ NextResultArrives /\ wpc' = "store" /\ UNCHANGED succeeded
    /\ UNCHANGED <<openVars, counts, did, overlapped, called, job,
                   sets, stmtErrno, fetchFailed, reply>>

\* execute() of a statement: the first result only, and no mysql_stmt_next_result.
Execute ==
    \E o \in Results :
        /\ Begin("statement", o)
        /\ \/ /\ CommandFails(o, job'.id)
              /\ sets' = <<>> /\ succeeded' = FALSE /\ stmtErrno' = errno' /\ wpc' = "reply"
           \/ /\ CommandSucceeds(o, job'.id) /\ o[1] = "ok" /\ stmtErrno' = "none"
              /\ sets' = <<NoRows>> /\ succeeded' = TRUE /\ wpc' = "reply"
           \/ /\ CommandSucceeds(o, job'.id) /\ o[1] # "ok" /\ stmtErrno' = "none"
              /\ sets' = <<>> /\ wpc' = "store" /\ UNCHANGED succeeded
        /\ called' = (called \/ Len(o) > 1)

StoreStatementResult ==
    /\ wpc = "store" /\ job.kind = "statement"
    /\ \/ /\ StoreSucceeds
          /\ sets' = <<[rows |-> TRUE, of |-> Head(wire).of]>> /\ succeeded' = TRUE
          /\ UNCHANGED <<stmtErrno, fetchFailed>>
       \/ /\ StoreFails
          /\ succeeded' = FALSE /\ stmtErrno' = errno' /\ fetchFailed' = TRUE /\ UNCHANGED sets
       \/ /\ status = "ready" /\ stmtErrno' = "sync"
          /\ succeeded' = FALSE /\ UNCHANGED <<handleVars, sets, fetchFailed>>
    /\ wpc' = "reply"
    /\ UNCHANGED <<openVars, counts, did, overlapped, called, job, reply>>

\* Variant: what was buffered before a failure is handed over with it.
ReplyPartial ==
    /\ wpc = "reply" /\ wpc' = "idle"
    /\ reply' = [job |-> job.id, kind |-> job.kind, succeeded |-> succeeded,
                 code |-> IF job.kind = "query" THEN errno ELSE stmtErrno,
                 sets |-> sets,
                 fetchFailed |-> fetchFailed, link |-> link]
    /\ sets' = <<>> /\ succeeded' = FALSE /\ stmtErrno' = "none" /\ fetchFailed' = FALSE
    /\ UNCHANGED <<handleVars, openVars, counts, did, overlapped, called, job>>

\* loop(): the outcome is written into the job, the result only on success.
Reply ==
    /\ wpc = "reply" /\ wpc' = "idle"
    /\ reply' = [job |-> job.id, kind |-> job.kind, succeeded |-> succeeded,
                 code |-> IF job.kind = "query" THEN errno ELSE stmtErrno,
                 sets |-> IF succeeded THEN sets ELSE <<>>,
                 fetchFailed |-> fetchFailed, link |-> link]
    /\ sets' = <<>> /\ succeeded' = FALSE /\ stmtErrno' = "none" /\ fetchFailed' = FALSE
    /\ UNCHANGED <<handleVars, openVars, counts, did, overlapped,
                   called, job>>

Worker == QueryBuffered \/ StoreResult \/ NextResult \/ Execute \/ StoreStatementResult \/ Reply
Main == mysql_connect \/ ConfirmCipher \/ AskCipher \/ RefuseConnection
        \/ DirectCommand \/ mysql_close
Next == Worker \/ Main \/ LoseLink

\* What the worker does inside a job.
InJob == StoreResult \/ NextResult \/ StoreStatementResult \/ Reply

SafeSpec == Init /\ [][Next]_vars
Spec == SafeSpec /\ WF_vars(InJob)
-----------------------------------------------------------------------------
(* Properties. *)

\* Every variable has its type, and a job reported as failed carries no result.
TypeOK ==
    /\ trusted \in BOOLEAN
    /\ conn \in {"none", "checking", "refused", "registered"} /\ cipherKnown \in BOOLEAN
    /\ link \in {"up", "lost"} /\ status \in {"ready", "result"} /\ more \in BOOLEAN
    /\ errno \in Codes /\ stmtErrno \in Codes
    /\ wire \in Seq([what : {"ok", "rows", "error", "broken"}, of : 0 .. MaxJobs])
    /\ wpc \in {"idle", "store", "next", "reply"}
    /\ job \in [id : 0 .. MaxJobs, kind : Kinds]
    /\ sets \in Seq(Set)
    /\ {succeeded, fetchFailed, overlapped, called} \subseteq BOOLEAN
    /\ did \in Results \cup {<<>>}
    /\ reply \in [job : 0 .. MaxJobs, kind : Kinds, succeeded : BOOLEAN, code : Codes,
                  sets : Seq(Set), fetchFailed : BOOLEAN, link : {"up", "lost"}]
    /\ \A c \in DOMAIN Bounds : counts[c] \in 0 .. Bounds[c]
    /\ ~reply.succeeded => reply.sets = <<>>

\* The sets are those the server produced for the job, in order, with all rows.
Delivers(ss, o, of) ==
    /\ Len(ss) = Len(o)
    /\ \A i \in 1 .. Len(o) :
        ss[i] = IF o[i] = "rows" THEN [rows |-> TRUE, of |-> of] ELSE NoRows

\* The reply is about the job the server did last.
Answered == wpc = "idle" /\ reply.job # 0

\* Connection.hpp:85-87, "Run a query and fully buffer every result set into
\* `out` [...] Returns true on success": a query that is reported as a success
\* carries every result the server produced, with its rows.
SuccessIsComplete ==
    (Answered /\ reply.succeeded /\ reply.kind = "query" /\ ~overlapped)
        => Delivers(reply.sets, did, reply.job)

\* The same, for the queries whose rows all arrived: nothing is left out, taken
\* from another job, or reported beyond an error (queryBuffered's loop).
CalmSuccessIsComplete ==
    (Answered /\ reply.succeeded /\ ~reply.fetchFailed /\ ~overlapped) =>
        /\ reply.code = "none"
        /\ Delivers(reply.sets,
                    IF reply.kind = "query" THEN did ELSE SubSeq(did, 1, 1), reply.job)

\* A reported failure has a cause in this job: the server refused one of its
\* statements, or the link is gone.  It is never the remains of an earlier job
\* (queryBuffered consumes every result).
CalmFailureHasItsCause ==
    (Answered /\ ~reply.succeeded /\ ~overlapped /\ ~called) =>
        \/ reply.code = "lost" /\ reply.link = "lost"
        \/ reply.code = "server" /\ did # <<>> /\ did[Len(did)] \in {"error", "broken"}

\* What a job reports is what became of it.
CalmRepliesAreTrue == CalmSuccessIsComplete /\ CalmFailureHasItsCause

\* Connection.hpp:85, "rows copied so the connection is free to move on": between
\* jobs nothing is left to read, so that the next command is not refused.
CalmLeftClean ==
    (wpc = "idle" /\ link = "up" /\ ~overlapped /\ ~called)
        => ~OutOfSync /\ wire = <<>>

\* Whatever the options in whatever order: a registered connection is encrypted,
\* and its server was verified if a CA was given or a verifying mode is in force.
VerifiedAsAsked == conn = "registered" => trusted

\* A query in the hands of the worker is answered: the loop over its results ends.
EveryQueryAnswered == (wpc # "idle") ~> (wpc = "idle")
-----------------------------------------------------------------------------
(* Promises of the documentation that the code does not keep. *)

\* Statement.hpp:71, execute buffers "any result set" and Connection.hpp:86, "the
\* connection is free to move on": a prepared CALL leaves every result but its
\* first unread, and the next query is refused.
NeverOutOfSync == Answered => reply.code # "sync"

\* Connection.cpp:357-358, "the fail-closed encryption check never produces a
\* false negative": a connection is refused for its cipher only if its link broke.
NoFalseNegative == conn = "refused" => errno = "lost"
=============================================================================
