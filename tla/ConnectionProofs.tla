-------------------------- MODULE ConnectionProofs --------------------------
(***************************************************************************)
(* Theorems about one connection: types, that its server was verified as   *)
(* the options ask, and, as long as the main thread leaves the handle to   *)
(* the worker, that a reply says what became of its job and that a job     *)
(* leaves nothing behind for the next one.                                 *)
(*                                                                         *)
(* The argument for the last two is one invariant, CalmInv: wherever the   *)
(* worker is, the sets it has are the first results of the job and the     *)
(* wire holds the others.                                                  *)
(***************************************************************************)
EXTENDS Connection, SequenceTheorems, TLAPS

What == {"ok", "rows", "error", "broken"}

\* A result the client has read, as it is kept in the job.
Kept(what, of) == IF what = "rows" THEN [rows |-> TRUE, of |-> of] ELSE NoRows

\* The wire w holds the results of job id from the j-th on.
Ahead(w, j, o, id) ==
    /\ Len(w) = Len(o) + 1 - j
    /\ \A i \in 1 .. Len(w) : w[i] = [what |-> o[i + j - 1], of |-> id]

\* The sets ss are the first results of the job, all of them fetched.
Fetched(ss, o, id) ==
    \A i \in 1 .. Len(ss) : o[i] \in {"ok", "rows"} /\ ss[i] = Kept(o[i], id)

Clean == (link = "up" /\ ~called) => (~OutOfSync /\ wire = <<>>)

Complete(ok, failed, code, ss, kind, id) ==
    (ok /\ ~failed) =>
        (code = "none" /\ Delivers(ss, IF kind = "query" THEN did ELSE SubSeq(did, 1, 1), id))

Caused(ok, code, at) ==
    (~ok /\ ~called) =>
        \/ code = "lost" /\ at = "lost"
        \/ code = "server" /\ did # <<>> /\ did[Len(did)] \in {"error", "broken"}

Code == IF job.kind = "query" THEN errno ELSE stmtErrno

AtStore ==
    wpc = "store" =>
        /\ Len(sets) < Len(did) /\ ~fetchFailed /\ errno = "none"
        /\ Fetched(sets, did, job.id)
        /\ more <=> Len(sets) + 1 < Len(did)
        /\ \/ /\ did[Len(sets) + 1] = "ok" /\ job.kind = "query"
              /\ status = "ready" /\ Ahead(wire, Len(sets) + 2, did, job.id)
           \/ /\ did[Len(sets) + 1] \in {"rows", "broken"}
              /\ status = "result" /\ Ahead(wire, Len(sets) + 1, did, job.id)
        /\ job.kind = "statement" =>
              (sets = <<>> /\ stmtErrno = "none" /\ (called \/ Len(did) = 1))

AtNext ==
    wpc = "next" =>
        /\ job.kind = "query" /\ status = "ready"
        /\ \/ /\ ~fetchFailed /\ errno = "none"
              /\ Len(sets) <= Len(did) /\ Fetched(sets, did, job.id)
              /\ (more <=> Len(sets) < Len(did)) /\ Ahead(wire, Len(sets) + 1, did, job.id)
           \/ fetchFailed /\ (link = "lost" \/ (wire = <<>> /\ ~more))

AtReply ==
    wpc = "reply" =>
        /\ Complete(succeeded, fetchFailed, Code, sets, job.kind, job.id)
        /\ Caused(succeeded, Code, link)
        /\ Clean

AtIdle ==
    wpc = "idle" =>
        /\ Clean
        /\ reply.job # 0 =>
            /\ Complete(reply.succeeded, reply.fetchFailed, reply.code, reply.sets,
                        reply.kind, reply.job)
            /\ Caused(reply.succeeded, reply.code, reply.link)

\* The two threads do not meet: where the worker is, and what is left to read.
CalmInv == ~overlapped => (AtStore /\ AtNext /\ AtReply /\ AtIdle)

\* A job is under way on a registered connection only; one that is opened is trusted.
OpenInv ==
    /\ wpc # "idle" => conn = "registered"
    /\ conn \in {"checking", "registered"} => trusted

\* The type invariant, part by part.
Piece == [what : What, of : 0 .. MaxJobs]
HandleInv ==
    /\ link \in {"up", "lost"} /\ status \in {"ready", "result"} /\ more \in BOOLEAN
    /\ errno \in Codes /\ wire \in Seq(Piece)
    /\ status = "result" => wire # <<>>
    /\ more => Len(wire) > IF status = "result" THEN 1 ELSE 0
WorkerTypes ==
    /\ wpc \in {"idle", "store", "next", "reply"} /\ stmtErrno \in Codes
    /\ job \in [id : 0 .. MaxJobs, kind : Kinds]
    /\ sets \in Seq(Set) /\ succeeded \in BOOLEAN /\ fetchFailed \in BOOLEAN
    /\ did \in Results \cup {<<>>}
    /\ reply \in [job : 0 .. MaxJobs, kind : Kinds, succeeded : BOOLEAN, code : Codes,
                  sets : Seq(Set), fetchFailed : BOOLEAN, link : {"up", "lost"}]
OpenTypes ==
    /\ conn \in {"none", "checking", "refused", "registered"}
    /\ trusted \in BOOLEAN /\ cipherKnown \in BOOLEAN
    /\ overlapped \in BOOLEAN /\ called \in BOOLEAN
CountTypes ==
    /\ counts \in [DOMAIN Bounds -> Nat]
    /\ \A c \in DOMAIN Bounds : counts[c] \in 0 .. Bounds[c]
TypeInv == HandleInv /\ WorkerTypes /\ OpenTypes /\ CountTypes

IInv == TypeInv /\ OpenInv /\ CalmInv

-----------------------------------------------------------------------------
(* Sequences of results *)

\* What is known of a result list: only its last element can be an error.
Plausible(o) ==
    /\ o \in Seq(What)
    /\ Len(o) \in Nat \ {0}
    /\ \A i \in 1 .. Len(o) : o[i] \in What
    /\ \A i \in 1 .. Len(o) : i < Len(o) => o[i] \in {"ok", "rows"}

LEMMA ResultFacts == \A o \in Results : Plausible(o)
<1> SUFFICES ASSUME NEW o \in Results PROVE Plausible(o)
  OBVIOUS
<1>1. PICK n \in 1 .. MaxResults : o \in Outcomes(n)
  BY DEF Results
<1>2. PICK k \in 1 .. n : o \in [1 .. k -> What]
  BY <1>1 DEF Outcomes, What
<1>3. \A i \in 1 .. Len(o) - 1 : o[i] \in {"ok", "rows"}
  BY <1>1 DEF Outcomes
<1>4. n \in Nat /\ k \in Nat \ {0}
  BY BoundsAssumption
<1>5. o \in Seq(What)
  BY <1>2, <1>4, SeqDef
<1>6. Len(o) = k
  BY <1>2, <1>4, <1>5, LenProperties
<1> QED BY <1>2, <1>3, <1>4, <1>5, <1>6 DEF Plausible

\* The list as it is sent.
LEMMA SentFacts ==
  ASSUME NEW o \in Seq(What), NEW id \in 0 .. MaxJobs
  PROVE  /\ Sent(o, id) \in Seq(Piece)
         /\ Len(Sent(o, id)) = Len(o)
         /\ Ahead(Sent(o, id), 1, o, id)
<1>1. Len(o) \in Nat /\ \A i \in 1 .. Len(o) : o[i] \in What
  OBVIOUS
<1>2. Sent(o, id) \in [1 .. Len(o) -> Piece]
  BY <1>1 DEF Sent, Piece
<1>3. Sent(o, id) \in Seq(Piece)
  BY <1>1, <1>2, SeqDef
<1>4. Len(Sent(o, id)) = Len(o)
  BY <1>1, <1>2, <1>3, LenProperties
<1>5. \A i \in 1 .. Len(o) : Sent(o, id)[i] = [what |-> o[i + 1 - 1], of |-> id]
  BY <1>1 DEF Sent
<1> QED BY <1>1, <1>3, <1>4, <1>5 DEF Ahead

\* Reading one result.
LEMMA AheadTail ==
  ASSUME NEW w \in Seq(Piece), w # <<>>, NEW o \in Seq(What), NEW j \in Nat, NEW id,
         Ahead(w, j, o, id)
  PROVE  /\ Tail(w) \in Seq(Piece)
         /\ Ahead(Tail(w), j + 1, o, id)
         /\ Head(w) = [what |-> o[j], of |-> id]
         /\ Len(w) \in Nat \ {0}
<1>1. /\ Tail(w) \in Seq(Piece) /\ Len(Tail(w)) = Len(w) - 1
      /\ \A i \in 1 .. Len(Tail(w)) : Tail(w)[i] = w[i + 1]
  OBVIOUS
<1>2. Len(w) \in Nat \ {0} /\ Head(w) = w[1] /\ Len(o) \in Nat
  OBVIOUS
<1>3. Len(w) = Len(o) + 1 - j
  BY DEF Ahead
<1>4. Len(Tail(w)) = Len(o) + 1 - (j + 1)
  BY <1>1, <1>2, <1>3
<1>5. ASSUME NEW i \in 1 .. Len(Tail(w))
      PROVE  Tail(w)[i] = [what |-> o[i + (j + 1) - 1], of |-> id]
  <2>1. i + 1 \in 1 .. Len(w) /\ (i + 1) + j - 1 = i + (j + 1) - 1
    BY <1>1, <1>2
  <2>2. w[i + 1] = [what |-> o[(i + 1) + j - 1], of |-> id]
    BY <2>1 DEF Ahead
  <2> QED BY <1>1, <2>1, <2>2
<1>6. w[1] = [what |-> o[1 + j - 1], of |-> id] /\ 1 + j - 1 = j
  BY <1>2 DEF Ahead
<1> QED BY <1>1, <1>2, <1>4, <1>5, <1>6 DEF Ahead

\* A fetched result more.
LEMMA FetchedAppend ==
  ASSUME NEW ss \in Seq(Set), NEW s \in Set, NEW o, NEW id,
         Fetched(ss, o, id), o[Len(ss) + 1] \in {"ok", "rows"},
         s = Kept(o[Len(ss) + 1], id)
  PROVE  /\ Append(ss, s) \in Seq(Set)
         /\ Len(Append(ss, s)) = Len(ss) + 1
         /\ Fetched(Append(ss, s), o, id)
<1>1. /\ Append(ss, s) \in Seq(Set) /\ Len(Append(ss, s)) = Len(ss) + 1
      /\ Append(ss, s)[Len(ss) + 1] = s /\ Len(ss) \in Nat
      /\ \A i \in 1 .. Len(ss) : Append(ss, s)[i] = ss[i]
  OBVIOUS
<1>2. ASSUME NEW i \in 1 .. Len(ss) + 1
      PROVE  o[i] \in {"ok", "rows"} /\ Append(ss, s)[i] = Kept(o[i], id)
  <2>1. CASE i = Len(ss) + 1
    BY <2>1, <1>1
  <2>2. CASE i \in 1 .. Len(ss)
    BY <2>2, <1>1 DEF Fetched
  <2> QED BY <2>1, <2>2, <1>1
<1> QED BY <1>1, <1>2 DEF Fetched

\* All of them fetched: the job's results are delivered.
LEMMA AllFetched ==
  ASSUME NEW ss, NEW o, NEW id, Fetched(ss, o, id), Len(ss) = Len(o)
  PROVE  Delivers(ss, o, id)
BY DEF Fetched, Delivers, Kept

\* The answer to a command of one result.
LEMMA OneResult == Plausible(<<"ok">>) /\ Plausible(<<"error">>)
BY DEF Plausible, What

-----------------------------------------------------------------------------
(* The calls of the library *)

\* A result arrives.
LEMMA ReadTypes ==
  ASSUME HandleInv, NEW w \in Seq(Piece), w # <<>>, ReadResult(w), link' = link
  PROVE  HandleInv'
<1>1. Tail(w) \in Seq(Piece) /\ (Len(w) > 1) \in BOOLEAN /\ Len(Tail(w)) = Len(w) - 1 /\ Len(w) \in Nat
  OBVIOUS
<1>2. more' \in BOOLEAN /\ (more' <=> Len(w) > 1)
  BY <1>1 DEF ReadResult
<1>3. errno' \in Codes /\ link' \in {"up", "lost"}
  BY DEF ReadResult, Codes, HandleInv
<1>4. CASE Head(w).what \in {"rows", "broken"}
  BY <1>1, <1>2, <1>3, <1>4 DEF ReadResult, HandleInv
<1>5. CASE Head(w).what \notin {"rows", "broken"}
  BY <1>1, <1>2, <1>3, <1>5 DEF ReadResult, HandleInv
<1> QED BY <1>4, <1>5

\* The j-th result of a job arrives.
ReadIs(j, o, id) ==
    /\ more' <=> j < Len(o)
    /\ o[j] \in {"rows", "broken"} =>
          status' = "result" /\ errno' = "none" /\ Ahead(wire', j, o, id)
    /\ o[j] = "ok" =>
          status' = "ready" /\ errno' = "none" /\ Ahead(wire', j + 1, o, id)
    /\ o[j] = "error" =>
          status' = "ready" /\ errno' = "server" /\ wire' = <<>> /\ ~more' /\ j = Len(o)

LEMMA ReadFacts ==
  ASSUME NEW w \in Seq(Piece), w # <<>>, NEW o, Plausible(o), NEW j \in Nat \ {0}, NEW id,
         Ahead(w, j, o, id), ReadResult(w)
  PROVE  ReadIs(j, o, id) /\ j \in 1 .. Len(o)
<1>1. /\ Ahead(Tail(w), j + 1, o, id) /\ Tail(w) \in Seq(Piece)
      /\ Head(w) = [what |-> o[j], of |-> id] /\ Len(w) \in Nat \ {0}
  BY AheadTail DEF Plausible
<1>2. Len(o) \in Nat \ {0} /\ Len(w) = Len(o) + 1 - j
  BY DEF Plausible, Ahead
<1>3. j \in 1 .. Len(o)
  BY <1>1, <1>2
<1>4. Head(w).what = o[j]
  BY <1>1
<1>5. more' <=> j < Len(o)
  <2>1. more' <=> Len(w) > 1
    BY DEF ReadResult
  <2> QED BY <2>1, <1>1, <1>2
<1>6. ASSUME o[j] \in {"rows", "broken"}
      PROVE  status' = "result" /\ errno' = "none" /\ Ahead(wire', j, o, id)
  BY <1>4, <1>6 DEF ReadResult
<1>7. ASSUME o[j] = "ok"
      PROVE  status' = "ready" /\ errno' = "none" /\ Ahead(wire', j + 1, o, id)
  BY <1>1, <1>4, <1>7 DEF ReadResult
<1>8. ASSUME o[j] = "error"
      PROVE  status' = "ready" /\ errno' = "server" /\ wire' = <<>> /\ ~more' /\ j = Len(o)
  <2>1. j = Len(o)
    BY <1>2, <1>3, <1>8 DEF Plausible
  <2>2. wire' = Tail(w) /\ status' = "ready" /\ errno' = "server"
    BY <1>4, <1>8 DEF ReadResult
  <2>3. Len(Tail(w)) = 0
    BY <1>1, <1>2, <2>1
  <2> QED BY <1>1, <1>2, <1>5, <2>1, <2>2, <2>3
<1> QED BY <1>3, <1>5, <1>6, <1>7, <1>8 DEF ReadIs

\* A command that fails.
Lost == link' = "lost" /\ errno' = "lost"
Refused == OutOfSync /\ link = "up" /\ UNCHANGED <<link, status, more, wire>>
Rejected(o) ==
    /\ Reaches /\ Len(o) = 1 /\ o[1] = "error" /\ link' = link
    /\ errno' = "server" /\ status' = "ready" /\ wire' = <<>> /\ ~more'

LEMMA CommandFailsFacts ==
  ASSUME HandleInv, NEW o, Plausible(o), NEW id \in 0 .. MaxJobs, CommandFails(o, id)
  PROVE  HandleInv' /\ (Lost \/ Refused \/ Rejected(o))
<1>1. CASE link = "lost" /\ errno' = "lost" /\ UNCHANGED <<link, status, more, wire>>
  BY <1>1 DEF HandleInv, Lost, Codes
<1>2. CASE link = "up" /\ OutOfSync /\ errno' = "sync" /\ UNCHANGED <<link, status, more, wire>>
  BY <1>2 DEF HandleInv, Refused, Codes
<1>3. CASE Reaches /\ link' = "lost" /\ errno' = "lost" /\ UNCHANGED <<status, more, wire>>
  BY <1>3 DEF HandleInv, Lost, Codes
<1>4. CASE Reaches /\ o[1] = "error" /\ ReadResult(Sent(o, id)) /\ UNCHANGED link
  <2>1. /\ Sent(o, id) \in Seq(Piece) /\ Len(Sent(o, id)) = Len(o)
        /\ Ahead(Sent(o, id), 1, o, id)
    BY SentFacts DEF Plausible
  <2>2. Sent(o, id) # <<>>
    BY <2>1 DEF Plausible
  <2>3. ReadIs(1, o, id)
    BY <1>4, <2>1, <2>2, ReadFacts
  <2>4. Rejected(o)
    BY <1>4, <2>3 DEF Rejected, ReadIs
  <2>5. HandleInv'
    BY <1>4, <2>1, <2>2, ReadTypes
  <2> QED BY <2>4, <2>5
<1> QED BY <1>1, <1>2, <1>3, <1>4 DEF CommandFails

\* A command that succeeds: the first result is there.
LEMMA CommandSucceedsFacts ==
  ASSUME HandleInv, NEW o, Plausible(o), NEW id \in 0 .. MaxJobs, CommandSucceeds(o, id)
  PROVE  HandleInv' /\ Reaches /\ link' = "up" /\ o[1] # "error" /\ ReadIs(1, o, id)
<1>1. /\ Sent(o, id) \in Seq(Piece) /\ Len(Sent(o, id)) = Len(o)
      /\ Ahead(Sent(o, id), 1, o, id)
  BY SentFacts DEF Plausible
<1>2. Sent(o, id) # <<>>
  BY <1>1 DEF Plausible
<1>3. Reaches /\ link = "up" /\ o[1] # "error" /\ ReadResult(Sent(o, id)) /\ UNCHANGED link
  BY DEF CommandSucceeds, Reaches
<1>4. ReadIs(1, o, id)
  BY <1>1, <1>2, <1>3, ReadFacts
<1>5. HandleInv'
  BY <1>1, <1>2, <1>3, ReadTypes
<1> QED BY <1>3, <1>4, <1>5

\* A result set that is not read, and one that is: the handle is ready for the next.
LEMMA StoreFailsFacts ==
  ASSUME HandleInv, StoreFails
  PROVE  /\ HandleInv' /\ status = "result" /\ wire # <<>> /\ status' = "ready" /\ link' = link
         /\ \/ Lost
            \/ errno' = "server" /\ wire' = <<>> /\ ~more' /\ Head(wire).what = "broken"
<1>1. status = "result" /\ wire # <<>> /\ Tail(wire) \in Seq(Piece) /\ Len(Tail(wire)) = Len(wire) - 1
  BY DEF HandleInv, StoreFails
<1>2. CASE link = "lost" /\ errno' = "lost" /\ wire' = Tail(wire) /\ UNCHANGED <<link, more>>
  BY <1>1, <1>2 DEF HandleInv, StoreFails, Codes, Lost
<1>3. CASE /\ link = "up" /\ Head(wire).what = "broken"
           /\ errno' = "server" /\ wire' = <<>> /\ more' = FALSE /\ UNCHANGED link
  <2>1. <<>> \in Seq(Piece) /\ status' = "ready"
    BY DEF StoreFails
  <2>2. ~more' /\ more' \in BOOLEAN
    BY <1>3, Zenon
  <2>3. errno' \in Codes /\ wire' = <<>> /\ link' \in {"up", "lost"} /\ link' = link
    BY <1>3 DEF Codes
  <2>4. HandleInv'
    BY <2>1, <2>2, <2>3 DEF HandleInv
  <2> QED BY <1>1, <1>3, <2>1, <2>2, <2>3, <2>4
<1> QED BY <1>2, <1>3 DEF StoreFails

LEMMA StoreSucceedsFacts ==
  ASSUME HandleInv, StoreSucceeds
  PROVE  /\ HandleInv' /\ status = "result" /\ wire # <<>> /\ Head(wire).what = "rows"
         /\ status' = "ready" /\ wire' = Tail(wire) /\ UNCHANGED <<link, more, errno>>
<1>1. status = "result" /\ wire # <<>> /\ Tail(wire) \in Seq(Piece) /\ Len(Tail(wire)) = Len(wire) - 1
  BY DEF HandleInv, StoreSucceeds
<1> QED BY <1>1 DEF HandleInv, StoreSucceeds

\* The three answers of mysql_next_result leave a sound handle.
LEMMA NextTypes ==
  ASSUME HandleInv, NoMoreResults \/ NextResultFails \/ NextResultArrives
  PROVE  HandleInv'
<1>1. CASE NoMoreResults
  BY <1>1 DEF NoMoreResults, HandleInv, Codes
<1>2. CASE errno' \in {"sync", "lost"} /\ UNCHANGED <<link, status, more, wire>>
  BY <1>2 DEF HandleInv, Codes
<1>3. CASE status = "ready" /\ more /\ ReadResult(wire) /\ UNCHANGED link
  <2>1. wire # <<>> /\ wire \in Seq(Piece)
    BY <1>3 DEF HandleInv
  <2> QED BY <1>3, <2>1, ReadTypes
<1> QED BY <1>1, <1>2, <1>3 DEF NextResultFails, NextResultArrives

-----------------------------------------------------------------------------
(* Types *)

LEMMA InitTypes == Init => TypeInv
<1> SUFFICES ASSUME Init PROVE TypeInv
  OBVIOUS
<1> USE BoundsAssumption
<1>1. /\ more \in BOOLEAN /\ trusted \in BOOLEAN /\ cipherKnown \in BOOLEAN
      /\ succeeded \in BOOLEAN /\ fetchFailed \in BOOLEAN
      /\ overlapped \in BOOLEAN /\ called \in BOOLEAN /\ ~more
  BY Zenon DEF Init
<1>2. HandleInv
  <2>1. link = "lost" /\ status = "ready" /\ errno = "none" /\ wire = <<>>
    BY Zenon DEF Init
  <2> QED BY <1>1, <2>1 DEF HandleInv, Codes
<1>3. WorkerTypes
  <2>1. /\ wpc = "idle" /\ stmtErrno = "none" /\ job = [id |-> 0, kind |-> "query"]
        /\ sets = <<>> /\ did = <<>> /\ reply = NoReply
    BY Zenon DEF Init
  <2>2. reply \in [job : 0 .. MaxJobs, kind : Kinds, succeeded : BOOLEAN, code : Codes,
                   sets : Seq(Set), fetchFailed : BOOLEAN, link : {"up", "lost"}]
    BY <2>1 DEF NoReply, Codes, Kinds
  <2> QED BY <1>1, <2>1, <2>2 DEF WorkerTypes, Codes, Kinds
<1>4. OpenTypes
  <2>1. conn = "none"
    BY Zenon DEF Init
  <2> QED BY <1>1, <2>1 DEF OpenTypes
<1>5. CountTypes
  <2>1. counts = [c \in DOMAIN Bounds |-> 0]
    BY Zenon DEF Init
  <2> QED BY <2>1 DEF CountTypes, Bounds
<1> QED BY <1>2, <1>3, <1>4, <1>5 DEF TypeInv

\* A bound used up by one.
LEMMA UseTypes ==
  ASSUME CountTypes, NEW c \in {"jobs", "connects", "calls"}, Use(c)
  PROVE  CountTypes' /\ counts'[c] = counts[c] + 1 /\ counts[c] \in Nat /\ counts[c] < Bounds[c]
<1>1. DOMAIN Bounds = {"jobs", "connects", "calls"} /\ Bounds[c] \in Nat
  BY BoundsAssumption DEF Bounds
<1> QED BY <1>1 DEF Use, CountTypes

\* The job the worker takes, and its number.
LEMMA BeginTypes ==
  ASSUME TypeInv, NEW kind \in Kinds, NEW o \in Results, Begin(kind, o)
  PROVE  /\ job' = [id |-> job'.id, kind |-> kind] /\ job'.id \in 1 .. MaxJobs
         /\ CountTypes' /\ did' \in Results \cup {<<>>}
<1>1. Use("jobs") /\ job' = [id |-> counts'.jobs, kind |-> kind]
  BY DEF Begin
<1>2. /\ CountTypes' /\ counts'["jobs"] = counts["jobs"] + 1 /\ counts["jobs"] \in Nat
      /\ counts["jobs"] < Bounds["jobs"]
  BY <1>1, UseTypes DEF TypeInv
<1>3. Bounds["jobs"] = MaxJobs
  BY DEF Bounds
<1> QED BY <1>1, <1>2, <1>3, BoundsAssumption DEF Begin

LEMMA OpeningTypes ==
  ASSUME TypeInv,
         LoseLink \/ mysql_connect \/ ConfirmCipher \/ AskCipher \/ RefuseConnection
            \/ DirectCommand \/ mysql_close
  PROVE  TypeInv'
<1>1. CASE LoseLink
  <2>1. HandleInv'
    BY <1>1 DEF LoseLink, TypeInv, HandleInv
  <2> QED BY <1>1, <2>1 DEF LoseLink, TypeInv, WorkerTypes, OpenTypes, CountTypes, workerVars, openVars
<1>2. CASE mysql_connect
  <2>1. CountTypes'
    BY <1>2, UseTypes DEF mysql_connect, TypeInv
  <2>2. WorkerTypes'
    BY <1>2 DEF mysql_connect, TypeInv, WorkerTypes, workerVars
  <2>3. CASE UNCHANGED <<conn, trusted, handleVars>>
    BY <1>2, <2>1, <2>2, <2>3 DEF mysql_connect, TypeInv, HandleInv, OpenTypes, handleVars
  <2>4. CASE \E o \in Asked, p \in Peers :
               /\ conn' = "checking" /\ trusted' = (p.tls /\ (MustVerify(o) => p.good))
               /\ link' = "up" /\ status' = "ready" /\ more' = FALSE
               /\ errno' = "none" /\ wire' = <<>>
    <3>1. /\ conn' = "checking" /\ link' = "up" /\ status' = "ready" /\ errno' = "none"
          /\ wire' = <<>>
      BY <2>4
    <3>2. more' \in BOOLEAN /\ ~more' /\ trusted' \in BOOLEAN
      BY <2>4, Zenon
    <3>3. HandleInv'
      BY <3>1, <3>2 DEF HandleInv, Codes
    <3>4. OpenTypes'
      BY <1>2, <3>1, <3>2 DEF mysql_connect, TypeInv, OpenTypes
    <3> QED BY <2>1, <2>2, <3>3, <3>4 DEF TypeInv
  <2> QED BY <1>2, <2>3, <2>4, Zenon DEF mysql_connect
<1>3. CASE ConfirmCipher
  BY <1>3 DEF ConfirmCipher, TypeInv, HandleInv, WorkerTypes, OpenTypes, CountTypes,
              handleVars, workerVars
<1>4. ASSUME UNCHANGED <<workerVars, trusted, cipherKnown, did, called>>,
             overlapped' = (overlapped \/ wpc # "idle"),
             conn' \in {"none", "checking", "refused", "registered"}, CountTypes', HandleInv'
      PROVE  TypeInv'
  <2>1. overlapped' \in BOOLEAN
    BY <1>4, Zenon
  <2> QED BY <1>4, <2>1 DEF TypeInv, WorkerTypes, OpenTypes, workerVars
<1>5. CASE AskCipher
  <2>1. HandleInv'
    BY <1>5, CommandFailsFacts, OneResult, BoundsAssumption DEF AskCipher, TypeInv
  <2>2. CountTypes'
    <3>1. UNCHANGED counts \/ Use("calls")
      BY <1>5 DEF AskCipher
    <3>2. CASE UNCHANGED counts
      BY <3>2 DEF CountTypes, TypeInv
    <3> QED BY <3>1, <3>2, UseTypes DEF TypeInv
  <2> QED BY <1>4, <1>5, <2>1, <2>2 DEF AskCipher, TypeInv, OpenTypes
<1>6. CASE DirectCommand
  <2>1. HandleInv'
    BY <1>6, CommandFailsFacts, CommandSucceedsFacts, OneResult, BoundsAssumption
       DEF DirectCommand, TypeInv
  <2>2. CountTypes'
    BY <1>6, UseTypes DEF DirectCommand, TypeInv
  <2> QED BY <1>4, <1>6, <2>1, <2>2 DEF DirectCommand, TypeInv, OpenTypes, openVars
<1>7. CASE Destroy
  <2>1. /\ more' \in BOOLEAN /\ ~more' /\ trusted' \in BOOLEAN /\ overlapped' \in BOOLEAN
        /\ called' \in BOOLEAN
    BY <1>7, Zenon DEF Destroy
  <2>2. /\ conn' = "none" /\ link' = "lost" /\ status' = "ready" /\ errno' = "none"
        /\ wire' = <<>> /\ did' = <<>> /\ reply' = NoReply
        /\ UNCHANGED <<wpc, job, sets, succeeded, stmtErrno, fetchFailed, cipherKnown, counts>>
    BY <1>7, Zenon DEF Destroy
  <2>3. HandleInv' /\ OpenTypes' /\ CountTypes'
    BY <2>1, <2>2 DEF TypeInv, HandleInv, OpenTypes, CountTypes, Codes
  <2>4. reply' \in [job : 0 .. MaxJobs, kind : Kinds, succeeded : BOOLEAN, code : Codes,
                    sets : Seq(Set), fetchFailed : BOOLEAN, link : {"up", "lost"}]
    BY <2>2, BoundsAssumption DEF NoReply, Codes, Kinds
  <2>5. WorkerTypes'
    BY <2>2, <2>4 DEF TypeInv, WorkerTypes
  <2> QED BY <2>3, <2>5 DEF TypeInv
<1> QED BY <1>1, <1>2, <1>3, <1>5, <1>6, <1>7 DEF RefuseConnection, mysql_close

LEMMA WorkerTypesKept ==
  ASSUME TypeInv, Worker
  PROVE  TypeInv'
<1> USE DEF TypeInv
<1> DEFINE ReplySet == [job : 0 .. MaxJobs, kind : Kinds, succeeded : BOOLEAN, code : Codes,
                        sets : Seq(Set), fetchFailed : BOOLEAN, link : {"up", "lost"}]
<1>1. NoRows \in Set /\ <<>> \in Seq(Set) /\ <<NoRows>> \in Seq(Set)
  BY BoundsAssumption DEF NoRows, Set
<1>2. ASSUME NEW kind \in Kinds, NEW o \in Results, Begin(kind, o), HandleInv',
             wpc' \in {"store", "reply"}, sets' \in Seq(Set), succeeded' \in BOOLEAN,
             stmtErrno' \in Codes, called' \in BOOLEAN
      PROVE  TypeInv'
  <2>1. /\ job' = [id |-> job'.id, kind |-> kind] /\ job'.id \in 1 .. MaxJobs
        /\ CountTypes' /\ did' \in Results \cup {<<>>}
    BY <1>2, BeginTypes
  <2>2. job' \in [id : 0 .. MaxJobs, kind : Kinds]
    <3>1. job'.id \in 0 .. MaxJobs
      BY <2>1, BoundsAssumption
    <3> QED BY <2>1, <3>1
  <2>3. fetchFailed' \in BOOLEAN
    BY <1>2, Zenon DEF Begin
  <2>4. UNCHANGED <<openVars, reply, overlapped>>
    BY <1>2 DEF Begin
  <2>5. WorkerTypes'
    BY <1>2, <2>1, <2>2, <2>3, <2>4 DEF WorkerTypes
  <2>6. OpenTypes'
    BY <1>2, <2>4 DEF OpenTypes, openVars
  <2> QED BY <1>2, <2>1, <2>5, <2>6
<1>3. CASE QueryBuffered
  <2>1. PICK o \in Results :
          /\ Begin("query", o) /\ sets' = <<>>
          /\ \/ CommandFails(o, job'.id) /\ succeeded' = FALSE /\ wpc' = "reply"
             \/ CommandSucceeds(o, job'.id) /\ wpc' = "store" /\ UNCHANGED succeeded
          /\ UNCHANGED <<stmtErrno, called>>
    BY <1>3 DEF QueryBuffered
  <2>2. job'.id \in 0 .. MaxJobs
    BY <2>1, BeginTypes, BoundsAssumption DEF Kinds
  <2>3. HandleInv'
    <3>1. Plausible(o)
      BY ResultFacts
    <3> QED BY <2>1, <2>2, <3>1, CommandFailsFacts, CommandSucceedsFacts
  <2>4. succeeded' \in BOOLEAN
    <3>1. succeeded' = FALSE \/ UNCHANGED succeeded
      BY <2>1
    <3> QED BY <3>1 DEF WorkerTypes
  <2>5. stmtErrno' \in Codes /\ called' \in BOOLEAN
    BY <2>1 DEF WorkerTypes, OpenTypes
  <2> QED BY <1>1, <1>2, <2>1, <2>3, <2>4, <2>5 DEF Kinds
<1>4. CASE Execute
  <2>1. PICK o \in Results :
          /\ Begin("statement", o)
          /\ \/ /\ CommandFails(o, job'.id)
                /\ sets' = <<>> /\ succeeded' = FALSE /\ stmtErrno' = errno' /\ wpc' = "reply"
             \/ /\ CommandSucceeds(o, job'.id) /\ o[1] = "ok" /\ stmtErrno' = "none"
                /\ sets' = <<NoRows>> /\ succeeded' = TRUE /\ wpc' = "reply"
             \/ /\ CommandSucceeds(o, job'.id) /\ o[1] # "ok" /\ stmtErrno' = "none"
                /\ sets' = <<>> /\ wpc' = "store" /\ UNCHANGED succeeded
          /\ called' = (called \/ Len(o) > 1)
    BY <1>4 DEF Execute
  <2>2. job'.id \in 0 .. MaxJobs
    BY <2>1, BeginTypes, BoundsAssumption DEF Kinds
  <2>3. HandleInv'
    <3>1. Plausible(o)
      BY ResultFacts
    <3> QED BY <2>1, <2>2, <3>1, CommandFailsFacts, CommandSucceedsFacts
  <2>4. succeeded' \in BOOLEAN
    <3>1. succeeded' = FALSE \/ succeeded' = TRUE \/ UNCHANGED succeeded
      BY <2>1
    <3> QED BY <3>1 DEF WorkerTypes
  <2>5. called' \in BOOLEAN
    BY <2>1, Zenon
  <2>6. stmtErrno' \in Codes
    BY <2>1, <2>3 DEF HandleInv, Codes
  <2> QED BY <1>1, <1>2, <2>1, <2>3, <2>4, <2>5, <2>6 DEF Kinds
<1>5. ASSUME HandleInv', wpc' \in {"next", "reply"}, sets' \in Seq(Set),
             succeeded' \in BOOLEAN, fetchFailed' \in BOOLEAN, stmtErrno' \in Codes,
             UNCHANGED <<openVars, counts, did, overlapped, called, job, reply>>
      PROVE  TypeInv'
  BY <1>5 DEF WorkerTypes, OpenTypes, CountTypes, openVars
<1>6. ASSUME StoreSucceeds
      PROVE  [rows |-> TRUE, of |-> Head(wire).of] \in Set
  <2>1. Head(wire) \in Piece
    BY <1>6, StoreSucceedsFacts DEF HandleInv
  <2> QED BY <2>1 DEF Piece, Set
<1>7. CASE StoreResult
  <2>1. HandleInv'
    <3>1. NothingToStore \/ StoreFails \/ StoreSucceeds
      BY <1>7 DEF StoreResult
    <3>2. CASE NothingToStore
      BY <3>2 DEF NothingToStore, handleVars, HandleInv
    <3> QED BY <3>1, <3>2, StoreFailsFacts, StoreSucceedsFacts
  <2>2. sets' \in Seq(Set)
    <3>1. PICK s \in Set : sets' = Append(sets, s)
      BY <1>1, <1>6, <1>7 DEF StoreResult
    <3>2. sets \in Seq(Set)
      BY DEF WorkerTypes
    <3> QED BY <3>1, <3>2, AppendProperties
  <2>3. fetchFailed' \in BOOLEAN
    <3>1. UNCHANGED fetchFailed \/ fetchFailed' = TRUE
      BY <1>7 DEF StoreResult
    <3> QED BY <3>1 DEF WorkerTypes
  <2>4. /\ wpc' = "next"
        /\ UNCHANGED <<openVars, counts, did, overlapped, called, job, succeeded, stmtErrno, reply>>
    BY <1>7 DEF StoreResult
  <2> QED BY <1>5, <2>1, <2>2, <2>3, <2>4 DEF WorkerTypes
<1>8. CASE NextResult
  <2>1. HandleInv'
    BY <1>8, NextTypes DEF NextResult
  <2>2. succeeded' \in BOOLEAN /\ wpc' \in {"store", "reply"}
    <3>1. /\ succeeded' = TRUE \/ succeeded' = FALSE \/ UNCHANGED succeeded
          /\ wpc' = "store" \/ wpc' = "reply"
      BY <1>8, Zenon DEF NextResult
    <3> QED BY <3>1 DEF WorkerTypes
  <2>3. UNCHANGED <<openVars, counts, did, overlapped, called, job, sets, stmtErrno,
                    fetchFailed, reply>>
    BY <1>8 DEF NextResult
  <2> QED BY <2>1, <2>2, <2>3 DEF WorkerTypes, OpenTypes, CountTypes, openVars
<1>9. CASE StoreStatementResult
  <2>1. \/ StoreSucceeds /\ sets' = <<[rows |-> TRUE, of |-> Head(wire).of]>>
             /\ succeeded' = TRUE /\ UNCHANGED <<stmtErrno, fetchFailed>>
        \/ StoreFails /\ succeeded' = FALSE /\ stmtErrno' = errno'
             /\ fetchFailed' = TRUE /\ UNCHANGED sets
        \/ stmtErrno' = "sync" /\ succeeded' = FALSE /\ UNCHANGED <<handleVars, sets, fetchFailed>>
    BY <1>9, Zenon DEF StoreStatementResult
  <2>2. HandleInv'
    BY <2>1, StoreFailsFacts, StoreSucceedsFacts DEF handleVars, HandleInv
  <2>3. sets' \in Seq(Set)
    <3>1. CASE StoreSucceeds /\ sets' = <<[rows |-> TRUE, of |-> Head(wire).of]>>
      <4>1. \A s \in Set : <<s>> \in Seq(Set)
        OBVIOUS
      <4> QED BY <1>6, <3>1, <4>1
    <3>2. CASE UNCHANGED sets
      BY <3>2 DEF WorkerTypes
    <3> QED BY <2>1, <3>1, <3>2
  <2>4. succeeded' \in BOOLEAN /\ fetchFailed' \in BOOLEAN
    <3>1. /\ succeeded' = TRUE \/ succeeded' = FALSE
          /\ fetchFailed' = TRUE \/ UNCHANGED fetchFailed
      BY <2>1, Zenon
    <3> QED BY <3>1 DEF WorkerTypes
  <2>5. stmtErrno' \in Codes
    BY <2>1, <2>2 DEF HandleInv, WorkerTypes, Codes
  <2>6. wpc' = "reply" /\ UNCHANGED <<openVars, counts, did, overlapped, called, job, reply>>
    BY <1>9 DEF StoreStatementResult
  <2> QED BY <1>5, <2>2, <2>3, <2>4, <2>5, <2>6
<1>10. CASE Reply
  <2>1. /\ reply' = [job |-> job.id, kind |-> job.kind, succeeded |-> succeeded,
                     code |-> IF job.kind = "query" THEN errno ELSE stmtErrno,
                     sets |-> IF succeeded THEN sets ELSE <<>>,
                     fetchFailed |-> fetchFailed, link |-> link]
        /\ wpc' = "idle" /\ sets' = <<>> /\ stmtErrno' = "none"
        /\ UNCHANGED <<handleVars, openVars, counts, did, overlapped, called, job>>
    BY <1>10 DEF Reply
  <2>2. succeeded' \in BOOLEAN /\ fetchFailed' \in BOOLEAN
    BY <1>10, Zenon DEF Reply
  <2>3. /\ (IF job.kind = "query" THEN errno ELSE stmtErrno) \in Codes
        /\ (IF succeeded THEN sets ELSE <<>>) \in Seq(Set)
    BY <1>1 DEF HandleInv, WorkerTypes
  <2>4. reply' \in ReplySet
    <3>1. job.id \in 0 .. MaxJobs /\ job.kind \in Kinds /\ link \in {"up", "lost"}
      BY DEF WorkerTypes, HandleInv
    <3> QED BY <2>1, <2>3, <3>1 DEF WorkerTypes
  <2>5. WorkerTypes'
    BY <1>1, <2>1, <2>2, <2>4 DEF WorkerTypes, Codes
  <2>6. HandleInv' /\ OpenTypes' /\ CountTypes'
    BY <2>1 DEF HandleInv, OpenTypes, CountTypes, handleVars, openVars
  <2> QED BY <2>5, <2>6
<1> QED BY <1>3, <1>4, <1>7, <1>8, <1>9, <1>10 DEF Worker

LEMMA TypeInductive == TypeInv /\ [Next]_vars => TypeInv'
<1> SUFFICES ASSUME TypeInv, [Next]_vars PROVE TypeInv'
  OBVIOUS
<1>1. CASE Worker
  BY <1>1, WorkerTypesKept
<1>2. CASE Main \/ LoseLink
  BY <1>2, OpeningTypes DEF Main
<1>3. CASE UNCHANGED vars
  BY <1>3 DEF vars, handleVars, workerVars, openVars, TypeInv, HandleInv, WorkerTypes,
              OpenTypes, CountTypes
<1> QED BY <1>1, <1>2, <1>3 DEF Next

-----------------------------------------------------------------------------
(* Opening *)

\* The options that can be asked for are options.
LEMMA AskedFacts == Asked \subseteq Options
<1>1. Defaults \in Options
  BY DEF Defaults, Options, Modes
<1>2. ASSUME NEW o \in Options PROVE Configured(o) \subseteq Options
  <2>1. /\ o.sslMode \in Modes /\ o.sslCA \in BOOLEAN /\ o.sslCAPath \in BOOLEAN
        /\ o = [sslMode |-> o.sslMode, sslCA |-> o.sslCA, sslCAPath |-> o.sslCAPath]
    BY DEF Options
  <2>2. ASSUME NEW v \in -1 .. 3 PROVE ApplyMode(o, v) \in Options
    BY <2>1 DEF ApplyMode, Options
  <2>3. ASSUME NEW given \in BOOLEAN
        PROVE  ApplyCA(o, given) \in Options /\ ApplyCAPath(o, given) \in Options
    BY <2>1 DEF ApplyCA, ApplyCAPath, Options
  <2> QED BY <2>2, <2>3 DEF Configured
<1>3. Twice \subseteq Options
  BY <1>1, <1>2 DEF Twice
<1> QED BY <1>1, <1>2, <1>3 DEF Asked

\* A server that is accepted is one that was asked for.
LEMMA AcceptedIsTrusted ==
  ASSUME NEW o \in Asked, NEW p \in Peers, Accepts(o, p)
  PROVE  p.tls /\ (MustVerify(o) => p.good)
<1>1. o.sslMode \in 0 .. 2
  BY AskedFacts DEF Options, Modes
<1>2. MustVerify(o) => effectiveSSLMode(o) \in {1, 2}
  BY <1>1 DEF MustVerify, effectiveSSLMode, HasCA
<1> QED BY <1>2 DEF Accepts

LEMMA OpenInductive == TypeInv /\ OpenInv /\ [Next]_vars => OpenInv'
<1> SUFFICES ASSUME TypeInv, OpenInv, [Next]_vars PROVE OpenInv'
  OBVIOUS
<1>1. CASE mysql_connect
  <2>1. wpc' = wpc /\ conn = "none"
    BY <1>1 DEF mysql_connect, workerVars
  <2>2. wpc = "idle"
    BY <2>1 DEF OpenInv
  <2>3. CASE UNCHANGED <<conn, trusted>>
    BY <2>1, <2>2, <2>3 DEF OpenInv
  <2>4. CASE \E o \in Asked, p \in Peers :
               Accepts(o, p) /\ trusted' = (p.tls /\ (MustVerify(o) => p.good))
    <3>1. PICK o \in Asked, p \in Peers :
            Accepts(o, p) /\ trusted' = (p.tls /\ (MustVerify(o) => p.good))
      BY <2>4
    <3>2. p.tls /\ (MustVerify(o) => p.good)
      BY <3>1, AcceptedIsTrusted
    <3>3. trusted'
      BY <3>1, <3>2, Zenon
    <3> QED BY <2>1, <2>2, <3>3 DEF OpenInv
  <2> QED BY <1>1, <2>3, <2>4, Zenon DEF mysql_connect
<1>2. CASE LoseLink
  BY <1>2 DEF LoseLink, OpenInv, workerVars, openVars
<1>3. CASE ConfirmCipher
  BY <1>3 DEF ConfirmCipher, OpenInv, workerVars
<1>4. CASE AskCipher
  BY <1>4 DEF AskCipher, OpenInv, workerVars
<1>5. CASE RefuseConnection \/ mysql_close
  BY <1>5 DEF RefuseConnection, mysql_close, Destroy, OpenInv
<1>6. CASE DirectCommand
  BY <1>6 DEF DirectCommand, OpenInv, workerVars, openVars
<1>7. CASE Worker
  <2>1. UNCHANGED openVars /\ (wpc # "idle" \/ conn = "registered")
    BY <1>7 DEF Worker, QueryBuffered, Execute, Begin, StoreResult, NextResult,
                StoreStatementResult, Reply
  <2> QED BY <2>1 DEF OpenInv, openVars
<1>8. CASE UNCHANGED vars
  BY <1>8 DEF OpenInv, vars, workerVars, openVars
<1> QED BY <1>1, <1>2, <1>3, <1>4, <1>5, <1>6, <1>7, <1>8 DEF Next, Main

-----------------------------------------------------------------------------
(* A job from its command to its reply *)

\* Nothing is ahead: the wire is empty.
LEMMA NothingAhead ==
  ASSUME NEW w \in Seq(Piece), NEW o \in Seq(What), NEW id, NEW j, j = Len(o) + 1,
         Ahead(w, j, o, id)
  PROVE  w = <<>>
<1>1. Len(w) = Len(o) + 1 - (Len(o) + 1) /\ Len(o) \in Nat
  BY DEF Ahead
<1> QED BY <1>1

\* A statement delivers its first result.
LEMMA FirstDelivered ==
  ASSUME NEW o, Plausible(o), o[1] \in {"ok", "rows"}, NEW id
  PROVE  Delivers(<<Kept(o[1], id)>>, SubSeq(o, 1, 1), id)
<1>1. Len(SubSeq(o, 1, 1)) = 1 /\ SubSeq(o, 1, 1)[1] = o[1]
  BY DEF Plausible
<1>2. Len(<<Kept(o[1], id)>>) = 1 /\ <<Kept(o[1], id)>>[1] = Kept(o[1], id)
  OBVIOUS
<1>3. ASSUME NEW i \in 1 .. Len(SubSeq(o, 1, 1))
      PROVE  <<Kept(o[1], id)>>[i] = IF SubSeq(o, 1, 1)[i] = "rows"
                                     THEN [rows |-> TRUE, of |-> id] ELSE NoRows
  <2>1. i = 1
    BY <1>1
  <2> QED BY <1>1, <1>2, <2>1 DEF Kept
<1> QED BY <1>1, <1>2, <1>3 DEF Delivers

\* A command the server rejects is an error of one result.
LEMMA RejectedFacts ==
  ASSUME NEW o, Plausible(o), Rejected(o)
  PROVE  Reaches /\ o # <<>> /\ o[Len(o)] = "error"
<1>1. Len(o) = 1 /\ o[1] = "error" /\ Reaches /\ o \in Seq(What)
  BY DEF Rejected, Plausible
<1>2. o[Len(o)] = o[1] /\ o # <<>>
  BY <1>1
<1> QED BY <1>1, <1>2

\* One place of the worker at a time.
LEMMA OnePlace ==
  ASSUME \/ wpc' = "store" /\ AtStore'
         \/ wpc' = "next" /\ AtNext'
         \/ wpc' = "reply" /\ AtReply'
         \/ wpc' = "idle" /\ AtIdle'
  PROVE  CalmInv'
BY DEF CalmInv, AtStore, AtNext, AtReply, AtIdle

LEMMA CalmQuery == TypeInv /\ CalmInv /\ QueryBuffered => CalmInv'
<1> SUFFICES ASSUME TypeInv, CalmInv, QueryBuffered, ~overlapped' PROVE CalmInv'
  BY DEF CalmInv
<1>1. PICK o \in Results :
        /\ Begin("query", o) /\ sets' = <<>>
        /\ \/ CommandFails(o, job'.id) /\ succeeded' = FALSE /\ wpc' = "reply"
           \/ CommandSucceeds(o, job'.id) /\ wpc' = "store" /\ UNCHANGED succeeded
        /\ UNCHANGED <<stmtErrno, called>>
  BY DEF QueryBuffered
<1>2. wpc = "idle" /\ ~overlapped /\ did' = IF Reaches THEN o ELSE <<>>
  BY <1>1 DEF Begin
<1>3. ~fetchFailed' /\ job'.kind = "query"
  BY <1>1 DEF Begin
<1>4. Clean
  BY <1>2 DEF CalmInv, AtIdle
<1>5. Plausible(o) /\ job'.id \in 0 .. MaxJobs /\ HandleInv
  BY <1>1, BeginTypes, ResultFacts, BoundsAssumption DEF Kinds, TypeInv
<1>6. CASE CommandFails(o, job'.id) /\ succeeded' = FALSE /\ wpc' = "reply"
  <2>1. HandleInv' /\ (Lost \/ Refused \/ Rejected(o)) /\ ~succeeded'
    BY <1>5, <1>6, CommandFailsFacts
  <2>2. Clean' /\ (~called' => (errno' = "lost" /\ link' = "lost") \/ (errno' = "server" /\ Rejected(o)))
    BY <1>1, <1>4, <2>1 DEF Clean, Lost, Refused, Rejected, OutOfSync
  <2>3. Rejected(o) => did' = o /\ o # <<>> /\ o[Len(o)] = "error"
    BY <1>2, <1>5, RejectedFacts
  <2>4. Code' = errno'
    BY <1>3 DEF Code
  <2>5. AtReply'
    BY <2>1, <2>2, <2>3, <2>4 DEF AtReply, Complete, Caused
  <2> QED BY <1>6, <2>5, OnePlace
<1>7. CASE CommandSucceeds(o, job'.id) /\ wpc' = "store"
  <2>1. HandleInv' /\ Reaches /\ o[1] # "error" /\ ReadIs(1, o, job'.id)
    BY <1>5, <1>7, CommandSucceedsFacts
  <2>2. did' = o /\ o[1] \in What /\ Len(o) \in Nat \ {0}
    BY <1>2, <1>5, <2>1 DEF Plausible
  <2>3. Len(sets') = 0 /\ Len(sets') + 1 = 1 /\ Len(sets') + 2 = 1 + 1
    BY <1>1
  <2>4. Fetched(sets', o, job'.id)
    BY <2>3 DEF Fetched
  <2>5. errno' = "none" /\ (more' <=> 1 < Len(o))
    BY <2>1, <2>2 DEF ReadIs, What
  <2>6. \/ o[1] = "ok" /\ status' = "ready" /\ Ahead(wire', Len(sets') + 2, o, job'.id)
        \/ /\ o[1] \in {"rows", "broken"}
           /\ status' = "result" /\ Ahead(wire', Len(sets') + 1, o, job'.id)
    BY <2>1, <2>2, <2>3 DEF ReadIs, What
  <2>7. AtStore'
    BY <1>3, <2>2, <2>3, <2>4, <2>5, <2>6 DEF AtStore
  <2> QED BY <1>7, <2>7, OnePlace
<1> QED BY <1>1, <1>6, <1>7

LEMMA CalmExecute == TypeInv /\ CalmInv /\ Execute => CalmInv'
<1> SUFFICES ASSUME TypeInv, CalmInv, Execute, ~overlapped' PROVE CalmInv'
  BY DEF CalmInv
<1>1. PICK o \in Results :
        /\ Begin("statement", o)
        /\ \/ /\ CommandFails(o, job'.id)
              /\ sets' = <<>> /\ succeeded' = FALSE /\ stmtErrno' = errno' /\ wpc' = "reply"
           \/ /\ CommandSucceeds(o, job'.id) /\ o[1] = "ok" /\ stmtErrno' = "none"
              /\ sets' = <<NoRows>> /\ succeeded' = TRUE /\ wpc' = "reply"
           \/ /\ CommandSucceeds(o, job'.id) /\ o[1] # "ok" /\ stmtErrno' = "none"
              /\ sets' = <<>> /\ wpc' = "store" /\ UNCHANGED succeeded
        /\ called' = (called \/ Len(o) > 1)
  BY DEF Execute
<1>2. wpc = "idle" /\ ~overlapped /\ did' = IF Reaches THEN o ELSE <<>>
  BY <1>1 DEF Begin
<1>3. ~fetchFailed' /\ job'.kind = "statement"
  BY <1>1 DEF Begin
<1>4. Clean
  BY <1>2 DEF CalmInv, AtIdle
<1>5. Plausible(o) /\ job'.id \in 0 .. MaxJobs /\ HandleInv
  BY <1>1, BeginTypes, ResultFacts, BoundsAssumption DEF Kinds, TypeInv
<1>6. ~called' => ~called /\ Len(o) = 1
  <2>1. ~called' => ~called /\ ~(Len(o) > 1)
    BY <1>1, Zenon
  <2>2. Len(o) \in Nat \ {0}
    BY <1>5 DEF Plausible
  <2> QED BY <2>1, <2>2
<1>7. CASE CommandFails(o, job'.id) /\ succeeded' = FALSE /\ stmtErrno' = errno' /\ wpc' = "reply"
  <2>1. HandleInv' /\ (Lost \/ Refused \/ Rejected(o)) /\ ~succeeded'
    BY <1>5, <1>7, CommandFailsFacts
  <2>2. Clean' /\ (~called' => (errno' = "lost" /\ link' = "lost") \/ (errno' = "server" /\ Rejected(o)))
    BY <1>4, <1>6, <2>1 DEF Clean, Lost, Refused, Rejected, OutOfSync
  <2>3. Rejected(o) => did' = o /\ o # <<>> /\ o[Len(o)] = "error"
    BY <1>2, <1>5, RejectedFacts
  <2>4. Code' = errno'
    BY <1>3, <1>7 DEF Code
  <2>5. AtReply'
    BY <2>1, <2>2, <2>3, <2>4 DEF AtReply, Complete, Caused
  <2> QED BY <1>7, <2>5, OnePlace
<1>8. ASSUME CommandSucceeds(o, job'.id)
      PROVE  /\ HandleInv' /\ o[1] # "error" /\ ReadIs(1, o, job'.id)
             /\ did' = o /\ o[1] \in What /\ Len(o) \in Nat \ {0}
  <2>1. HandleInv' /\ Reaches /\ o[1] # "error" /\ ReadIs(1, o, job'.id)
    BY <1>5, <1>8, CommandSucceedsFacts
  <2> QED BY <1>2, <1>5, <2>1 DEF Plausible
<1>9. CASE /\ CommandSucceeds(o, job'.id) /\ o[1] = "ok" /\ stmtErrno' = "none"
           /\ sets' = <<NoRows>> /\ succeeded' = TRUE /\ wpc' = "reply"
  <2>1. Complete(succeeded, fetchFailed, Code, sets, job.kind, job.id)'
    <3>1. sets' = <<Kept(o[1], job'.id)>>
      BY <1>9 DEF Kept
    <3>2. Delivers(sets', SubSeq(o, 1, 1), job'.id)
      BY <1>5, <1>9, <3>1, FirstDelivered
    <3>3. Code' = "none"
      BY <1>3, <1>9 DEF Code
    <3> QED BY <1>3, <1>8, <1>9, <3>2, <3>3 DEF Complete
  <2>2. Caused(succeeded, Code, link)'
    BY <1>9 DEF Caused
  <2>3. Clean'
    <3>1. status' = "ready" /\ (more' <=> 1 < Len(o)) /\ Ahead(wire', 1 + 1, o, job'.id)
      BY <1>8, <1>9 DEF ReadIs
    <3>2. o \in Seq(What) /\ wire' \in Seq(Piece)
      BY <1>5, <1>8, <1>9 DEF HandleInv, Plausible
    <3>3. Len(o) = 1 => wire' = <<>> /\ ~more'
      <4>1. Len(o) = 1 => 1 + 1 = Len(o) + 1 /\ ~(1 < Len(o))
        OBVIOUS
      <4> QED BY <3>1, <3>2, <4>1, NothingAhead
    <3> QED BY <1>6, <3>1, <3>3 DEF Clean, OutOfSync
  <2> QED BY <1>9, <2>1, <2>2, <2>3, OnePlace DEF AtReply
<1>10. CASE /\ CommandSucceeds(o, job'.id) /\ o[1] # "ok" /\ stmtErrno' = "none"
            /\ sets' = <<>> /\ wpc' = "store"
  <2>1. Len(sets') = 0 /\ Len(sets') + 1 = 1
    BY <1>10
  <2>2. Fetched(sets', o, job'.id)
    BY <2>1 DEF Fetched
  <2>3. errno' = "none" /\ (more' <=> 1 < Len(o))
    BY <1>8, <1>10 DEF ReadIs, What
  <2>4. o[1] \in {"rows", "broken"} /\ status' = "result" /\ Ahead(wire', Len(sets') + 1, o, job'.id)
    BY <1>8, <1>10, <2>1 DEF ReadIs, What
  <2>5. AtStore'
    BY <1>3, <1>6, <1>8, <1>10, <2>1, <2>2, <2>3, <2>4 DEF AtStore
  <2> QED BY <1>10, <2>5, OnePlace
<1> QED BY <1>1, <1>7, <1>9, <1>10

LEMMA CalmStore == TypeInv /\ CalmInv /\ StoreResult => CalmInv'
<1> SUFFICES ASSUME TypeInv, CalmInv, StoreResult, ~overlapped' PROVE CalmInv'
  BY DEF CalmInv
<1>1. /\ wpc = "store" /\ job.kind = "query" /\ ~overlapped /\ wpc' = "next"
      /\ UNCHANGED <<did, job>>
  BY DEF StoreResult
<1>2. /\ Len(sets) < Len(did) /\ ~fetchFailed /\ errno = "none"
      /\ Fetched(sets, did, job.id) /\ (more <=> Len(sets) + 1 < Len(did))
      /\ \/ /\ did[Len(sets) + 1] = "ok"
            /\ status = "ready" /\ Ahead(wire, Len(sets) + 2, did, job.id)
         \/ /\ did[Len(sets) + 1] \in {"rows", "broken"}
            /\ status = "result" /\ Ahead(wire, Len(sets) + 1, did, job.id)
  BY <1>1 DEF CalmInv, AtStore
<1>3. HandleInv /\ sets \in Seq(Set) /\ Len(sets) \in Nat /\ NoRows \in Set
  BY BoundsAssumption DEF TypeInv, WorkerTypes, NoRows, Set
<1>4. Plausible(did) /\ Len(did) \in Nat
  <2>1. did \in Results \/ did = <<>>
    BY DEF TypeInv, WorkerTypes
  <2>2. did # <<>>
    BY <1>2, <1>3
  <2> QED BY <2>1, <2>2, ResultFacts DEF Plausible
<1>5. ASSUME NEW s \in Set, sets' = Append(sets, s), s = Kept(did[Len(sets) + 1], job.id),
             did[Len(sets) + 1] \in {"ok", "rows"}, UNCHANGED <<fetchFailed, errno, more>>,
             status' = "ready", Ahead(wire', Len(sets) + 2, did, job.id)
      PROVE  CalmInv'
  <2>1. Len(sets') = Len(sets) + 1 /\ Fetched(sets', did, job.id)
    BY <1>2, <1>3, <1>5, FetchedAppend
  <2>2. Len(sets') <= Len(did) /\ (more' <=> Len(sets') < Len(did)) /\ Len(sets') + 1 = Len(sets) + 2
    BY <1>2, <1>3, <1>4, <1>5, <2>1
  <2>3. AtNext'
    BY <1>1, <1>2, <1>5, <2>1, <2>2 DEF AtNext
  <2> QED BY <1>1, <2>3, OnePlace
<1>6. CASE NothingToStore /\ sets' = Append(sets, NoRows) /\ UNCHANGED fetchFailed
  <2>1. status = "ready" /\ UNCHANGED <<status, wire, more, errno>>
    BY <1>6 DEF NothingToStore, handleVars
  <2>2. did[Len(sets) + 1] = "ok" /\ Ahead(wire, Len(sets) + 2, did, job.id)
    BY <1>2, <2>1
  <2>3. NoRows = Kept(did[Len(sets) + 1], job.id)
    BY <2>2 DEF Kept
  <2> QED BY <1>3, <1>5, <1>6, <2>1, <2>2, <2>3
<1>7. CASE StoreFails /\ fetchFailed' = TRUE
  <2>1. status' = "ready" /\ (link' = "lost" \/ (wire' = <<>> /\ ~more'))
    BY <1>3, <1>7, StoreFailsFacts DEF Lost
  <2>2. fetchFailed'
    BY <1>7
  <2>3. AtNext'
    BY <1>1, <2>1, <2>2 DEF AtNext
  <2> QED BY <1>1, <2>3, OnePlace
<1>8. CASE /\ StoreSucceeds /\ UNCHANGED fetchFailed
           /\ sets' = Append(sets, [rows |-> TRUE, of |-> Head(wire).of])
  <2>1. /\ status = "result" /\ wire # <<>> /\ Head(wire).what = "rows"
        /\ status' = "ready" /\ wire' = Tail(wire) /\ UNCHANGED <<link, more, errno>>
    BY <1>3, <1>8, StoreSucceedsFacts
  <2>2. Ahead(wire, Len(sets) + 1, did, job.id)
    BY <1>2, <2>1
  <2>3. wire \in Seq(Piece) /\ did \in Seq(What) /\ Len(sets) + 1 \in Nat /\ Len(sets) + 2 = (Len(sets) + 1) + 1
    BY <1>3, <1>4 DEF HandleInv, Plausible
  <2>4. /\ Ahead(wire', (Len(sets) + 1) + 1, did, job.id)
        /\ Head(wire) = [what |-> did[Len(sets) + 1], of |-> job.id]
    BY <2>1, <2>2, <2>3, AheadTail
  <2>5. did[Len(sets) + 1] = "rows" /\ Head(wire).of = job.id
    BY <2>1, <2>4
  <2>6. /\ [rows |-> TRUE, of |-> Head(wire).of] = Kept(did[Len(sets) + 1], job.id)
        /\ [rows |-> TRUE, of |-> Head(wire).of] \in Set
    <3>1. job.id \in 0 .. MaxJobs
      BY DEF TypeInv, WorkerTypes
    <3> QED BY <2>5, <3>1 DEF Kept, Set
  <2>7. Ahead(wire', Len(sets) + 2, did, job.id)
    BY <2>3, <2>4
  <2> QED BY <1>5, <1>8, <2>1, <2>5, <2>6, <2>7
<1> QED BY <1>6, <1>7, <1>8, Zenon DEF StoreResult

LEMMA CalmNext == TypeInv /\ CalmInv /\ NextResult => CalmInv'
<1> SUFFICES ASSUME TypeInv, CalmInv, NextResult, ~overlapped' PROVE CalmInv'
  BY DEF CalmInv
<1>1. /\ wpc = "next" /\ ~overlapped
      /\ UNCHANGED <<did, called, job, sets, stmtErrno, fetchFailed>>
  BY DEF NextResult
<1>2. /\ job.kind = "query" /\ status = "ready"
      /\ \/ /\ ~fetchFailed /\ errno = "none"
            /\ Len(sets) <= Len(did) /\ Fetched(sets, did, job.id)
            /\ (more <=> Len(sets) < Len(did)) /\ Ahead(wire, Len(sets) + 1, did, job.id)
         \/ fetchFailed /\ (link = "lost" \/ (wire = <<>> /\ ~more))
  BY <1>1 DEF CalmInv, AtNext
<1>3. HandleInv /\ Len(sets) \in Nat /\ wire \in Seq(Piece)
  BY DEF TypeInv, WorkerTypes, HandleInv
<1>4. did = <<>> \/ Plausible(did)
  BY ResultFacts DEF TypeInv, WorkerTypes
<1>5. did \in Seq(What) /\ Len(did) \in Nat
  <2>1. did = <<>> => did \in Seq(What)
    OBVIOUS
  <2>2. did \in Seq(What)
    BY <1>4, <2>1 DEF Plausible
  <2> QED BY <2>2
<1>6. Code' = errno'
  BY <1>1, <1>2 DEF Code
<1>7. CASE NoMoreResults /\ succeeded' = TRUE /\ wpc' = "reply"
  <2>1. status = "ready" /\ ~more /\ errno' = "none" /\ UNCHANGED <<link, status, more, wire>>
    BY <1>7 DEF NoMoreResults
  <2>2. ~fetchFailed => Len(sets) = Len(did) /\ Fetched(sets, did, job.id)
    BY <1>2, <1>3, <1>5, <2>1
  <2>3. ~fetchFailed => Delivers(sets, did, job.id)
    BY <2>2, AllFetched
  <2>4. Complete(succeeded, fetchFailed, Code, sets, job.kind, job.id)'
    BY <1>1, <1>2, <1>6, <2>1, <2>3 DEF Complete
  <2>5. Caused(succeeded, Code, link)'
    BY <1>7 DEF Caused
  <2>6. Clean'
    <3>1. ~fetchFailed => Ahead(wire, Len(sets) + 1, did, job.id) /\ Len(sets) + 1 = Len(did) + 1
      BY <1>2, <2>2
    <3>2. ~fetchFailed => wire = <<>>
      BY <1>3, <1>5, <3>1, NothingAhead
    <3> QED BY <1>2, <2>1, <3>2 DEF Clean, OutOfSync
  <2> QED BY <1>7, <2>4, <2>5, <2>6, OnePlace DEF AtReply
<1>8. ASSUME status = "ready", more, link = "up", ReadResult(wire), UNCHANGED link
      PROVE  /\ ~fetchFailed /\ Fetched(sets, did, job.id) /\ Len(sets) < Len(did)
             /\ Head(wire).what = did[Len(sets) + 1]
             /\ ReadIs(Len(sets) + 1, did, job.id) /\ Plausible(did)
  <2>1. /\ ~fetchFailed /\ Fetched(sets, did, job.id) /\ Len(sets) < Len(did)
        /\ Ahead(wire, Len(sets) + 1, did, job.id)
    BY <1>2, <1>8
  <2>2. Plausible(did) /\ wire # <<>>
    <3>1. did # <<>>
      BY <1>3, <2>1
    <3> QED BY <1>3, <1>4, <1>8, <3>1 DEF HandleInv
  <2>3. Len(sets) + 1 \in Nat \ {0} /\ Len(sets) + 1 \in Nat
    BY <1>3
  <2>4. ReadIs(Len(sets) + 1, did, job.id)
    BY <1>3, <1>8, <2>1, <2>2, <2>3, ReadFacts
  <2>5. Head(wire) = [what |-> did[Len(sets) + 1], of |-> job.id]
    BY <1>3, <1>5, <2>1, <2>2, <2>3, AheadTail
  <2> QED BY <2>1, <2>2, <2>4, <2>5
<1>9. CASE NextResultFails /\ succeeded' = FALSE /\ wpc' = "reply"
  <2>1. CASE errno' = "lost" /\ link = "lost" /\ UNCHANGED link
    <3>1. ~succeeded' /\ link' = "lost"
      BY <1>9, <2>1
    <3> QED BY <1>6, <1>9, <2>1, <3>1, OnePlace DEF AtReply, Complete, Caused, Clean
  <2>2. CASE /\ status = "ready" /\ more /\ link = "up"
             /\ Head(wire).what = "error" /\ ReadResult(wire) /\ UNCHANGED link
    <3>1. /\ Len(sets) < Len(did) /\ did[Len(sets) + 1] = "error"
          /\ ReadIs(Len(sets) + 1, did, job.id) /\ Plausible(did)
      BY <1>8, <2>2
    <3>2. /\ status' = "ready" /\ errno' = "server" /\ wire' = <<>> /\ ~more'
          /\ Len(sets) + 1 = Len(did)
      BY <3>1 DEF ReadIs
    <3>3. did # <<>> /\ did[Len(did)] = "error" /\ ~succeeded'
      BY <1>3, <1>9, <3>1, <3>2
    <3> QED BY <1>1, <1>6, <1>9, <3>2, <3>3, OnePlace
            DEF AtReply, Complete, Caused, Clean, OutOfSync
  <2> QED BY <1>2, <1>9, <2>1, <2>2 DEF NextResultFails
<1>10. CASE NextResultArrives /\ wpc' = "store"
  <2>1. /\ status = "ready" /\ more /\ link = "up" /\ Head(wire).what # "error"
        /\ ReadResult(wire) /\ UNCHANGED link
    BY <1>10 DEF NextResultArrives
  <2>2. /\ ~fetchFailed /\ Fetched(sets, did, job.id) /\ Len(sets) < Len(did)
        /\ did[Len(sets) + 1] # "error"
        /\ ReadIs(Len(sets) + 1, did, job.id) /\ Plausible(did)
    BY <1>8, <2>1
  <2>3. did[Len(sets) + 1] \in What /\ (Len(sets) + 1) + 1 = Len(sets) + 2
    BY <1>3, <2>2 DEF Plausible
  <2>4. /\ errno' = "none" /\ (more' <=> Len(sets) + 1 < Len(did))
        /\ \/ /\ did[Len(sets) + 1] = "ok"
              /\ status' = "ready" /\ Ahead(wire', Len(sets) + 2, did, job.id)
           \/ /\ did[Len(sets) + 1] \in {"rows", "broken"}
              /\ status' = "result" /\ Ahead(wire', Len(sets) + 1, did, job.id)
    BY <2>2, <2>3 DEF ReadIs, What
  <2>5. AtStore'
    BY <1>1, <1>2, <2>2, <2>4 DEF AtStore
  <2> QED BY <1>10, <2>5, OnePlace
<1> QED BY <1>7, <1>9, <1>10 DEF NextResult

LEMMA CalmStatement == TypeInv /\ CalmInv /\ StoreStatementResult => CalmInv'
<1> SUFFICES ASSUME TypeInv, CalmInv, StoreStatementResult, ~overlapped' PROVE CalmInv'
  BY DEF CalmInv
<1>1. /\ wpc = "store" /\ job.kind = "statement" /\ ~overlapped /\ wpc' = "reply"
      /\ UNCHANGED <<did, called, job>>
  BY DEF StoreStatementResult
<1>2. /\ sets = <<>> /\ ~fetchFailed /\ stmtErrno = "none" /\ (called \/ Len(did) = 1)
      /\ Len(sets) < Len(did) /\ (more <=> Len(sets) + 1 < Len(did))
      /\ did[Len(sets) + 1] \in {"rows", "broken"} /\ status = "result"
      /\ Ahead(wire, Len(sets) + 1, did, job.id)
  BY <1>1 DEF CalmInv, AtStore
<1>3. Len(sets) = 0 /\ Len(sets) + 1 = 1
  BY <1>2
<1>4. HandleInv /\ wire \in Seq(Piece) /\ wire # <<>>
  BY <1>2 DEF TypeInv, HandleInv
<1>5. Plausible(did) /\ did \in Seq(What) /\ did # <<>>
  <2>1. did \in Results \/ did = <<>>
    BY DEF TypeInv, WorkerTypes
  <2>2. did # <<>>
    BY <1>2, <1>3
  <2> QED BY <2>1, <2>2, ResultFacts DEF Plausible
<1>6. /\ Ahead(Tail(wire), 1 + 1, did, job.id) /\ Tail(wire) \in Seq(Piece)
      /\ Head(wire) = [what |-> did[1], of |-> job.id]
  <2>1. Ahead(wire, 1, did, job.id)
    BY <1>2, <1>3
  <2> QED BY <1>4, <1>5, <2>1, AheadTail
<1>7. Code' = stmtErrno'
  BY <1>1 DEF Code
<1>8. CASE /\ StoreSucceeds /\ succeeded' = TRUE /\ UNCHANGED <<stmtErrno, fetchFailed>>
           /\ sets' = <<[rows |-> TRUE, of |-> Head(wire).of]>>
  <2>1. /\ Head(wire).what = "rows" /\ status' = "ready" /\ wire' = Tail(wire)
        /\ UNCHANGED <<link, more, errno>>
    BY <1>4, <1>8, StoreSucceedsFacts
  <2>2. did[1] = "rows" /\ sets' = <<Kept(did[1], job.id)>>
    <3>1. did[1] = "rows" /\ Head(wire).of = job.id
      BY <1>6, <2>1
    <3>2. [rows |-> TRUE, of |-> Head(wire).of] = Kept(did[1], job.id)
      BY <3>1 DEF Kept
    <3> QED BY <1>8, <3>1, <3>2
  <2>3. Complete(succeeded, fetchFailed, Code, sets, job.kind, job.id)'
    <3>1. Delivers(sets', SubSeq(did, 1, 1), job.id)
      BY <1>5, <2>2, FirstDelivered
    <3> QED BY <1>1, <1>2, <1>7, <1>8, <3>1 DEF Complete
  <2>4. Caused(succeeded, Code, link)'
    BY <1>8 DEF Caused
  <2>5. Clean'
    <3>1. Len(did) = 1 => Tail(wire) = <<>>
      <4>1. Len(did) = 1 => 1 + 1 = Len(did) + 1
        OBVIOUS
      <4> QED BY <1>5, <1>6, <4>1, NothingAhead
    <3>2. Len(did) = 1 => ~more
      BY <1>2, <1>3
    <3> QED BY <1>1, <1>2, <2>1, <3>1, <3>2 DEF Clean, OutOfSync
  <2> QED BY <1>1, <2>3, <2>4, <2>5, OnePlace DEF AtReply
<1>9. CASE StoreFails /\ succeeded' = FALSE /\ stmtErrno' = errno'
  <2>1. /\ status' = "ready" /\ link' = link
        /\ \/ Lost
           \/ errno' = "server" /\ wire' = <<>> /\ ~more' /\ Head(wire).what = "broken"
    BY <1>4, <1>9, StoreFailsFacts
  <2>2. Head(wire).what = "broken" => (called \/ did[Len(did)] = "broken")
    BY <1>2, <1>6
  <2>3. ~succeeded'
    BY <1>9
  <2> QED BY <1>1, <1>5, <1>7, <1>9, <2>1, <2>2, <2>3, OnePlace
          DEF AtReply, Complete, Caused, Clean, OutOfSync, Lost
<1> QED BY <1>2, <1>8, <1>9, Zenon DEF StoreStatementResult

LEMMA CalmReply == TypeInv /\ CalmInv /\ Reply => CalmInv'
<1> SUFFICES ASSUME TypeInv, CalmInv, Reply, ~overlapped' PROVE CalmInv'
  BY DEF CalmInv
<1>1. /\ wpc = "reply" /\ wpc' = "idle" /\ ~overlapped
      /\ UNCHANGED <<link, status, more, wire, did, called>>
      /\ reply' = [job |-> job.id, kind |-> job.kind, succeeded |-> succeeded,
                   code |-> Code, sets |-> IF succeeded THEN sets ELSE <<>>,
                   fetchFailed |-> fetchFailed, link |-> link]
  BY DEF Reply, Code, handleVars
<1>2. AtReply
  BY <1>1 DEF CalmInv
<1>3. Clean'
  BY <1>1, <1>2 DEF AtReply, Clean, OutOfSync
<1>4. /\ reply'.succeeded = succeeded /\ reply'.fetchFailed = fetchFailed
      /\ reply'.code = Code /\ reply'.kind = job.kind /\ reply'.job = job.id
      /\ reply'.link = link /\ reply'.sets = IF succeeded THEN sets ELSE <<>>
  BY <1>1
<1>5. Complete(reply.succeeded, reply.fetchFailed, reply.code, reply.sets, reply.kind, reply.job)'
  BY <1>1, <1>2, <1>4 DEF AtReply, Complete
<1>6. Caused(reply.succeeded, reply.code, reply.link)'
  BY <1>1, <1>2, <1>4 DEF AtReply, Caused
<1>7. AtIdle'
  BY <1>3, <1>5, <1>6 DEF AtIdle
<1> QED BY <1>1, <1>7, OnePlace

\* What the main thread and the network do between the worker's steps.
LEMMA CalmOpening ==
  TypeInv /\ OpenInv /\ CalmInv /\ (Main \/ LoseLink) => CalmInv'
<1> SUFFICES ASSUME TypeInv, OpenInv, CalmInv, Main \/ LoseLink, ~overlapped' PROVE CalmInv'
  BY DEF CalmInv
<1>1. ASSUME wpc = "idle", ~overlapped, UNCHANGED <<wpc, did, called, reply>>, Clean'
      PROVE  CalmInv'
  <2>1. AtIdle'
    BY <1>1 DEF CalmInv, AtIdle, Complete, Caused
  <2> QED BY <1>1, <2>1, OnePlace
<1>2. CASE LoseLink
  <2>1. /\ link' = "lost" /\ ~overlapped
        /\ UNCHANGED <<workerVars, status, more, errno, wire, did, overlapped, called>>
    BY <1>2 DEF LoseLink
  <2>2. Clean'
    BY <2>1 DEF Clean
  <2>3. AtStore'
    BY <2>1 DEF CalmInv, AtStore, workerVars
  <2>4. AtNext'
    BY <2>1 DEF CalmInv, AtNext, workerVars
  <2>5. AtReply'
    BY <2>1, <2>2 DEF CalmInv, AtReply, workerVars, Complete, Caused, Code
  <2>6. AtIdle'
    BY <2>1, <2>2 DEF CalmInv, AtIdle, workerVars, Complete, Caused
  <2> QED BY <2>3, <2>4, <2>5, <2>6 DEF CalmInv
<1>3. CASE mysql_connect
  <2>1. wpc = "idle" /\ ~overlapped /\ UNCHANGED <<wpc, did, called, reply>>
    BY <1>3 DEF mysql_connect, OpenInv, workerVars
  <2>2. Clean
    BY <2>1 DEF CalmInv, AtIdle
  <2>3. UNCHANGED handleVars \/ (status' = "ready" /\ more' = FALSE /\ wire' = <<>>)
    BY <1>3, Zenon DEF mysql_connect
  <2>4. Clean'
    BY <2>1, <2>2, <2>3 DEF Clean, OutOfSync, handleVars
  <2> QED BY <1>1, <2>1, <2>4
<1>4. CASE ConfirmCipher
  <2>1. UNCHANGED <<handleVars, workerVars, did, overlapped, called>> /\ conn = "checking"
    BY <1>4 DEF ConfirmCipher
  <2>2. wpc = "idle" /\ ~overlapped
    BY <2>1 DEF OpenInv
  <2>3. Clean'
    BY <2>1, <2>2 DEF CalmInv, AtIdle, Clean, OutOfSync, handleVars
  <2> QED BY <1>1, <2>1, <2>2, <2>3 DEF workerVars
<1>5. ASSUME NEW o, Plausible(o), CommandFails(o, 0), Clean, UNCHANGED called
      PROVE  Clean'
  <2>1. Lost \/ Refused \/ Rejected(o)
    BY <1>5, CommandFailsFacts, BoundsAssumption DEF TypeInv
  <2> QED BY <1>5, <2>1 DEF Lost, Refused, Rejected, Clean, OutOfSync
<1>6. CASE AskCipher \/ DirectCommand
  <2>1. /\ wpc = "idle" /\ ~overlapped /\ UNCHANGED <<wpc, did, called, reply>>
    <3>1. overlapped' = (overlapped \/ wpc # "idle") /\ UNCHANGED <<workerVars, did, called>>
      BY <1>6 DEF AskCipher, DirectCommand
    <3> QED BY <3>1 DEF workerVars
  <2>2. Clean
    BY <2>1 DEF CalmInv, AtIdle
  <2>3. CASE \E o \in {<<"ok">>, <<"error">>} : CommandFails(o, 0)
    BY <1>1, <1>5, <2>1, <2>2, <2>3, OneResult
  <2>4. CASE \E o \in {<<"ok">>, <<"error">>} : CommandSucceeds(o, 0)
    <3>1. PICK o \in {<<"ok">>, <<"error">>} : CommandSucceeds(o, 0)
      BY <2>4
    <3>2. Plausible(o) /\ Len(o) = 1 /\ o[1] \in {"ok", "error"}
      BY OneResult
    <3>3. HandleInv' /\ o[1] # "error" /\ ReadIs(1, o, 0)
      BY <3>1, <3>2, CommandSucceedsFacts, BoundsAssumption DEF TypeInv
    <3>4. status' = "ready" /\ ~more' /\ Ahead(wire', 1 + 1, o, 0)
      BY <3>2, <3>3 DEF ReadIs
    <3>5. o \in Seq(What) /\ wire' \in Seq(Piece) /\ 1 + 1 = Len(o) + 1
      BY <3>2, <3>3 DEF Plausible, HandleInv
    <3>6. wire' = <<>>
      BY <3>4, <3>5, NothingAhead
    <3>7. Clean'
      BY <3>4, <3>6 DEF Clean, OutOfSync
    <3> QED BY <1>1, <2>1, <3>7
  <2> QED BY <1>6, <2>3, <2>4 DEF AskCipher, DirectCommand
<1>7. CASE RefuseConnection \/ mysql_close
  <2>1. wpc = "idle" /\ Destroy
    BY <1>7 DEF RefuseConnection, mysql_close, OpenInv
  <2>2. wpc' = "idle" /\ link' = "lost" /\ reply'.job = 0
    BY <2>1 DEF Destroy, NoReply
  <2>3. AtIdle'
    BY <2>2 DEF AtIdle, Clean
  <2> QED BY <2>2, <2>3, OnePlace
<1> QED BY <1>2, <1>3, <1>4, <1>6, <1>7 DEF Main

LEMMA CalmInductive == TypeInv /\ OpenInv /\ CalmInv /\ [Next]_vars => CalmInv'
<1> SUFFICES ASSUME TypeInv, OpenInv, CalmInv, [Next]_vars PROVE CalmInv'
  OBVIOUS
<1>1. CASE Worker
  BY <1>1, CalmQuery, CalmExecute, CalmStore, CalmNext, CalmStatement, CalmReply DEF Worker
<1>2. CASE Main \/ LoseLink
  BY <1>2, CalmOpening
<1>3. CASE UNCHANGED vars
  BY <1>3 DEF vars, handleVars, workerVars, CalmInv, AtStore, AtNext, AtReply, AtIdle,
              Complete, Caused, Clean, OutOfSync, Code
<1> QED BY <1>1, <1>2, <1>3 DEF Next

-----------------------------------------------------------------------------
(* The theorems *)

LEMMA Inductive == Spec => []IInv
<1>1. Init => IInv
  <2> SUFFICES ASSUME Init PROVE IInv
    OBVIOUS
  <2>1. TypeInv
    BY InitTypes
  <2>2. wpc = "idle" /\ conn = "none" /\ link = "lost" /\ reply = NoReply
    BY Zenon DEF Init
  <2>3. OpenInv
    BY <2>2 DEF OpenInv
  <2>4. AtIdle /\ AtStore /\ AtNext /\ AtReply
    BY <2>2 DEF AtIdle, AtStore, AtNext, AtReply, Clean, NoReply
  <2> QED BY <2>1, <2>3, <2>4 DEF IInv, CalmInv
<1>2. IInv /\ [Next]_vars => IInv'
  BY TypeInductive, OpenInductive, CalmInductive DEF IInv
<1> QED BY <1>1, <1>2, PTL DEF Spec, SafeSpec

\* loop() moves the result into the job on success alone.
FailureIsEmpty == ~reply.succeeded => reply.sets = <<>>

\* A failed job carries no result.
LEMMA FailuresEmpty == Spec => []FailureIsEmpty
<1>1. Init => FailureIsEmpty
  BY DEF Init, FailureIsEmpty, NoReply
<1>2. FailureIsEmpty /\ [Next]_vars => FailureIsEmpty'
  <2> SUFFICES ASSUME FailureIsEmpty, [Next]_vars PROVE FailureIsEmpty'
    OBVIOUS
  <2>1. CASE Reply
    <3>1. /\ reply'.succeeded = succeeded
          /\ reply'.sets = IF succeeded THEN sets ELSE <<>>
      BY <2>1 DEF Reply
    <3> QED BY <3>1 DEF FailureIsEmpty
  <2>2. CASE Destroy
    BY <2>2 DEF Destroy, NoReply, FailureIsEmpty
  <2>3. CASE UNCHANGED reply
    BY <2>3 DEF FailureIsEmpty
  <2>4. Worker => Reply \/ UNCHANGED reply
    BY DEF Worker, QueryBuffered, Execute, Begin, StoreResult, NextResult, StoreStatementResult
  <2>5. Main \/ LoseLink => Destroy \/ UNCHANGED reply
    BY DEF Main, mysql_connect, ConfirmCipher, AskCipher, RefuseConnection, DirectCommand,
           mysql_close, LoseLink, workerVars
  <2>6. UNCHANGED vars => UNCHANGED reply
    BY DEF vars, workerVars
  <2> QED BY <2>1, <2>2, <2>3, <2>4, <2>5, <2>6 DEF Next
<1> QED BY <1>1, <1>2, PTL DEF Spec, SafeSpec

\* Every variable has its type and a failure carries no result, for any number of jobs,
\* results and calls.
THEOREM TypeCorrect == Spec => []TypeOK
<1>1. IInv /\ FailureIsEmpty => TypeOK
  <2> SUFFICES ASSUME TypeInv, FailureIsEmpty PROVE TypeOK
    BY DEF IInv
  <2>1. {succeeded, fetchFailed, overlapped, called} \subseteq BOOLEAN
    BY Zenon DEF TypeInv, WorkerTypes, OpenTypes
  <2>2. HandleInv /\ WorkerTypes /\ OpenTypes /\ CountTypes
    BY DEF TypeInv
  <2>3. wire \in Seq([what : {"ok", "rows", "error", "broken"}, of : 0 .. MaxJobs])
    BY <2>2 DEF HandleInv, Piece, What
  <2> QED BY <2>1, <2>2, <2>3, Zenon DEF TypeOK, HandleInv, WorkerTypes, OpenTypes, CountTypes, FailureIsEmpty
<1> QED BY <1>1, Inductive, FailuresEmpty, PTL

\* DoConnect: whatever the options and the server, a registered connection is
\* encrypted, and verified if that is what the options ask.
THEOREM VerifiedCorrect == Spec => []VerifiedAsAsked
<1>1. IInv => VerifiedAsAsked
  BY DEF IInv, OpenInv, VerifiedAsAsked
<1> QED BY <1>1, Inductive, PTL

\* queryBuffered: a query of any number of results leaves nothing to read behind.
THEOREM LeftCleanCorrect == Spec => []CalmLeftClean
<1>1. IInv => CalmLeftClean
  BY DEF IInv, CalmInv, AtIdle, Clean, CalmLeftClean
<1> QED BY <1>1, Inductive, PTL

\* queryBuffered, execute and loop, for jobs the main thread's natives did not meet: a success
\* whose rows all arrived carries the job's results and nothing else (of a statement: the first,
\* which is all that execute reads); a failure has its cause in the job, if no statement before
\* it on the connection left results unread.
THEOREM RepliesCorrect == Spec => []CalmRepliesAreTrue
<1>1. IInv => CalmRepliesAreTrue
  <2> SUFFICES ASSUME CalmInv, Answered, ~overlapped
               PROVE  /\ Complete(reply.succeeded, reply.fetchFailed, reply.code, reply.sets,
                                  reply.kind, reply.job)
                      /\ Caused(reply.succeeded, reply.code, reply.link)
    BY DEF IInv, CalmRepliesAreTrue, CalmSuccessIsComplete, CalmFailureHasItsCause,
           Complete, Caused
  <2> QED BY DEF CalmInv, AtIdle, Answered
<1> QED BY <1>1, Inductive, PTL

-----------------------------------------------------------------------------
(* Why a job ends *)

\* How many steps of the worker a job takes at most, from where it is.
Steps ==
    CASE wpc = "store" -> 2 * (Len(wire) - IF status = "result" THEN 1 ELSE 0) + 3
      [] wpc = "next"  -> 2 * Len(wire) + 2
      [] wpc = "reply" -> 1
      [] OTHER -> 0

\* A job comes nearer to its end with every step of the worker, and nothing else takes
\* it further away: not a command of the main thread on the same handle, nor a lost link.
JobEnds == [][wpc # "idle" => Steps' <= Steps /\ (InJob => Steps' < Steps)]_vars

\* Wherever the worker is, one of the outcomes of the library call it makes is there: the
\* rows it stores are on the wire, broken or cut off; the next result is there, or is none.
NothingAwaited ==
    /\ wpc = "store" => status = "ready" \/ link = "lost" \/ Head(wire).what \in {"rows", "broken"}
    /\ wpc = "next" => status # "ready" \/ ~more \/ link = "lost" \/ wire # <<>>

\* A result that waits to be stored is one of rows.
HeadInv == status = "result" => Head(wire).what \in {"rows", "broken"}

\* A command of the main thread has one answer: it leaves what is on the wire, or was
\* sent with nothing on it and leaves nothing.
LEMMA DirectFacts ==
  ASSUME HandleInv, NEW o \in {<<"ok">>, <<"error">>},
         CommandSucceeds(o, 0) \/ CommandFails(o, 0)
  PROVE  \/ UNCHANGED <<status, wire>>
         \/ status = "ready" /\ status' = "ready" /\ wire' = <<>>
<1>1. CASE Reaches /\ ReadResult(Sent(o, 0))
  <2>1. Plausible(o) /\ Len(o) = 1 /\ o[1] \in {"ok", "error"} /\ 0 \in 0 .. MaxJobs
    BY OneResult, BoundsAssumption
  <2>2. Sent(o, 0) \in Seq(Piece) /\ Len(Sent(o, 0)) = 1 /\ Ahead(Sent(o, 0), 1, o, 0)
    BY <2>1, SentFacts DEF Plausible
  <2>3. Head(Sent(o, 0)).what \in {"ok", "error"}
    <3>1. Sent(o, 0) # <<>>
      BY <2>2
    <3>2. Head(Sent(o, 0)) = [what |-> o[1], of |-> 0]
      BY <2>1, <2>2, <3>1, AheadTail DEF Plausible
    <3> QED BY <2>1, <3>2
  <2>4. Tail(Sent(o, 0)) = <<>>
    <3>1. \A s \in Seq(Piece) : Len(s) = 1 => Len(Tail(s)) = 0 /\ Tail(s) \in Seq(Piece)
      OBVIOUS
    <3>2. \A s \in Seq(Piece) : Len(s) = 0 => s = <<>>
      OBVIOUS
    <3> QED BY <2>2, <3>1, <3>2
  <2>5. wire' = <<>> /\ status' = "ready"
    BY <1>1, <2>3, <2>4 DEF ReadResult
  <2> QED BY <1>1, <2>5 DEF Reaches, OutOfSync, HandleInv
<1> QED BY <1>1 DEF CommandSucceeds, CommandFails

\* A result that is read waits if it has rows.
LEMMA HeadRead == ASSUME NEW w, ReadResult(w) PROVE HeadInv'
BY DEF ReadResult, HeadInv

\* So does the first result of a command.
LEMMA HeadCommand ==
  ASSUME HeadInv, NEW o, NEW id, CommandSucceeds(o, id) \/ CommandFails(o, id)
  PROVE  HeadInv'
<1>1. CASE ReadResult(Sent(o, id))
  BY <1>1, HeadRead
<1>2. CASE UNCHANGED <<status, wire>>
  BY <1>2 DEF HeadInv
<1> QED BY <1>1, <1>2 DEF CommandSucceeds, CommandFails

\* Only a result with rows ever waits, in any reachable state.
LEMMA HeadInductive == HeadInv /\ [Next]_vars => HeadInv'
<1> SUFFICES ASSUME HeadInv, [Next]_vars PROVE HeadInv'
  OBVIOUS
<1>1. CASE QueryBuffered \/ Execute \/ DirectCommand
  <2>1. PICK o, id : CommandSucceeds(o, id) \/ CommandFails(o, id)
    BY <1>1 DEF QueryBuffered, Execute, DirectCommand
  <2> QED BY <2>1, HeadCommand
<1>2. CASE AskCipher
  BY <1>2, HeadCommand DEF AskCipher
<1>3. CASE NextResult
  <2>1. CASE UNCHANGED <<status, wire>>
    BY <2>1 DEF HeadInv
  <2>2. CASE ReadResult(wire)
    BY <2>2, HeadRead
  <2> QED BY <1>3, <2>1, <2>2 DEF NextResult, NoMoreResults, NextResultFails, NextResultArrives
<1>4. CASE StoreResult \/ StoreStatementResult
  BY <1>4 DEF StoreResult, StoreStatementResult, NothingToStore, StoreFails, StoreSucceeds,
              handleVars, HeadInv
<1>5. CASE mysql_connect \/ RefuseConnection \/ mysql_close
  BY <1>5 DEF mysql_connect, RefuseConnection, mysql_close, Destroy, handleVars, HeadInv
<1>6. CASE Reply \/ ConfirmCipher \/ LoseLink \/ UNCHANGED vars
  BY <1>6 DEF Reply, ConfirmCipher, LoseLink, vars, handleVars, HeadInv
<1> QED BY <1>1, <1>2, <1>3, <1>4, <1>5, <1>6 DEF Next, Worker, Main

\* queryBuffered never waits for a result the server did not announce: in every reachable
\* state the next call of the worker has an outcome.
THEOREM NothingAwaitedCorrect == Spec => []NothingAwaited
<1>1. Init => HeadInv
  BY DEF Init, HeadInv
<1>2. IInv /\ HeadInv => NothingAwaited
  <2> SUFFICES ASSUME HandleInv, HeadInv PROVE NothingAwaited
    BY DEF IInv, TypeInv
  <2>1. more => wire # <<>>
    BY DEF HandleInv
  <2> QED BY <2>1 DEF HandleInv, HeadInv, NothingAwaited
<1> QED BY <1>1, <1>2, HeadInductive, Inductive, PTL DEF Spec, SafeSpec

\* What a step of the worker does to the wire.
LEMMA StoreSteps ==
  ASSUME HandleInv, NothingToStore \/ StoreFails \/ StoreSucceeds, wpc = "store", wpc' \in {"next", "reply"}
  PROVE  Steps' < Steps
<1>1. Len(wire) \in Nat /\ status \in {"ready", "result"} /\ (status = "result" => Len(wire) > 0)
  BY DEF HandleInv
<1>2. \/ status = "ready" /\ wire' = wire
      \/ status = "result" /\ Len(wire') \in Nat /\ Len(wire') <= Len(wire) - 1
  <2>1. CASE NothingToStore
    BY <2>1 DEF NothingToStore, handleVars
  <2>2. CASE status = "result" /\ wire' \in {<<>>, Tail(wire)}
    <3>1. wire # <<>> /\ wire \in Seq(Piece)
      BY <2>2 DEF HandleInv
    <3>2. Len(Tail(wire)) = Len(wire) - 1 /\ Len(Tail(wire)) \in Nat /\ Len(<<>>) = 0
      BY <3>1
    <3> QED BY <1>1, <2>2, <3>2
  <2> QED BY <2>1, <2>2 DEF StoreFails, StoreSucceeds
<1> QED BY <1>1, <1>2 DEF Steps

LEMMA NextSteps ==
  ASSUME HandleInv, NextResult
  PROVE  Steps' < Steps
<1>1. Len(wire) \in Nat /\ wire \in Seq(Piece) /\ wpc = "next"
  BY DEF HandleInv, NextResult
<1>2. CASE wpc' = "reply"
  BY <1>1, <1>2 DEF Steps
<1>3. CASE NextResultArrives /\ wpc' = "store"
  <2>1. wire # <<>> /\ ReadResult(wire)
    BY <1>3 DEF HandleInv, NextResultArrives
  <2>2. Len(Tail(wire)) = Len(wire) - 1 /\ Len(wire) > 0
    BY <1>1, <2>1
  <2>3. \/ status' = "result" /\ wire' = wire
        \/ status' = "ready" /\ wire' = Tail(wire)
    BY <2>1 DEF ReadResult
  <2> QED BY <1>1, <1>3, <2>2, <2>3 DEF Steps
<1> QED BY <1>2, <1>3 DEF NextResult

\* The bound is a natural number, before and after a step.
LEMMA StepsType == IInv => Steps \in Nat
<1> SUFFICES ASSUME HandleInv PROVE Steps \in Nat
  BY DEF IInv, TypeInv
<1>1. Len(wire) \in Nat /\ (status = "result" => Len(wire) > 0)
  BY DEF HandleInv
<1> QED BY <1>1 DEF Steps

\* The safety core of EveryQueryAnswered: queryBuffered's loop is bounded by what the server
\* sent, whatever the main thread does with the handle, for any number of results.
THEOREM JobEndsCorrect == Spec => JobEnds
<1>1. ASSUME IInv, [Next]_vars, wpc # "idle"
      PROVE  Steps' < Steps \/ (~InJob /\ Steps' <= Steps)
  <2>0. /\ HandleInv /\ wpc \in {"store", "next", "reply"} /\ conn = "registered"
        /\ Len(wire) \in Nat /\ Steps \in Nat
    <3>1. HandleInv /\ wpc \in {"store", "next", "reply"} /\ conn = "registered"
      BY <1>1 DEF IInv, TypeInv, WorkerTypes, OpenInv
    <3>2. Len(wire) \in Nat /\ (status = "result" => Len(wire) > 0)
      BY <3>1 DEF HandleInv
    <3> QED BY <3>1, <3>2 DEF Steps
  <2>1. CASE InJob
    <3>1. CASE StoreResult
      BY <2>0, <3>1, StoreSteps DEF StoreResult
    <3>2. CASE NextResult
      BY <2>0, <3>2, NextSteps
    <3>3. CASE StoreStatementResult
      <4>1. wpc = "store" /\ wpc' = "reply"
        BY <3>3 DEF StoreStatementResult
      <4> QED BY <2>0, <4>1 DEF Steps, HandleInv
    <3>4. CASE Reply
      BY <3>4 DEF Reply, Steps
    <3> QED BY <2>1, <3>1, <3>2, <3>3, <3>4 DEF InJob
  <2>2. CASE ~InJob
    <3>0. DirectCommand \/ AskCipher \/ LoseLink \/ UNCHANGED vars
      BY <1>1, <2>0, <2>2 DEF Next, Worker, Main, InJob, QueryBuffered, Execute, Begin,
                              mysql_connect, ConfirmCipher, RefuseConnection, mysql_close
    <3>1. wpc' = wpc
      BY <3>0 DEF DirectCommand, AskCipher, LoseLink, vars, workerVars
    <3>2. UNCHANGED <<status, wire>> \/ (status = "ready" /\ status' = "ready" /\ wire' = <<>>)
      <4>1. CASE DirectCommand \/ AskCipher
        <5>1. PICK o \in {<<"ok">>, <<"error">>} : CommandSucceeds(o, 0) \/ CommandFails(o, 0)
          BY <4>1 DEF DirectCommand, AskCipher
        <5> QED BY <2>0, <5>1, DirectFacts
      <4>2. CASE LoseLink \/ UNCHANGED vars
        BY <4>2 DEF LoseLink, vars, handleVars
      <4> QED BY <3>0, <4>1, <4>2
    <3>3. Steps' <= Steps
      BY <2>0, <3>1, <3>2 DEF Steps
    <3> QED BY <2>2, <3>3
  <2> QED BY <2>1, <2>2
<1> DEFINE Bounded == Steps \in Nat
<1>2. IInv /\ Bounded /\ Bounded' /\ [Next]_vars =>
        [wpc # "idle" => Steps' <= Steps /\ (InJob => Steps' < Steps)]_vars
  BY <1>1
<1>3. IInv => Bounded
  BY StepsType
<1> HIDE DEF Bounded
<1> QED BY <1>2, <1>3, Inductive, PTL DEF Spec, SafeSpec, JobEnds
=============================================================================
