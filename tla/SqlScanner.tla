----------------------------- MODULE SqlScanner -----------------------------
(***************************************************************************)
(* The two lexers of the component: isMultiStatement, which looks for a    *)
(* second statement in a query, and CountPlaceholders, which counts the    *)
(* parameters of a prepared statement.  They are two loops, written twice  *)
(* over the same lexical rules; here either runs over any text, one loop   *)
(* iteration a step.                                                       *)
(*                                                                         *)
(* Beside them goes a reference without states: what a token is and where  *)
(* it ends is said of the text as a whole.                                 *)
(***************************************************************************)
EXTENDS Integers, Sequences, FiniteSets

CONSTANTS
    Chars,    \* the characters of the texts, by the class the lexers see
    MaxLen    \* bound on the length of a text

Quotes == {"apostrophe", "quotation", "backtick"}
Spaces == {"space", "newline"}
Alphabet == Quotes \cup Spaces
    \cup {"backslash", "dash", "hash", "slash", "star", "semicolon", "question", "letter"}

ASSUME CharsAssumption == Chars \subseteq Alphabet
ASSUME LenAssumption == MaxLen \in Nat

VARIABLES
    text,          \* sql
    pc,            \* which function runs, or has returned
    i,             \* its index, from 1
    state,         \* isMultiStatement's state, S::SQuote and the like by their quote
    sawSeparator,
    verdict,       \* what it returned
    quote,         \* CountPlaceholders' open quote, or "Normal"
    lineComment,
    blockComment,
    count,
    seen,          \* history: positions taken as code
    ref            \* history: the reference, up to i

multiVars == <<state, sawSeparator, verdict>>
countVars == <<quote, lineComment, blockComment, count>>
scanVars == <<text, pc, i, multiVars, countVars, seen, ref>>
-----------------------------------------------------------------------------
(* The reference. *)

CharAt(t, k) == IF k \in 1 .. Len(t) THEN t[k] ELSE "end"

\* A token starts with a quote, opens a comment, or is one character of code.
OpensLine(t, k) ==
    CharAt(t, k) = "hash" \/ (CharAt(t, k) = "dash" /\ CharAt(t, k + 1) = "dash")
OpensBlock(t, k) == CharAt(t, k) = "slash" /\ CharAt(t, k + 1) = "star"
IsCode(t, k) == CharAt(t, k) \notin Quotes /\ ~OpensLine(t, k) /\ ~OpensBlock(t, k)

\* In a literal from k on: the backslashes right before j come in pairs.
Unescaped(t, k, j) ==
    \E m \in k .. j - 1, h \in 0 .. j :
        /\ j = m + 1 + 2 * h
        /\ t[m] # "backslash" /\ \A p \in m + 1 .. j - 1 : t[p] = "backslash"

\* The token that starts at k ends with the character at j.
Ends(t, k, j) ==
    \/ t[k] = "backtick" /\ j > k /\ t[j] = "backtick"
    \/ t[k] \in {"apostrophe", "quotation"} /\ j > k /\ t[j] = t[k] /\ Unescaped(t, k, j)
    \/ OpensLine(t, k) /\ t[j] = "newline"
    \/ OpensBlock(t, k) /\ j > k + 2 /\ t[j - 1] = "star" /\ t[j] = "slash"
    \/ IsCode(t, k) /\ j = k

\* With j read: where the current token started, which characters were code, and where
\* a literal or a quoted identifier began.
Start == [token |-> 1, code |-> {}, quoted |-> {}]
Read(r, t, j) ==
    IF j > Len(t) THEN r
    ELSE [token |-> IF Ends(t, r.token, j) THEN j + 1 ELSE r.token,
          code |-> IF j = r.token /\ IsCode(t, j) THEN r.code \cup {j} ELSE r.code,
          quoted |-> IF j = r.token /\ t[j] \in Quotes THEN r.quoted \cup {j} ELSE r.quoted]

\* The SQL of a text that is neither empty nor a comment: its words, by their first
\* character, quoted or not, and the separators between them.
Separators(t, r) == {k \in r.code : t[k] = "semicolon"}
Words(t, r) == {k \in r.code : t[k] \notin Spaces \cup {"semicolon"}} \cup r.quoted

\* More than one statement, as MySQLComponent.hpp:213-215 has it: a separator with SQL
\* on both of its sides.
Documented(t, r) ==
    \E p, s \in Words(t, r), q \in Separators(t, r) : p < q /\ q < s

\* The two kinds of text the code judges otherwise: the first statement is empty, or
\* nothing but quoted text comes behind the separators.
FirstIsEmpty(t, r) == \E q \in Separators(t, r) : \A p \in Words(t, r) : q < p
RestIsQuoted(t, r) == \A q \in Separators(t, r), s \in Words(t, r) : q < s => s \in r.quoted

Placeholders(t, code) == {k \in code : t[k] = "question"}
-----------------------------------------------------------------------------
ScanInit ==
    /\ text \in UNION {[1 .. len -> Chars] : len \in 0 .. MaxLen}
    /\ pc \in {"multi", "count"} /\ i = 1
    /\ state = "Normal" /\ sawSeparator = FALSE /\ verdict = FALSE
    /\ quote = "Normal" /\ lineComment = FALSE /\ blockComment = FALSE /\ count = 0
    /\ seen = {} /\ ref = Start

c == CharAt(text, i)
n == CharAt(text, i + 1)

\* The rest of an iteration: ++i of the loop, with another ++i before it.
Skip1 == i' = i + 1 /\ ref' = Read(ref, text, i) /\ UNCHANGED text
Skip2 == i' = i + 2 /\ ref' = Read(Read(ref, text, i), text, i + 1) /\ UNCHANGED text

(* isMultiStatement *)
In(s) == pc = "multi" /\ i <= Len(text) /\ state = s
To(s) == state' = s /\ UNCHANGED <<pc, sawSeparator, verdict, countVars, seen>>

\* case S::Normal: a literal or a comment begins ...
MultiOpens ==
    /\ In("Normal")
    /\ \/ c \in Quotes /\ To(c) /\ Skip1
       \/ c = "dash" /\ n = "dash" /\ To("LineComment") /\ Skip2
       \/ c = "hash" /\ To("LineComment") /\ Skip1
       \/ c = "slash" /\ n = "star" /\ To("BlockComment") /\ Skip2

\* Variant: a space behind a separator is taken for SQL.
MultiCodeTrailing ==
    /\ In("Normal") /\ c \notin Quotes \cup {"hash"}
    /\ ~(c = "dash" /\ n = "dash") /\ ~(c = "slash" /\ n = "star")
    /\ sawSeparator' = (sawSeparator \/ c = "semicolon")
    /\ verdict' = (sawSeparator /\ c # "semicolon")
    /\ pc' = IF verdict' THEN "verdict" ELSE "multi"
    /\ seen' = seen \cup {i} /\ Skip1 /\ UNCHANGED <<state, countVars>>

\* ... or none does: a separator is noted, and code behind one returns true.
MultiCode ==
    /\ In("Normal") /\ c \notin Quotes \cup {"hash"}
    /\ ~(c = "dash" /\ n = "dash") /\ ~(c = "slash" /\ n = "star")
    /\ sawSeparator' = (sawSeparator \/ c = "semicolon")
    /\ verdict' = (sawSeparator /\ c \notin Spaces \cup {"semicolon"})
    /\ pc' = IF verdict' THEN "verdict" ELSE "multi"
    /\ seen' = seen \cup {i} /\ Skip1 /\ UNCHANGED <<state, countVars>>

\* Variant: the escaped character is not skipped.
MultiStringNoEscape ==
    \E q \in {"apostrophe", "quotation"} :
        In(q) /\ To(IF c = q THEN "Normal" ELSE q) /\ Skip1

\* case S::SQuote, S::DQuote: a backslash takes the next character with it.
MultiString ==
    \E q \in {"apostrophe", "quotation"} :
        /\ In(q)
        /\ \/ c = "backslash" /\ To(q) /\ Skip2
           \/ c = q /\ To("Normal") /\ Skip1
           \/ c \notin {"backslash", q} /\ To(q) /\ Skip1

\* case S::BQuote, S::LineComment, S::BlockComment.
MultiSkipped ==
    \/ In("backtick") /\ To(IF c = "backtick" THEN "Normal" ELSE "backtick") /\ Skip1
    \/ In("LineComment") /\ To(IF c = "newline" THEN "Normal" ELSE "LineComment") /\ Skip1
    \/ In("BlockComment") /\ c = "star" /\ n = "slash" /\ To("Normal") /\ Skip2
    \/ In("BlockComment") /\ ~(c = "star" /\ n = "slash") /\ To("BlockComment") /\ Skip1

\* return false, with the text at its end.
MultiEnd ==
    /\ pc = "multi" /\ i > Len(text) /\ pc' = "verdict"
    /\ UNCHANGED <<text, i, multiVars, countVars, seen, ref>>

(* CountPlaceholders *)
Counting(q, line, block) ==
    /\ pc = "count" /\ i <= Len(text)
    /\ quote = q /\ lineComment = line /\ blockComment = block
Into(q, line, block) ==
    /\ quote' = q /\ lineComment' = line /\ blockComment' = block
    /\ UNCHANGED <<pc, multiVars, count, seen>>

CountComment ==
    \/ \E q \in Quotes \cup {"Normal"}, block \in BOOLEAN :
           Counting(q, TRUE, block) /\ Into(q, c # "newline", block) /\ Skip1
    \/ \E q \in Quotes \cup {"Normal"} :
           /\ Counting(q, FALSE, TRUE)
           /\ IF c = "star" /\ n = "slash" THEN Into(q, FALSE, FALSE) /\ Skip2
                                           ELSE Into(q, FALSE, TRUE) /\ Skip1
CountLiteral ==
    \E q \in Quotes :
        /\ Counting(q, FALSE, FALSE)
        /\ \/ c = "backslash" /\ q # "backtick" /\ Into(q, FALSE, FALSE) /\ Skip2
           \/ c = q /\ Into("Normal", FALSE, FALSE) /\ Skip1
           \/ c # q /\ (c = "backslash" => q = "backtick") /\ Into(q, FALSE, FALSE) /\ Skip1

\* Variant: comments are looked for before the open quote is.
CountOpensInLiterals ==
    \E q \in Quotes \cup {"Normal"} :
        /\ Counting(q, FALSE, FALSE)
        /\ \/ c = "hash" /\ Into(q, TRUE, FALSE) /\ Skip1
           \/ q = "Normal" /\ c \in Quotes /\ Into(c, FALSE, FALSE) /\ Skip1

CountOpens ==
    /\ Counting("Normal", FALSE, FALSE)
    /\ \/ c = "dash" /\ n = "dash" /\ Into("Normal", TRUE, FALSE) /\ Skip2
       \/ c = "hash" /\ Into("Normal", TRUE, FALSE) /\ Skip1
       \/ c = "slash" /\ n = "star" /\ Into("Normal", FALSE, TRUE) /\ Skip2
       \/ c \in Quotes /\ Into(c, FALSE, FALSE) /\ Skip1

CountCode ==
    /\ Counting("Normal", FALSE, FALSE) /\ c \notin Quotes \cup {"hash"}
    /\ ~(c = "dash" /\ n = "dash") /\ ~(c = "slash" /\ n = "star")
    /\ count' = IF c = "question" THEN count + 1 ELSE count
    /\ seen' = seen \cup {i}
    /\ Skip1 /\ UNCHANGED <<pc, multiVars, quote, lineComment, blockComment>>
CountEnd ==
    /\ pc = "count" /\ i > Len(text) /\ pc' = "counted"
    /\ UNCHANGED <<text, i, multiVars, countVars, seen, ref>>

ScanNext ==
    \/ MultiOpens \/ MultiCode \/ MultiString \/ MultiSkipped \/ MultiEnd
    \/ CountComment \/ CountLiteral \/ CountOpens \/ CountCode \/ CountEnd

ScanSpec == ScanInit /\ [][ScanNext]_scanVars
-----------------------------------------------------------------------------
(* Properties. *)

\* Every variable has its type, and a lexer is in at most one kind of literal or comment.
ScanTypeOK ==
    /\ text \in Seq(Chars) /\ pc \in {"multi", "count", "verdict", "counted"}
    /\ i \in 1 .. Len(text) + 2
    /\ state \in Quotes \cup {"Normal", "LineComment", "BlockComment"}
    /\ sawSeparator \in BOOLEAN /\ verdict \in BOOLEAN
    /\ quote \in Quotes \cup {"Normal"} /\ lineComment \in BOOLEAN /\ blockComment \in BOOLEAN
    /\ (lineComment => quote = "Normal" /\ ~blockComment)
    /\ (blockComment => quote = "Normal")
    /\ count \in 0 .. Len(text)
    /\ seen \subseteq 1 .. Len(text)
    /\ ref \in [token : 1 .. Len(text) + 1, code : SUBSET (1 .. Len(text)),
                quoted : SUBSET (1 .. Len(text))]

\* Both lexers take for code exactly what lies in no literal and no comment, however
\* quotes, escapes and comment marks follow and hide each other: so they also agree.
CodeIsRecognised == seen = ref.code

\* isMultiStatement rejects the texts MySQLComponent.hpp:213-215 names, a separator between
\* SQL and SQL, with two exceptions: one whose first statement is empty may be rejected as
\* well, and one with nothing but quoted text behind its separators may pass.
VerdictIsRight ==
    pc = "verdict" =>
        /\ (verdict => Documented(text, ref) \/ FirstIsEmpty(text, ref))
        /\ (Documented(text, ref) => verdict \/ RestIsQuoted(text, ref))

\* CountPlaceholders counts the `?` that are code, and no other (Statement.cpp:20-23).
CountIsRight == pc = "counted" => count = Cardinality(Placeholders(text, ref.code))

\* Both functions return what they are for, the verdict up to the exceptions it names.
ResultIsRight == VerdictIsRight /\ CountIsRight
-----------------------------------------------------------------------------
(* A promise of the documentation that the code does not keep. *)

\* MySQLComponent.hpp:213-215: rejected exactly if more than one statement is in the text.
\* A quoted text behind a separator is skipped like a comment, and a separator in front
\* of the only statement is taken for one between two.
VerdictAsDocumented == pc = "verdict" => (verdict <=> Documented(text, ref))
=============================================================================
