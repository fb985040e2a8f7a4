----------------------------- MODULE GremlinRead -----------------------------
(***************************************************************************)
(* The raw Gremlin read tool: the safety scanner and classifier of         *)
(* gremlin_policy.py, the cost warnings, the three limit policies and the   *)
(* output guard of gremlin_tools.execute_gremlin_read.  A query text is a   *)
(* sequence of lexical units; a caller types it fragment by fragment and    *)
(* submits it.  What the Groovy engine of the server would run of a text is *)
(* defined apart (Executes), as the reference the scanner is compared with. *)
(*                                                                         *)
(* Units stand for the characters the scanner tells apart: a quote, an      *)
(* escape, a comment mark, a line end, an interpolation mark, one           *)
(* identifier, number or delimiter each.  Brackets, map colons and minus    *)
(* are left out: their rules only ever make a text uncertain.               *)
(***************************************************************************)
EXTENDS Integers, Sequences, FiniteSets

CONSTANTS Fragments,      \* sequences of units the caller may type next
          Openings,       \* texts the caller may start from
          MaxFragments,   \* bound on the fragments typed
          MaxResultItems, \* cfg.max_result_items, in items
          ResultSizes     \* numbers of items the server may answer with

VARIABLES text,      \* the query text typed so far
          typed,     \* fragments typed
          read_call  \* the submitted call and what came of it

readVars == <<text, typed, read_call>>

NoCall == [policy |-> "none", executed |-> <<>>, outcome |-> "none"]

WRITE_METHODS == {"drop"}
READ_METHODS == {"V", "limit", "has", "group"}
ANONYMOUS_READ_METHODS == {"outV"}
BOUNDING == {"limit"}
HEAVY == {"group"}
IDENTIFIERS == WRITE_METHODS \union READ_METHODS \union {"g", "outV", "name"}
QUOTES == {"'", "\""}
LIMIT_POLICIES == {"warn", "reject_unbounded", "auto_append"}

At(q, i) == IF i \in 1 .. Len(q) THEN q[i] ELSE "end"

TripleAt(q, i) == /\ At(q, i) \in QUOTES
                  /\ At(q, i + 1) = At(q, i)
                  /\ At(q, i + 2) = At(q, i)

(***************************************************************************)
(* _consume_quoted: the offset after a quoted literal, 0 if incomplete.     *)
(***************************************************************************)
consume_quoted(q, start) ==
  LET triple == TripleAt(q, start)
      after[i \in 1 .. Len(q) + 2] ==
        IF i > Len(q) THEN 0
        ELSE IF q[i] = "\\"
             THEN IF i = Len(q) THEN 0 ELSE after[i + 2]
        ELSE IF triple
             THEN IF TripleAt(q, i) /\ q[i] = q[start] THEN i + 3 ELSE after[i + 1]
        ELSE IF q[i] = q[start] THEN i + 1
        ELSE IF q[i] = "nl" THEN 0
        ELSE after[i + 1]
  IN  after[IF triple THEN start + 3 ELSE start + 1]

\* The first position from i on that holds unit u, or 0.
Find(q, u, i) ==
  LET at == {j \in i .. Len(q) : q[j] = u}
  IN  IF at = {} THEN 0 ELSE CHOOSE j \in at : \A k \in at : j <= k

Kind(u) == CASE u \in IDENTIFIERS            -> "identifier"
             [] u = "1"                      -> "number"
             [] u \in {".", "(", ")", ","}   -> "punctuation"
             [] OTHER                        -> "unknown"

Token(kind, value) == [kind |-> kind, value |-> value, dynamic |-> FALSE]

StringToken(q, from, to) ==
  [kind |-> "string", value |-> "literal",
   dynamic |-> \E i \in from .. to : q[i] = "${"]

\* A line comment that hides the lines after it too.
line_comment_end_of_text(q, i) == Len(q) + 1

\* Where a line comment that opens at i ends: at its line's end.
line_comment_end(q, i) ==
  LET eol == Find(q, "nl", i) IN IF eol = 0 THEN Len(q) + 1 ELSE eol

(***************************************************************************)
(* _lex_gremlin_query: strings, comments and code in one pass.              *)
(***************************************************************************)
lex_gremlin_query(q) ==
  LET Stop == [tokens |-> <<>>, valid |-> FALSE]
      scan[i \in 1 .. Len(q) + 1] ==
        LET Emit(tok, next) ==
              LET rest == scan[next] IN [rest EXCEPT !.tokens = <<tok>> \o @]
        IN  CASE i > Len(q) -> [tokens |-> <<>>, valid |-> TRUE]
              [] i <= Len(q) /\ q[i] = "nl" -> scan[i + 1]
              [] i <= Len(q) /\ q[i] = "//" -> scan[line_comment_end(q, i)]
              [] i <= Len(q) /\ q[i] = "/*" ->
                   LET end == Find(q, "*/", i + 1)
                       nested == Find(q, "/*", i + 1)
                   IN  IF end = 0 \/ (nested # 0 /\ nested < end)
                       THEN Stop ELSE scan[end + 1]
              [] i <= Len(q) /\ q[i] \in QUOTES ->
                   LET end == consume_quoted(q, i)
                   IN  IF end = 0 THEN Stop
                       ELSE Emit(StringToken(q, i, end - 1), end)
              [] OTHER -> Emit(Token(Kind(q[i]), q[i]), i + 1)
  IN  scan[1]

Depth(toks, i) == Cardinality({k \in 1 .. i : toks[k].value = "("})
                  - Cardinality({k \in 1 .. i : toks[k].value = ")"})

(***************************************************************************)
(* _has_invalid_token_adjacency.                                            *)
(***************************************************************************)
has_invalid_token_adjacency(toks) ==
  \E i \in 2 .. Len(toks) :
    LET prev == toks[i - 1]
        cur == toks[i]
        values == {"identifier", "number", "string"}
    IN  \/ prev.value = ")" /\ cur.value \notin {".", ",", ")"}
        \/ prev.kind \in {"number", "string"}
             /\ (cur.kind \in values \/ cur.value = "(")
        \/ prev.kind = "identifier" /\ cur.kind \in values
        \/ /\ cur.value = ","
           /\ \/ Depth(toks, i - 1) <= 0
              \/ prev.value \in {"(", ","}
              \/ i = Len(toks)
              \/ i < Len(toks) /\ toks[i + 1].value \in {",", ")"}

IsMember(toks, i) == i > 1 /\ toks[i - 1].value = "."
IsCall(toks, i) == i < Len(toks) /\ toks[i + 1].value = "("

\* The identifiers the analysis reports as methods: member calls and the
\* anonymous read steps.
MethodNames(toks) ==
  {toks[i].value : i \in {j \in 1 .. Len(toks) :
      /\ toks[j].kind = "identifier"
      /\ IsCall(toks, j)
      /\ IsMember(toks, j) \/ toks[j].value \in ANONYMOUS_READ_METHODS}}

(***************************************************************************)
(* _analyze_tokens: write methods anywhere in the code, and whether any     *)
(* part of the text is left unexplained.                                    *)
(***************************************************************************)
analyze_tokens(lexed) ==
  LET toks == lexed.tokens
      Ids == {i \in 1 .. Len(toks) : toks[i].kind = "identifier"}
      HasWrite == \E i \in Ids : /\ toks[i].value \in WRITE_METHODS
                                 /\ IsMember(toks, i) \/ IsCall(toks, i)
      Unexplained(i) ==
        IF IsMember(toks, i) THEN ~IsCall(toks, i)
        ELSE IF IsCall(toks, i)
             THEN toks[i].value \notin ANONYMOUS_READ_METHODS \union WRITE_METHODS
             ELSE ~(i = 1 /\ toks[i].value = "g")
      Unrooted == \/ Len(toks) < 4
                  \/ ~(/\ toks[1].value = "g" /\ toks[2].value = "."
                       /\ toks[3].value = "V" /\ toks[4].value = "(")
  IN  [method_names |-> MethodNames(toks),
       has_write_method |-> HasWrite,
       uncertain |->
         \/ ~lexed.valid
         \/ toks = <<>>
         \/ has_invalid_token_adjacency(toks)
         \/ \E i \in 1 .. Len(toks) :
              \/ toks[i].kind = "unknown"
              \/ toks[i].dynamic
              \/ Depth(toks, i) < 0
              \/ /\ toks[i].value = "."
                 /\ i = Len(toks) \/ toks[i + 1].kind # "identifier"
         \/ \E i \in Ids : Unexplained(i)
         \/ Depth(toks, Len(toks)) # 0
         \/ Unrooted]

(***************************************************************************)
(* classify_gremlin_read_safety.                                            *)
(***************************************************************************)
classify_gremlin_read_safety(q) ==
  LET analysis == analyze_tokens(lex_gremlin_query(q))
  IN  CASE analysis.has_write_method -> "unsafe"
        [] ~analysis.has_write_method /\ analysis.uncertain -> "uncertain"
        [] OTHER -> IF analysis.method_names \subseteq READ_METHODS
                    THEN "safe" ELSE "uncertain"

(***************************************************************************)
(* gremlin_cost_warnings, the "Unbounded traversal" one: no bounding method  *)
(* among those of the text with strings and comments masked.                *)
(***************************************************************************)
unbounded(q) == MethodNames(lex_gremlin_query(q).tokens) \intersect BOUNDING = {}

\* _auto_append_limit: <<>> where the code gives up.
auto_append_limit(q) ==
  IF At(q, Len(q)) # ")" \/ \E i \in 1 .. Len(q) : q[i] \in HEAVY
  THEN <<>>
  ELSE q \o <<".", "limit", "(", "1", ")">>

Init_text == /\ text \in Openings
             /\ typed = 0
             /\ read_call = NoCall

\* The caller types one more fragment.
Type == /\ read_call = NoCall
        /\ typed < MaxFragments
        /\ \E f \in Fragments : text' = text \o f
        /\ typed' = typed + 1
        /\ UNCHANGED read_call

\* A call answered without reaching the server.
Refused(policy, reason) ==
  read_call' = [policy |-> policy, executed |-> <<>>, outcome |-> reason]

\* _execute_gremlin_with_error_handling and _gremlin_error_envelope: any
\* failure is an envelope; _gremlin_output_guard_error withholds a result
\* over the limit.
execute_and_guard(policy, q) ==
  \/ read_call' = [policy |-> policy, executed |-> q, outcome |-> "error"]
  \/ \E n \in ResultSizes :
       read_call' = [policy |-> policy, executed |-> q,
                     outcome |-> IF n > MaxResultItems THEN "guarded" ELSE "data"]

(***************************************************************************)
(* The body of execute_gremlin_read.                                        *)
(***************************************************************************)
Read(policy) ==
  IF classify_gremlin_read_safety(text) # "safe" THEN Refused(policy, "unsafe")
  ELSE IF policy = "reject_unbounded" /\ unbounded(text)
       THEN Refused(policy, "unbounded")
  ELSE IF policy = "auto_append" /\ unbounded(text)
       THEN IF auto_append_limit(text) = <<>>
            THEN Refused(policy, "cannot_append")
            ELSE execute_and_guard(policy, auto_append_limit(text))
  ELSE execute_and_guard(policy, text)

execute_gremlin_read(policy) ==
  /\ read_call = NoCall
  /\ Read(policy)
  /\ UNCHANGED <<text, typed>>

\* generate_gremlin: the text is what the AI service wrote.  The service may fail or
\* answer without Gremlin; the text is handed back, or executed when it is safe.  (The
\* public tool passes execute only through the budget gate, which refuses it today.)
generate_gremlin(execute, policy) ==
  /\ read_call = NoCall
  /\ \/ Refused(policy, "not_generated")
     \/ ~execute /\ Refused(policy, "generated")
     \/ execute /\ classify_gremlin_read_safety(text) # "safe" /\ Refused(policy, "unsafe")
     \/ execute /\ classify_gremlin_read_safety(text) = "safe" /\ Read(policy)
  /\ UNCHANGED <<text, typed>>

GremlinReadNext ==
  \/ Type
  \/ \E p \in LIMIT_POLICIES : execute_gremlin_read(p) \/ \E e \in BOOLEAN : generate_gremlin(e, p)

GremlinReadSpec == Init_text /\ [][GremlinReadNext]_readVars

(***************************************************************************)
(* The reference: what a Groovy engine would run of a text, as a machine    *)
(* that reads it unit by unit.  Code runs; comments and plain literals do   *)
(* not; an interpolated double-quoted literal and a literal used as a       *)
(* member name do.  A text with an unfinished literal or comment does not   *)
(* compile and runs nothing.                                                *)
(***************************************************************************)
GroovyStart == [mode |-> "code", quote |-> "none", esc |-> FALSE, skip |-> 0,
                live |-> FALSE, last |-> "none", held |-> {}, runs |-> {}]

GroovyStep(s, q, i) ==
  LET u == q[i]
      Open == [s EXCEPT !.mode = IF TripleAt(q, i) THEN "triple" ELSE "string",
                        !.skip = IF TripleAt(q, i) THEN 2 ELSE 0,
                        !.quote = u, !.live = (s.last = "."), !.held = {}]
      Close == [s EXCEPT !.mode = "code", !.last = "literal",
                         !.skip = IF s.mode = "triple" THEN 2 ELSE 0,
                         !.runs = IF s.live THEN @ \union s.held ELSE @]
  IN  CASE s.skip > 0 -> [s EXCEPT !.skip = @ - 1]
        [] s.skip = 0 /\ s.mode = "code" ->
             CASE u = "//" -> [s EXCEPT !.mode = "line"]
               [] u = "/*" -> [s EXCEPT !.mode = "block"]
               [] u \in QUOTES -> Open
               [] u = "nl" -> s
               [] OTHER -> [s EXCEPT !.last = u, !.runs = @ \union {u}]
        [] s.skip = 0 /\ s.mode = "line" ->
             IF u = "nl" THEN [s EXCEPT !.mode = "code"] ELSE s
        [] s.skip = 0 /\ s.mode = "block" ->
             IF u = "*/" THEN [s EXCEPT !.mode = "code"] ELSE s
        [] OTHER ->
             CASE s.esc -> [s EXCEPT !.esc = FALSE]
               [] ~s.esc /\ u = "\\" -> [s EXCEPT !.esc = TRUE]
               [] ~s.esc /\ u = s.quote /\ (s.mode = "string" \/ TripleAt(q, i)) -> Close
               [] ~s.esc /\ u = "nl" /\ s.mode = "string" ->
                    [s EXCEPT !.mode = "broken"]
               [] ~s.esc /\ u = "${" /\ s.quote = "\"" -> [s EXCEPT !.live = TRUE]
               [] OTHER -> [s EXCEPT !.held = @ \union {u}]

Executes(q) ==
  LET run[i \in 0 .. Len(q)] ==
        IF i = 0 THEN GroovyStart
        ELSE LET before == run[i - 1]
             IN  IF before.mode = "broken" THEN before ELSE GroovyStep(before, q, i)
      end == run[Len(q)]
  IN  IF end.mode \in {"code", "line"} THEN end.runs ELSE {}

GremlinReadTypeOK ==
  /\ typed \in 0 .. MaxFragments
  /\ read_call.policy \in LIMIT_POLICIES \union {"none"}
  /\ read_call.outcome \in {"none", "unsafe", "unbounded", "cannot_append", "not_generated",
                            "generated", "error", "guarded", "data"}

(***************************************************************************)
(* A query that reaches the server through the read tool, typed or          *)
(* generated, contains no write                                             *)
(* step that the server's Groovy engine would run, whatever comments,       *)
(* literals, escapes or interpolation it is written with                    *)
(* (classify_gremlin_read_safety: "only when the query is confidently       *)
(* read-only"); under limit_policy="reject_unbounded" the engine runs a     *)
(* bounding step: a limit() in a comment or a literal does not count.       *)
(***************************************************************************)
ExecutedReadsDoNotWrite ==
  LET runs == Executes(read_call.executed) IN
  /\ runs \intersect WRITE_METHODS = {}
  /\ read_call.policy = "reject_unbounded" /\ read_call.executed # <<>> => runs \intersect BOUNDING # {}
==============================================================================
