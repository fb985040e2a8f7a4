----------------------------- MODULE GraphQuery -----------------------------
(***************************************************************************)
(* The structured read tool of the MCP server (tools/query_graph_data):     *)
(* validation, the effective limit, the GraphManager call it chooses, and   *)
(* the output guard, which reads the configuration again.  A caller pages   *)
(* through a label with it while other clients change the graph.            *)
(*                                                                          *)
(* An optional argument is a sequence of at most one value.  An item is a   *)
(* number, its place in the server's scan order; an id is a type and a      *)
(* value, so that the number 1 and the string "1" differ.                   *)
(***************************************************************************)
EXTENDS Naturals, Sequences, FiniteSets, SequencesExt

CONSTANTS QueryItems,      \* the items that may exist, with the bytes of each: item -> size
          QueryRequests,   \* the requests a caller may start with
          ItemLimits,      \* the values of cfg.max_result_items
          MaxResultBytes,  \* cfg.max_result_bytes
          MAX_LIMIT, DEFAULT_LIMIT,
          MaxGraphSteps    \* bound on the changes of other clients and of the environment

VARIABLES items,             \* the items of the graph
          max_result_items,  \* the environment's item limit
          query,             \* the call: its request, its step, its effective limit and its answer
          scan,              \* what the caller has: the items seen, and those after its first
                             \* cursor that stayed throughout
          graph_steps

queryVars == <<items, max_result_items, query, scan, graph_steps>>

----------------------------------------------------------------------------
IsGiven(option) == option # <<>>
Smaller(a, b) == IF a < b THEN a ELSE b

validate_limit(limit) == IsGiven(limit) => limit[1] \in 1..MAX_LIMIT

\* format_vertex_id takes strings, UUIDs and integers of Java's long, and no booleans.
validate_vertex_id(i) == i.type \in {"str", "uuid", "long"}

is_blank(i) == i.type = "blank"

validate_ids(r) ==
  CASE r.operation = "get_by_id" ->
         IsGiven(r.ids) /\ ~is_blank(r.ids[1]) /\ (r.target = "vertex" => validate_vertex_id(r.ids[1]))
    [] r.operation = "get_by_ids" ->
         /\ IsGiven(r.ids) /\ Len(r.ids) <= MAX_LIMIT
         /\ \A i \in DOMAIN r.ids :
              ~is_blank(r.ids[i]) /\ (r.target = "vertex" => validate_vertex_id(r.ids[i]))
    [] OTHER -> TRUE

\* Edges of a vertex are asked for with a direction, and cannot be paged.
validate_edge_scope(r) ==
  r.target = "edge" /\ r.operation \in {"page", "condition"} =>
    /\ ~(r.operation = "page" /\ IsGiven(r.vertex_id) /\ IsGiven(r.page))
    /\ IsGiven(r.vertex_id) <=> IsGiven(r.direction)
    /\ IsGiven(r.direction) => r.direction[1] \in {"OUT", "IN", "BOTH"}

validate_inputs_query(r) ==
  /\ r.target \in {"vertex", "edge"}
  /\ r.operation \in {"get_by_id", "get_by_ids", "page", "condition"}
  /\ validate_limit(r.limit) /\ validate_ids(r)
  /\ r.operation = "page" /\ r.target = "vertex" => IsGiven(r.label)
  /\ r.operation = "condition" => IsGiven(r.properties)
  /\ validate_edge_scope(r)

\* The distinct ids, in the order of their first use; the key of one has its type.
normalize_ids(ids) ==
  FoldLeft(LAMBDA acc, i : IF Contains(acc, i) THEN acc ELSE Append(acc, i), <<>>, ids)

bounded_limit(r) ==
  Smaller(Smaller(IF IsGiven(r.limit) THEN r.limit[1] ELSE DEFAULT_LIMIT, MAX_LIMIT), max_result_items)

----------------------------------------------------------------------------
QueryStep(step) == query' = [query EXCEPT !.step = step]
QueryAnswered(a) == query' = [query EXCEPT !.step = "done", !.answer = a]

\* query_graph_data up to the call of the server.
query_graph_data ==
  LET r == query.request IN
  /\ query.step = "start"
  /\ IF ~validate_inputs_query(r)
        \/ (r.operation = "get_by_ids" /\ Len(normalize_ids(r.ids)) > bounded_limit(r))
     THEN QueryAnswered("VALIDATION_ERROR")
     ELSE query' = [query EXCEPT !.step = "execute", !.limit = bounded_limit(r)]
  /\ UNCHANGED <<items, max_result_items, scan, graph_steps>>

\* The place in the scan order that a request starts after.
StartOf(r) == IF IsGiven(r.page) THEN r.page[1] ELSE 0

\* External: the server's answer to a page or a condition from a cursor on: the first items
\* after it in scan order, and a cursor if there are more.
ServerPage(from, limit) ==
  LET after == SetToSortSeq({i \in items : i > from}, LAMBDA a, b : a < b)
      n == Smaller(limit, Len(after))
  IN [found |-> SubSeq(after, 1, n),
      next |-> IF n < Len(after) THEN <<after[n]>> ELSE <<>>]

ItemOf(i) == IF i.type = "long" /\ i.value \in items THEN <<i.value>> ELSE <<>>

execute_query(r) ==
  CASE r.operation \in {"get_by_id", "get_by_ids"} ->
         [found |-> FlattenSeq([i \in DOMAIN normalize_ids(r.ids) |-> ItemOf(normalize_ids(r.ids)[i])]),
          next |-> <<>>]
    [] OTHER -> ServerPage(StartOf(r), query.limit)

\* The call of the server may fail; an id that is not there is an error of its own.
ExecuteQuery ==
  LET r == query.request IN
  /\ query.step = "execute"
  /\ \/ QueryAnswered("error")
     \/ IF r.operation = "get_by_id" /\ execute_query(r).found = <<>> THEN QueryAnswered("NOT_FOUND")
        ELSE query' = [query EXCEPT !.step = "guard", !.result = execute_query(r)]
  /\ UNCHANGED <<items, max_result_items, scan, graph_steps>>

Bytes(found) == FoldLeft(LAMBDA n, i : n + QueryItems[i], 0, found)

\* Mutant: a result over the limit is cut and returned with its cursor.
output_guard_truncates(result) ==
  [ok |-> TRUE, found |-> SubSeq(result.found, 1, Smaller(max_result_items, Len(result.found))),
   next |-> result.next]

\* _gremlin_output_guard_error: the result goes out whole or not at all.
output_guard(result) ==
  LET fits == /\ Len(result.found) <= Smaller(max_result_items, query.limit)
              /\ Bytes(result.found) <= MaxResultBytes
  IN [ok |-> fits, found |-> IF fits THEN result.found ELSE <<>>, next |-> IF fits THEN result.next ELSE <<>>]

GuardQuery ==
  LET guarded == output_guard(query.result) IN
  /\ query.step = "guard"
  /\ query' = [query EXCEPT !.step = "done", !.answer = IF guarded.ok THEN "ok" ELSE "guarded",
                            !.result = [found |-> guarded.found, next |-> guarded.next]]
  /\ scan' = [scan EXCEPT !.seen = @ \o guarded.found]
  /\ UNCHANGED <<items, max_result_items, graph_steps>>

----------------------------------------------------------------------------
NewQuery(r) == [request |-> r, step |-> "start", limit |-> 0, answer |-> "none",
                result |-> [found |-> <<>>, next |-> <<>>]]

\* The caller goes on with the cursor it was given, asks the same page again after a failure, or
\* asks for fewer items after a refusal ("Use a smaller limit").
AskAgain ==
  LET r == query.request IN
  /\ query.step = "done" /\ r.operation = "page" /\ IsGiven(r.limit)
  /\ \/ /\ query.answer = "ok" /\ IsGiven(query.result.next)
        /\ query' = NewQuery([r EXCEPT !.page = query.result.next])
     \/ query.answer = "error" /\ query' = NewQuery(r)
     \/ /\ query.answer = "guarded" /\ r.limit[1] > 1
        /\ query' = NewQuery([r EXCEPT !.limit = <<r.limit[1] - 1>>])
  /\ UNCHANGED <<items, max_result_items, scan, graph_steps>>

\* Other clients create and delete items; the environment's limit changes.
QueryEnvironment ==
  /\ graph_steps < MaxGraphSteps
  /\ graph_steps' = graph_steps + 1
  /\ \/ \E i \in DOMAIN QueryItems :
          /\ items' = IF i \in items THEN items \ {i} ELSE items \union {i}
          /\ scan' = [scan EXCEPT !.stayed = @ \ {i}]
          /\ UNCHANGED max_result_items
     \/ \E n \in ItemLimits \ {max_result_items} : max_result_items' = n /\ UNCHANGED <<items, scan>>
  /\ UNCHANGED query

QueryInit ==
  /\ items = DOMAIN QueryItems
  /\ max_result_items \in ItemLimits
  /\ \E r \in QueryRequests : query = NewQuery(r)
  /\ scan = [seen |-> <<>>, stayed |-> {i \in items : i > StartOf(query.request)}]
  /\ graph_steps = 0

QueryNext == query_graph_data \/ ExecuteQuery \/ GuardQuery \/ AskAgain \/ QueryEnvironment

QuerySpec == QueryInit /\ [][QueryNext]_queryVars

----------------------------------------------------------------------------
\* Type correctness: the effective limit is within every bound.
QueryTypeOK ==
  /\ items \subseteq DOMAIN QueryItems /\ max_result_items \in ItemLimits
  /\ query.step \in {"start", "execute", "guard", "done"}
  /\ query.answer \in {"none", "VALIDATION_ERROR", "NOT_FOUND", "error", "guarded", "ok"}
  /\ query.limit \in 0..MAX_LIMIT

\* A caller that follows the cursors to the end has every item from its first cursor on that stayed
\* in the graph, none of them twice, whatever fails, is refused by the output guard or changes in between ("Oversized
\* results are rejected without truncation or a continuation cursor", query_graph_data); a batch of
\* ids answers every id that is in the graph.
ScanIsComplete ==
  /\ query.answer = "ok" /\ query.request.operation = "page" /\ query.result.next = <<>> =>
       scan.stayed \subseteq ToSet(scan.seen)
  /\ \A i, j \in DOMAIN scan.seen : i # j /\ scan.seen[i] \in scan.stayed => scan.seen[i] # scan.seen[j]
  /\ query.answer = "ok" /\ query.request.operation = "get_by_ids" =>
       \A i \in DOMAIN query.request.ids :
         query.request.ids[i].type = "long" /\ query.request.ids[i].value \in scan.stayed =>
           query.request.ids[i].value \in ToSet(scan.seen)
=============================================================================
