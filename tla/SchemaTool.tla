----------------------------- MODULE SchemaTool -----------------------------
(***************************************************************************)
(* The schema tool of the MCP server: tools/manage_schema with the field    *)
(* contract of tools/schema_contract, and the schema adapter of the         *)
(* confirmed plans (tools/schema_write_adapter), which applies through the  *)
(* same function.                                                           *)
(*                                                                          *)
(* An operation is the dictionary the caller sent: args maps the fields it  *)
(* gave to values.  A value is a sequence of strings: a list as it is, a    *)
(* scalar as a sequence of one; <<>> is the empty string or list, Null is   *)
(* null and Bad a value of the wrong shape.  A schema object maps every     *)
(* field of its type to a value.                                            *)
(***************************************************************************)
EXTENDS Naturals, Sequences, SequencesExt

CONSTANTS SchemaCalls,      \* the calls of the tool
          SchemaRequests,   \* the requests: a mode, the operations, whether the server is read-only
          InitialSchema,    \* the schema objects at the start
          ForeignObjects,   \* what other clients may create or remove
          MaxForeign,       \* bound on the steps of other clients
          MaxOperations     \* write_limits.MAX_OPERATIONS

VARIABLES live_schema,      \* the objects on the server
          schema_call,      \* per call: its request and how far it is
          schema_ledger,    \* per issued plan: "ISSUED", "EXECUTING" or its outcome
          confirmed_plans,  \* the plans claimed through the plan protocol
          foreign_steps

\* A batch is a list, a name that is not empty is one string, and the data type of an object
\* on the server has its canonical spelling.
ASSUME SchemaAssumption ==
  /\ \A r \in SchemaRequests :
       /\ r.ops \in Seq(Range(r.ops))
       /\ \A i \in DOMAIN r.ops :
            "name" \in DOMAIN r.ops[i].args /\ r.ops[i].args.name # <<>>
              => r.ops[i].args.name = <<r.ops[i].args.name[1]>>
  /\ \A o \in InitialSchema \union ForeignObjects :
       o.type = "create_property_key" => o.fields.data_type \notin {<<"INTEGER">>, <<"BOOL">>}

schemaVars == <<live_schema, schema_call, schema_ledger, confirmed_plans, foreign_steps>>

----------------------------------------------------------------------------
(* The field contract.                                                      *)

Null == <<"null">>
Bad == <<"bad">>
IsEmpty(v) == v = <<>> \/ v = Null

Field(kind, default) == [kind |-> kind, default |-> default]
Identity == Field("identity", <<>>)
Enum == Field("enum", <<>>)
List == Field("list", <<>>)
Mapping == Field("mapping", <<>>)
Boolean == Field("boolean", <<>>)
Scalar == Field("scalar", <<>>)

SUPPORTED_FIELD_SPECS ==
  [create_property_key |->
     [name |-> Identity, data_type |-> Enum, cardinality |-> Field("enum", <<"SINGLE">>),
      aggregate_type |-> Enum, user_data |-> Mapping],
   create_vertex_label |->
     [name |-> Identity, id_strategy |-> Field("enum", <<"PRIMARY_KEY">>), properties |-> List,
      primary_keys |-> List, nullable_keys |-> List, index_labels |-> List,
      enable_label_index |-> Boolean, user_data |-> Mapping],
   create_edge_label |->
     [name |-> Identity, source_label |-> Scalar, target_label |-> Scalar, properties |-> List,
      nullable_keys |-> List, sort_keys |-> List, frequency |-> Enum,
      enable_label_index |-> Boolean, user_data |-> Mapping],
   create_index_label |->
     [name |-> Identity, base_type |-> Enum, base_label |-> Scalar, fields |-> List,
      index_type |-> Enum, unique |-> Boolean]]

field_specs_for_operation(type) == SUPPORTED_FIELD_SPECS[type]

ALLOWED_OPERATION_TYPES == DOMAIN SUPPORTED_FIELD_SPECS
P0A_APPLY_OPERATION_TYPES == ALLOWED_OPERATION_TYPES \ {"create_index_label"}

REQUIRED_FIELDS ==
  [create_property_key |-> {"name", "data_type"}, create_vertex_label |-> {"name"},
   create_edge_label |-> {"name", "source_label", "target_label"},
   create_index_label |-> {"name", "base_type", "base_label"}]

AllowedValues ==
  [data_type |-> {<<"TEXT">>, <<"INT">>, <<"INTEGER">>, <<"BOOLEAN">>, <<"BOOL">>},
   cardinality |-> {<<"SINGLE">>, <<"SET">>, <<"LIST">>},
   aggregate_type |-> {<<"NONE">>, <<"SUM">>, <<"SET">>, <<"LIST">>},
   id_strategy |-> {<<"PRIMARY_KEY">>, <<"CUSTOMIZE_STRING">>, <<"AUTOMATIC">>},
   frequency |-> {<<"SINGLE">>, <<"MULTIPLE">>}]

\* The spellings that mean the same data type.
canonical_enum_value(f, v) ==
  CASE f = "data_type" /\ v = <<"INTEGER">> -> <<"INT">>
    [] f = "data_type" /\ v = <<"BOOL">> -> <<"BOOLEAN">>
    [] OTHER -> v

----------------------------------------------------------------------------
(* Validation of one operation.                                             *)

Given(op, f) == f \in DOMAIN op.args
Arg(op, f) == IF Given(op, f) THEN op.args[f] ELSE Null
OrElse(op, f, v) == IF IsEmpty(Arg(op, f)) THEN v ELSE Arg(op, f)

schema_items(schema, type) == {o.fields.name[1] : o \in {p \in schema : p.type = type}}

validate_supported_fields(op) == DOMAIN op.args \subseteq DOMAIN field_specs_for_operation(op.type)

validate_value_shapes(op) ==
  \A f \in DOMAIN op.args :
    f \in DOMAIN field_specs_for_operation(op.type) =>
      /\ field_specs_for_operation(op.type)[f].kind \in {"boolean", "mapping"}
           => op.args[f] # Bad /\ op.args[f] # Null
      /\ f = "index_labels" =>
           /\ op.args[f] # Bad /\ op.args[f] # Null
           /\ "" \notin ToSet(op.args[f]) /\ IsInjective(op.args[f])

validate_identifier_field(op) ==
  \A f \in REQUIRED_FIELDS[op.type] :
    /\ ~IsEmpty(Arg(op, f))
    /\ f \notin {"data_type", "base_type"} => Arg(op, f) # Bad

validate_enum_field(op, f) == IsEmpty(Arg(op, f)) \/ Arg(op, f) \in AllowedValues[f]

validate_property_key_aggregate_cardinality(op) ==
  LET aggregate == OrElse(op, "aggregate_type", <<"NONE">>)
      cardinality == OrElse(op, "cardinality", <<"SINGLE">>)
  IN CASE aggregate = <<"NONE">> -> TRUE
       [] aggregate \in {<<"SET">>, <<"LIST">>} -> cardinality = aggregate
       [] OTHER -> cardinality = <<"SINGLE">>

validate_property_references(op, f, property_keys) ==
  LET values == Arg(op, f)
  IN IsEmpty(values)
     \/ /\ values # Bad /\ "" \notin ToSet(values)
        /\ IsInjective(values) /\ ToSet(values) \subseteq property_keys

validate_property_subset_references(op, f, property_keys) ==
  LET values == Arg(op, f)
  IN values = Null
     \/ /\ values # <<>> /\ values # Bad /\ "" \notin ToSet(values) /\ IsInjective(values)
        /\ ToSet(values) \subseteq property_keys
        /\ ToSet(values) \subseteq ToSet(OrElse(op, "properties", <<>>))

validate_vertex_primary_keys(op, property_keys) ==
  OrElse(op, "id_strategy", <<"PRIMARY_KEY">>) = <<"PRIMARY_KEY">> =>
    /\ ~IsEmpty(Arg(op, "primary_keys"))
    /\ validate_property_subset_references(op, "primary_keys", property_keys)

validate_edge_endpoints(op, vertex_labels) ==
  \A f \in {"source_label", "target_label"} : ToSet(Arg(op, f)) \subseteq vertex_labels

validate_property_key(op) ==
  /\ \A f \in {"data_type", "cardinality", "aggregate_type"} : validate_enum_field(op, f)
  /\ validate_property_key_aggregate_cardinality(op)

validate_vertex_label(op, available) ==
  /\ validate_enum_field(op, "id_strategy")
  /\ validate_property_references(op, "properties", available.create_property_key)
  /\ validate_vertex_primary_keys(op, available.create_property_key)
  /\ validate_property_subset_references(op, "nullable_keys", available.create_property_key)

validate_edge_label(op, available) ==
  /\ validate_edge_endpoints(op, available.create_vertex_label)
  /\ validate_enum_field(op, "frequency")
  /\ validate_property_references(op, "properties", available.create_property_key)
  /\ \A f \in {"nullable_keys", "sort_keys"} :
       validate_property_subset_references(op, f, available.create_property_key)

validate_index_label(op, available) ==
  /\ \/ /\ Arg(op, "base_type") = <<"VERTEX">>
        /\ ToSet(Arg(op, "base_label")) \subseteq available.create_vertex_label
     \/ /\ Arg(op, "base_type") = <<"EDGE">>
        /\ ToSet(Arg(op, "base_label")) \subseteq available.create_edge_label
  /\ validate_property_references(op, "fields", available.create_property_key)

----------------------------------------------------------------------------
(* Validation of a batch.                                                   *)

\* Mutant: every create of the batch may be referred to, later ones too.
available_whole_batch(ops, i, schema) ==
  [t \in ALLOWED_OPERATION_TYPES |->
     schema_items(schema, t) \union {ops[j].args.name[1] : j \in {k \in DOMAIN ops : ops[k].type = t}}]

\* What the i-th operation may refer to: the live schema and the creates before it.
available(ops, i, schema) ==
  [t \in ALLOWED_OPERATION_TYPES |->
     schema_items(schema, t)
       \union {ops[j].args.name[1] : j \in {k \in 1..(i - 1) : ops[k].type = t}}]

collect_planned_creates(ops) ==
  \A i, j \in DOMAIN ops :
    i < j /\ ops[i].type = ops[j].type => Arg(ops[i], "name") # Arg(ops[j], "name")

validate_operation(ops, i, schema) ==
  LET op == ops[i] IN
  /\ op.type \in ALLOWED_OPERATION_TYPES      \* no delete, drop or unknown type
  /\ validate_supported_fields(op) /\ validate_value_shapes(op)
  /\ validate_identifier_field(op)
  /\ op.args.name[1] \notin schema_items(schema, op.type)
  /\ CASE op.type = "create_property_key" -> validate_property_key(op)
       [] op.type = "create_vertex_label" -> validate_vertex_label(op, available(ops, i, schema))
       [] op.type = "create_edge_label" -> validate_edge_label(op, available(ops, i, schema))
       [] op.type = "create_index_label" -> validate_index_label(op, available(ops, i, schema))

validate_schema_operations(ops, schema) ==
  /\ collect_planned_creates(ops)
  /\ \A i \in DOMAIN ops : validate_operation(ops, i, schema)

\* dry_run accepts one operation, of a type apply supports.
dry_run_schema_operations(ops, schema) ==
  /\ Len(ops) <= MaxOperations
  /\ validate_schema_operations(ops, schema)
  /\ Len(ops) = 1 /\ ops[1].type \in P0A_APPLY_OPERATION_TYPES

----------------------------------------------------------------------------
(* Forwarding an operation to the client's builders, and the server.        *)

apply_property_key_options(op) ==
  [name |-> op.args.name,
   data_type |-> canonical_enum_value("data_type", OrElse(op, "data_type", <<"TEXT">>)),
   cardinality |-> OrElse(op, "cardinality", <<"SINGLE">>),
   aggregate_type |-> OrElse(op, "aggregate_type", <<"NONE">>),
   user_data |-> OrElse(op, "user_data", <<>>)]

apply_vertex_label_options(op) ==
  [name |-> op.args.name,
   id_strategy |-> OrElse(op, "id_strategy", <<"PRIMARY_KEY">>),
   properties |-> OrElse(op, "properties", <<>>),
   primary_keys |-> OrElse(op, "primary_keys", <<>>),
   nullable_keys |-> OrElse(op, "nullable_keys", <<>>),
   index_labels |-> OrElse(op, "index_labels", <<>>),
   enable_label_index |-> OrElse(op, "enable_label_index", <<"true">>),
   user_data |-> OrElse(op, "user_data", <<>>)]

apply_edge_label_options(op) ==
  [name |-> op.args.name, source_label |-> op.args.source_label,
   target_label |-> op.args.target_label,
   properties |-> OrElse(op, "properties", <<>>),
   nullable_keys |-> OrElse(op, "nullable_keys", <<>>),
   sort_keys |-> OrElse(op, "sort_keys", <<>>),
   frequency |-> OrElse(op, "frequency", <<"SINGLE">>),
   enable_label_index |-> OrElse(op, "enable_label_index", <<"true">>),
   user_data |-> OrElse(op, "user_data", <<>>)]

\* The object as the operation's options describe it to the client's builder.
apply_one_operation(op) ==
  [type |-> op.type,
   fields |-> CASE op.type = "create_property_key" -> apply_property_key_options(op)
                [] op.type = "create_vertex_label" -> apply_vertex_label_options(op)
                [] op.type = "create_edge_label" -> apply_edge_label_options(op)
                [] OTHER -> [f \in DOMAIN field_specs_for_operation(op.type) |->
                               OrElse(op, f, <<>>)]]

\* The objects the builder's create may send: EdgeLabel.nullableKeys passes its keys
\* through a set, which forgets their order.
builder_create(o) ==
  IF o.type # "create_edge_label" THEN {o}
  ELSE {[o EXCEPT !.fields.nullable_keys = keys] : keys \in SetToSeqs(ToSet(o.fields.nullable_keys))}

\* The server creates an object whose name is free and whose references exist; its
\* rules on how the fields of an object go together are left out.
ServerAccepts(o, schema) ==
  LET Names(t) == schema_items(schema, t)
      Keys(f) == IF f \in DOMAIN o.fields THEN ToSet(o.fields[f]) ELSE {}
  IN /\ o.fields.name[1] \notin Names(o.type)
     /\ \A f \in {"properties", "primary_keys", "nullable_keys", "sort_keys", "fields"} :
          Keys(f) \subseteq Names("create_property_key")
     /\ Keys("source_label") \union Keys("target_label") \subseteq Names("create_vertex_label")
     /\ o.type = "create_index_label" =>
          Keys("base_label") \subseteq
            Names(IF Keys("base_type") = {"VERTEX"} THEN "create_vertex_label" ELSE "create_edge_label")

----------------------------------------------------------------------------
(* Reading an object back.                                                  *)

supported_field_matches(op, f, o) ==
  CASE field_specs_for_operation(op.type)[f].kind = "enum" ->
         LET expected == IF Given(op, f) THEN op.args[f]
                         ELSE field_specs_for_operation(op.type)[f].default
         IN expected = Null
            \/ canonical_enum_value(f, o.fields[f]) = canonical_enum_value(f, expected)
    [] OTHER -> Given(op, f) => o.fields[f] = op.args[f]

\* Mutant: only the fields the caller gave are compared, not the defaults apply adds.
operation_fields_match_given_only(op, o) == \A f \in DOMAIN op.args : supported_field_matches(op, f, o)

operation_fields_match(op, o) ==
  \A f \in DOMAIN field_specs_for_operation(op.type) \ {"name"} :
    Given(op, f) \/ field_specs_for_operation(op.type)[f].default # <<>>
      => supported_field_matches(op, f, o)

find_schema_item(op, schema) == {o \in schema : o.type = op.type /\ o.fields.name = Arg(op, "name")}

schema_object_state(op, schema) ==
  LET found == find_schema_item(op, schema)
  IN IF found = {} THEN "missing"
     ELSE IF \E o \in found : operation_fields_match(op, o) THEN "identical" ELSE "conflict"

----------------------------------------------------------------------------
(* The calls.  A request is a mode with its operations; "confirm" is the    *)
(* schema adapter running an operation of a confirmed plan.                 *)

SchemaModes == {"design", "inspect", "validate", "dry_run", "apply", "confirm"}

NewCall(r) == [request |-> r, pc |-> "start", schema |-> {}, valid |-> FALSE,
               committed |-> FALSE, observed |-> {}, status |-> "none", answer |-> "none"]

Plan(c) == [ops |-> schema_call[c].request.ops, schema |-> schema_call[c].schema]

Answered(c, a) == schema_call' = [schema_call EXCEPT ![c].pc = "done", ![c].answer = a]

CallAt(c, pc, modes) == schema_call[c].pc = pc /\ schema_call[c].request.mode \in modes

\* manage_schema in a mode that writes nothing: validate reads the live schema.
manage_schema_read(c) ==
  /\ \/ CallAt(c, "start", {"design"}) /\ Answered(c, "ok")
     \/ CallAt(c, "start", {"validate"}) /\ Answered(c, "CONNECTION_FAILED")
     \/ /\ CallAt(c, "start", {"validate"})
        /\ schema_call' = [schema_call EXCEPT
             ![c].pc = "done", ![c].answer = "ok", ![c].schema = live_schema,
             ![c].valid = validate_schema_operations(schema_call[c].request.ops, live_schema)]
  /\ UNCHANGED <<live_schema, schema_ledger, confirmed_plans, foreign_steps>>

\* The objects of a kind, or the one of a name (_filter_schema).
filter_schema(op, schema) ==
  IF Given(op, "name") THEN find_schema_item(op, schema) ELSE {o \in schema : o.type = op.type}

\* inspect_schema: an unknown kind is refused before the schema is read, a name that is not
\* there is NOT_FOUND; the filter is the request's one operation.
inspect_schema(c) ==
  LET op == schema_call[c].request.ops[1] IN
  /\ CallAt(c, "start", {"inspect"})
  /\ IF op.type \notin ALLOWED_OPERATION_TYPES THEN Answered(c, "VALIDATION_ERROR")
     ELSE \/ Answered(c, "CONNECTION_FAILED")
          \/ Answered(c, IF Given(op, "name") /\ filter_schema(op, live_schema) = {}
                         THEN "NOT_FOUND" ELSE "ok")
  /\ UNCHANGED <<live_schema, schema_ledger, confirmed_plans, foreign_steps>>

\* dry_run: the plan is issued to the ledger and saved for the plan protocol;
\* a read-only server previews it only.
manage_schema_dry_run(c) ==
  LET r == schema_call[c].request
      plan == [ops |-> r.ops, schema |-> live_schema]
      issues == dry_run_schema_operations(r.ops, live_schema) /\ ~r.readonly
  IN /\ CallAt(c, "start", {"dry_run"})
     /\ \/ Answered(c, "CONNECTION_FAILED") /\ UNCHANGED schema_ledger
        \/ /\ Answered(c, IF issues THEN "PLAN" ELSE "PREVIEW")
           /\ schema_ledger' = [p \in DOMAIN schema_ledger \union (IF issues THEN {plan} ELSE {}) |->
                                IF p \in DOMAIN schema_ledger THEN schema_ledger[p] ELSE "ISSUED"]
     /\ UNCHANGED <<live_schema, confirmed_plans, foreign_steps>>

\* apply: a replayed plan answers from the ledger; otherwise the live schema
\* is read and the operations are validated against it again.
manage_schema_apply(c) ==
  LET r == schema_call[c].request IN
  /\ CallAt(c, "start", {"apply"})
  /\ \/ /\ \E p \in DOMAIN schema_ledger : p.ops = r.ops /\ schema_ledger[p] # "ISSUED"
        /\ Answered(c, "REPLAYED")
     \/ /\ \A p \in DOMAIN schema_ledger : p.ops = r.ops => schema_ledger[p] = "ISSUED"
        /\ \/ Answered(c, "CONNECTION_FAILED")
           \/ /\ ~dry_run_schema_operations(r.ops, live_schema) /\ Answered(c, "SCHEMA_MISMATCH")
           \/ /\ dry_run_schema_operations(r.ops, live_schema)
              /\ IF r.readonly THEN Answered(c, "READONLY_VIOLATION")
                 ELSE schema_call' = [schema_call EXCEPT ![c].pc = "consume", ![c].schema = live_schema]
  /\ UNCHANGED <<live_schema, schema_ledger, confirmed_plans, foreign_steps>>

\* verify_and_consume_plan: the plan must be the one issued for these
\* operations and this schema, and is consumed once.
consume_schema_plan(c) ==
  /\ CallAt(c, "consume", {"apply"})
  /\ IF Plan(c) \in DOMAIN schema_ledger /\ schema_ledger[Plan(c)] = "ISSUED"
     THEN /\ schema_ledger' = [schema_ledger EXCEPT ![Plan(c)] = "EXECUTING"]
          /\ schema_call' = [schema_call EXCEPT ![c].pc = "existing"]
     ELSE Answered(c, "PLAN_HASH_MISMATCH") /\ UNCHANGED schema_ledger
  /\ UNCHANGED <<live_schema, confirmed_plans, foreign_steps>>

\* The adapter of a confirmed plan reads the schema afresh and validates nothing.
schema_create_adapter(c) ==
  LET r == schema_call[c].request IN
  /\ CallAt(c, "start", {"confirm"})
  /\ \E p \in DOMAIN schema_ledger \ confirmed_plans :
       /\ p.ops = r.ops
       /\ confirmed_plans' = confirmed_plans \union {p}
       /\ IF r.readonly
          THEN schema_call' = [schema_call EXCEPT ![c].pc = "done", ![c].status = "REJECTED"]
          ELSE schema_call' = [schema_call EXCEPT ![c].pc = "existing", ![c].schema = live_schema]
  /\ UNCHANGED <<live_schema, schema_ledger, foreign_steps>>

\* The receipt, with the object it is about as it was read.
Received(c, s, schema) ==
  schema_call' = [schema_call EXCEPT
    ![c].status = s, ![c].pc = "record",
    ![c].observed = find_schema_item(schema_call[c].request.ops[1], schema)]

\* apply_schema_operations: the decision before the write.
apply_existing(c) ==
  LET state == schema_object_state(schema_call[c].request.ops[1], schema_call[c].schema) IN
  /\ schema_call[c].pc = "existing"
  /\ CASE state = "identical" -> Received(c, "ALREADY_APPLIED", schema_call[c].schema)
       [] state = "conflict" -> Received(c, "CONFLICT", schema_call[c].schema)
       [] OTHER -> schema_call' = [schema_call EXCEPT ![c].pc = "create"]
  /\ UNCHANGED <<live_schema, schema_ledger, confirmed_plans, foreign_steps>>

\* The create: the server refuses it, or commits it and answers, or commits it
\* and the answer is lost; a request that never reached the server looks like a refusal.
apply_create(c) ==
  /\ schema_call[c].pc = "create"
  /\ \/ Received(c, "UNKNOWN", {}) /\ UNCHANGED live_schema
     \/ /\ \E o \in builder_create(apply_one_operation(schema_call[c].request.ops[1])) :
             ServerAccepts(o, live_schema) /\ live_schema' = live_schema \union {o}
        /\ \E lost \in BOOLEAN :
             schema_call' = [schema_call EXCEPT
               ![c].committed = TRUE,
               ![c].status = IF lost THEN "UNKNOWN" ELSE @,
               ![c].pc = IF lost THEN "record" ELSE "post_read"]
  /\ UNCHANGED <<schema_ledger, confirmed_plans, foreign_steps>>

\* The read after the write decides the receipt; it may fail too.
apply_post_read(c) ==
  LET state == schema_object_state(schema_call[c].request.ops[1], live_schema) IN
  /\ schema_call[c].pc = "post_read"
  /\ \/ Received(c, "UNKNOWN", {})
     \/ Received(c, CASE state = "conflict" -> "CONFLICT" [] state = "missing" -> "UNKNOWN"
                      [] OTHER -> "APPLIED", live_schema)
  /\ UNCHANGED <<live_schema, schema_ledger, confirmed_plans, foreign_steps>>

Recorded(c, s) == schema_ledger' = [schema_ledger EXCEPT ![Plan(c)] = s]

\* The receipt goes to the ledger, which may fail, before the call answers.  The
\* adapter returns it to the executor instead.
record_schema_outcome(c) ==
  LET status == schema_call[c].status IN
  /\ schema_call[c].pc = "record"
  /\ IF schema_call[c].request.mode = "confirm"
     THEN Answered(c, status) /\ UNCHANGED schema_ledger
     ELSE \E saved \in BOOLEAN :
            /\ IF saved THEN Recorded(c, status) ELSE UNCHANGED schema_ledger
            /\ Answered(c, IF status = "UNKNOWN" \/ ~saved THEN "WRITE_OUTCOME_UNKNOWN"
                           ELSE IF status = "CONFLICT" THEN "WRITE_CONFLICT" ELSE "ok")
  /\ UNCHANGED <<live_schema, confirmed_plans, foreign_steps>>

\* Another client of the graph creates an object, or removes one.
ForeignSchemaChange ==
  /\ foreign_steps < MaxForeign
  /\ foreign_steps' = foreign_steps + 1
  /\ \/ \E o \in ForeignObjects : ServerAccepts(o, live_schema) /\ live_schema' = live_schema \union {o}
     \/ \E o \in live_schema : live_schema' = live_schema \ {o}
  /\ UNCHANGED <<schema_call, schema_ledger, confirmed_plans>>

SchemaInit ==
  /\ live_schema = InitialSchema
  /\ schema_call \in [SchemaCalls -> {NewCall(r) : r \in SchemaRequests}]
  /\ schema_ledger = <<>> /\ confirmed_plans = {} /\ foreign_steps = 0

SchemaNext ==
  \/ \E c \in SchemaCalls :
       \/ manage_schema_read(c) \/ inspect_schema(c)
       \/ manage_schema_dry_run(c) \/ manage_schema_apply(c)
       \/ consume_schema_plan(c) \/ schema_create_adapter(c) \/ apply_existing(c)
       \/ apply_create(c) \/ apply_post_read(c) \/ record_schema_outcome(c)
  \/ ForeignSchemaChange

SchemaSpec == SchemaInit /\ [][SchemaNext]_schemaVars

----------------------------------------------------------------------------
SchemaStatuses == {"none", "APPLIED", "ALREADY_APPLIED", "CONFLICT", "UNKNOWN", "REJECTED"}

\* Type correctness of the schema calls and of the ledger's statuses.
SchemaTypeOK ==
  /\ \A c \in SchemaCalls :
       /\ schema_call[c].request.mode \in SchemaModes
       /\ schema_call[c].status \in SchemaStatuses
       /\ schema_call[c].pc \in {"start", "consume", "existing", "create", "post_read", "record", "done"}
  /\ \A p \in DOMAIN schema_ledger : schema_ledger[p] \in {"ISSUED", "EXECUTING"} \union SchemaStatuses
  /\ confirmed_plans \subseteq DOMAIN schema_ledger

\* Creating the operations one after the other, from the schema they were validated against.
SchemaAfter(ops, i, schema) == schema \union {apply_one_operation(ops[j]) : j \in 1..i}

\* A vertex label with primary_keys although its ids come from elsewhere: validation does
\* not look at the keys then, and apply forwards them (manage_schema.py:608, 1458).
UncheckedKeys(op) ==
  /\ op.type = "create_vertex_label" /\ ~IsEmpty(Arg(op, "primary_keys"))
  /\ OrElse(op, "id_strategy", <<"PRIMARY_KEY">>) # <<"PRIMARY_KEY">>

\* A batch that validate accepts can be applied in its order: when an operation's turn comes
\* the server finds every object it refers to and its name is free (manage_schema.py:737).
\* Excepted is a batch in which a vertex label gives primary_keys with another id strategy.
ValidBatchApplies ==
  \A c \in SchemaCalls :
    LET ops == schema_call[c].request.ops IN
    schema_call[c].valid /\ (\A i \in DOMAIN ops : ~UncheckedKeys(ops[i])) =>
      \A i \in DOMAIN ops : \A o \in builder_create(apply_one_operation(ops[i])) :
        ServerAccepts(o, SchemaAfter(ops, i - 1, schema_call[c].schema))

\* The fields that apply gives a default, if the caller gave them no value.
Defaulted(op) == {f \in DOMAIN field_specs_for_operation(op.type) :
                    field_specs_for_operation(op.type)[f].default # <<>>}

\* The fields an operation fixes: the ones the caller gave a value, and the ones it left
\* out that apply gives a default.
Fixed(op) == {f \in DOMAIN field_specs_for_operation(op.type) :
                IF Given(op, f) THEN ~IsEmpty(op.args[f]) ELSE f \in Defaulted(op)}

\* What a schema call reports is what happened: success only for an object that was read from
\* the server with every field the operation fixes as apply forwards it, "already applied" only
\* when this call created nothing, a committed create never as an error that says nothing was
\* written, and a legacy success only once the ledger holds it.
SchemaAnswersTruthful ==
  \A c \in SchemaCalls :
    LET call == schema_call[c]
        op == call.request.ops[1]
    IN call.pc = "done" =>
      /\ call.status \in {"APPLIED", "ALREADY_APPLIED"} =>
           \E o \in call.observed : \A f \in Fixed(op) : o.fields[f] = apply_one_operation(op).fields[f]
      /\ call.status = "ALREADY_APPLIED" => ~call.committed
      /\ call.committed => call.answer \in {"ok", "APPLIED", "UNKNOWN", "CONFLICT",
                                            "WRITE_OUTCOME_UNKNOWN", "WRITE_CONFLICT"}
      /\ call.request.mode = "apply" /\ call.answer = "ok" => schema_ledger[Plan(c)] = call.status

\* Validation, forwarding and post-read verification agree: when nobody else touched the
\* schema, the object this call created is not reported as a conflicting one.
BoundariesAgree ==
  \A c \in SchemaCalls :
    schema_call[c].committed /\ foreign_steps = 0 => schema_call[c].status # "CONFLICT"
=============================================================================
