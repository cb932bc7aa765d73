---------------------------- MODULE EntStatements ---------------------------
(***************************************************************************)
(* The generated client of the task table (repository/ent/gen): mutations, *)
(* the builders that fill them, the statements the builders send, and the  *)
(* entities they read back.  Constant operators only.                      *)
(*                                                                         *)
(* The table is a function from the stored ids to rows, a row is a record  *)
(* of its columns, and a builder is used by a sequence of method calls.    *)
(* What entgo.io's sqlgraph and the database do with a statement is        *)
(* external: Selects, ExecUpdate, Precedes and IsAnswer state what the     *)
(* generated code and its callers rely on.  No hooks and no interceptors   *)
(* are registered, so withHooks and withInterceptors call straight through. *)
(***************************************************************************)
EXTENDS TaskData

CONSTANT Null   (* SQL's NULL *)

(* The schema: columns, which of them are nullable, and the defaults; the  *)
(* maps are defaults[c], since the program keeps them in one variable each. *)
(* The default of created_at, a reading of the clock, never applies: every *)
(* caller sets the column.                                                 *)
Columns == Fields
Nullable == OptionalTimes

SchemaDefaults(defaults) ==
    [priority |-> 0, state |-> "scheduled", err |-> "",
     param |-> defaults["param"], meta |-> defaults["meta"]]

-----------------------------------------------------------------------------
(* Predicates: FieldEQ and its kin, and those of package sqljson.          *)
FieldIs(c, op, v) == [column |-> c, op |-> op, value |-> v, key |-> ""]
EntryIs(c, op, key, v) == [column |-> c, op |-> op, value |-> v, key |-> key]

IDEQ(v)       == FieldIs("id", "EQ", v)
WorkIDEQ(v)   == FieldIs("work_id", "EQ", v)
PriorityEQ(v) == FieldIs("priority", "EQ", v)
StateEQ(v)    == FieldIs("state", "EQ", v)
StateIn(vs)   == FieldIs("state", "IN", vs)
ErrEQ(v)      == FieldIs("err", "EQ", v)

(* A comparison with NULL, or with a key a JSON value lacks, selects       *)
(* nothing.                                                                *)
Selects(p, row) ==
    LET v == row[p.column]
        op == p.op
    IN  IF op = "IsNull" THEN v = Null
        ELSE IF p.column \in Maps
        THEN /\ p.key \in DOMAIN v
             /\ op = "ValueEQ"         => v[p.key] = p.value
             /\ op = "StringHasPrefix" => IsPrefix(p.value, v[p.key])
             /\ op = "StringHasSuffix" => IsSuffix(p.value, v[p.key])
             /\ op = "StringContains"  => IsWithin(p.value, v[p.key])
        ELSE /\ v # Null
             /\ op = "EQ"  => v = p.value
             /\ op = "IN"  => v \in p.value
             /\ op = "LT"  => v < p.value
             /\ op = "LTE" => v <= p.value
             /\ op = "GT"  => v > p.value
             /\ op = "GTE" => v >= p.value

SelectsAll(ps, row) == \A k \in DOMAIN ps : Selects(ps[k], row)

-----------------------------------------------------------------------------
(* TaskMutation: the fields set, the priority to be added, clearedFields,  *)
(* and the predicates.  A pointer that is nil is a field not set.          *)
NewMutation(op, id) ==
    [op |-> op, id |-> id, set |-> [c \in {} |-> 0], add |-> None,
     cleared |-> {}, where |-> <<>>]

Where(p)      == [method |-> "Where", column |-> "", value |-> p]
Set(c, v)     == [method |-> "Set", column |-> c, value |-> v]
Clear(c)      == [method |-> "Clear", column |-> c, value |-> None]
Add(v)        == [method |-> "Add", column |-> "priority", value |-> v]
Reset(c)      == [method |-> "Reset", column |-> c, value |-> None]
SetNillable(c, v) == [method |-> "SetNillable", column |-> c, value |-> v]

With(set, c, v) == [d \in DOMAIN set \cup {c} |-> IF d = c THEN v ELSE set[d]]
Without(set, c) == [d \in DOMAIN set \ {c} |-> set[d]]

(* The methods of a required column: SetX and ResetX; X and OldX read.     *)
RequiredMethod(m, call) ==
    CASE call.method = "Set"   -> [m EXCEPT !.set = With(@, call.column, call.value)]
      [] call.method = "Reset" -> [m EXCEPT !.set = Without(@, call.column)]

(* The methods of the priority: SetPriority drops what was to be added.    *)
PriorityMethod(m, call) ==
    CASE call.method = "Set" ->
             [m EXCEPT !.set = With(@, "priority", call.value), !.add = None]
      [] call.method = "Add" ->
             [m EXCEPT !.add = IF @ = None THEN call.value ELSE @ + call.value]
      [] call.method = "Reset" ->
             [m EXCEPT !.set = Without(@, "priority"), !.add = None]

(* The methods of a nullable column: SetX leaves clearedFields alone.      *)
NullableMethod(m, call) ==
    LET c == call.column
    IN  CASE call.method = "Set"   -> [m EXCEPT !.set = With(@, c, call.value)]
          [] call.method = "Clear" -> [m EXCEPT !.set = Without(@, c),
                                                !.cleared = @ \cup {c}]
          [] call.method = "Reset" -> [m EXCEPT !.set = Without(@, c),
                                                !.cleared = @ \ {c}]

MutationMethod(m, call) ==
    CASE call.method = "Where"      -> [m EXCEPT !.where = Append(@, call.value)]
      [] call.column = "priority"   -> PriorityMethod(m, call)
      [] call.column \in Nullable   -> NullableMethod(m, call)
      [] OTHER                      -> RequiredMethod(m, call)

(* The methods of TaskCreate pass on to the mutation; SetNillableX does so *)
(* if it is given a value.                                                 *)
CreateMethod(m, call) ==
    IF call.method # "SetNillable" THEN MutationMethod(m, call)
    ELSE IF call.value = None THEN m
    ELSE MutationMethod(m, Set(call.column, call.value))

(* The methods of TaskUpdateOne, which are those of TaskUpdate as well:    *)
(* SetPriority resets the priority first.                                  *)
UpdateOneMethod(m, call) ==
    IF call.method = "Set" /\ call.column = "priority"
    THEN MutationMethod(MutationMethod(m, Reset("priority")), call)
    ELSE CreateMethod(m, call)

UpdateMethod(m, call) == UpdateOneMethod(m, call)

(* The methods of the builder TaskClient makes for an operation; that of a *)
(* DELETE only has Where.                                                  *)
BuilderMethod(m, call) ==
    CASE m.op = "Create"    -> CreateMethod(m, call)
      [] m.op = "UpdateOne" -> UpdateOneMethod(m, call)
      [] m.op = "Update"    -> UpdateMethod(m, call)
      [] m.op = "Delete"    -> MutationMethod(m, call)

(* The mutation of a builder on which these methods were called.           *)
Built(op, id, calls) ==
    LET after[k \in 0 .. Len(calls)] ==
            IF k = 0 THEN NewMutation(op, id)
            ELSE BuilderMethod(after[k - 1], calls[k])
    IN  after[Len(calls)]

-----------------------------------------------------------------------------
(* TaskCreate.Save: defaults, check, createSpec, one INSERT.  It answers   *)
(* with the table, the error and the id of the row.                        *)
CreateDefaults(m, defaults) ==
    LET missing == DOMAIN SchemaDefaults(defaults) \ DOMAIN m.set
    IN  [m EXCEPT !.set =
            [c \in DOMAIN @ \cup missing |->
                IF c \in missing THEN SchemaDefaults(defaults)[c] ELSE @[c]]]

(* WorkIDValidator and StateValidator, on the fields that are set.         *)
StateValidator(s) == s \in States
Validated(m) ==
    /\ "work_id" \in DOMAIN m.set => m.set["work_id"] # ""
    /\ "state" \in DOMAIN m.set => StateValidator(m.set["state"])

CreateCheck(m) ==
    /\ Columns \ (Nullable \cup {"id"}) \subseteq DOMAIN m.set
    /\ Validated(m)

CreateSpec(m) ==
    [c \in Columns |-> IF c = "id" THEN m.id
                       ELSE IF c \in DOMAIN m.set THEN m.set[c] ELSE Null]

CreateSave(table, id, calls, defaults) ==
    LET m == CreateDefaults(Built("Create", id, calls), defaults)
    IN  IF ~CreateCheck(m) THEN [table |-> table, err |-> "validation"]
        ELSE IF id \in DOMAIN table
        THEN [table |-> table, err |-> "constraint"]
        ELSE [table |-> With(table, id, CreateSpec(m)), err |-> ""]

-----------------------------------------------------------------------------
(* What an UPDATE does to a row it selects.                                *)
ExecUpdate(m, row) ==
    [c \in Columns |->
        IF c \in DOMAIN m.set THEN m.set[c]
        ELSE IF c \in m.cleared THEN Null
        ELSE IF c = "priority" /\ m.add # None THEN row[c] + m.add
        ELSE row[c]]

UpdateOneCheck(m) == Validated(m)

UpdateOneAnyState(table, id, calls) ==
    LET m == Built("UpdateOne", id, calls)
    IN  IF id \notin DOMAIN table
        THEN [table |-> table, err |-> "not_found"]
        ELSE [table |-> With(table, id, ExecUpdate(m, table[id])), err |-> ""]

(* TaskUpdateOne.sqlSave: the row with the id, if the predicates select it. *)
UpdateOneSave(table, id, calls) ==
    LET m == Built("UpdateOne", id, calls)
    IN  IF ~UpdateOneCheck(m) THEN [table |-> table, err |-> "validation"]
        ELSE IF id \notin DOMAIN table \/ ~SelectsAll(m.where, table[id])
        THEN [table |-> table, err |-> "not_found"]
        ELSE [table |-> With(table, id, ExecUpdate(m, table[id])), err |-> ""]

(* TaskUpdate.sqlSave: every row the predicates select, and how many.      *)
UpdateSave(table, calls) ==
    LET m == Built("Update", 0, calls)
        hit == {id \in DOMAIN table : SelectsAll(m.where, table[id])}
    IN  IF ~Validated(m) THEN [table |-> table, err |-> "validation", n |-> 0]
        ELSE [table |-> [id \in DOMAIN table |->
                            IF id \in hit THEN ExecUpdate(m, table[id])
                            ELSE table[id]],
              err |-> "", n |-> Cardinality(hit)]

(* TaskDelete.sqlExec *)
DeleteExec(table, calls) ==
    LET m == Built("Delete", 0, calls)
        hit == {id \in DOMAIN table : SelectsAll(m.where, table[id])}
    IN  [table |-> [id \in DOMAIN table \ hit |-> table[id]],
         err |-> "", n |-> Cardinality(hit)]

-----------------------------------------------------------------------------
(* TaskQuery.  A term of the order is a column and a direction; the limit  *)
(* and the offset are None until they are set.                             *)
NewQuery == [where |-> <<>>, order |-> <<>>, limit |-> None, offset |-> None]

Asc(c)  == [column |-> c, desc |-> FALSE]
Desc(c) == [column |-> c, desc |-> TRUE]

(* querySpec, where 0 is "no limit" and "no offset".                       *)
QuerySpec(q) == [q EXCEPT !.limit = IF @ = None THEN 0 ELSE @,
                          !.offset = IF @ = None THEN 0 ELSE @]

Precedes(order, r, u) ==
    \E k \in DOMAIN order :
        LET c == order[k].column
        IN  /\ \A j \in 1 .. k - 1 : r[order[j].column] = u[order[j].column]
            /\ IF order[k].desc THEN r[c] > u[c] ELSE r[c] < u[c]

(* s lists the ids a SELECT may answer: rows that no term of the order     *)
(* separates come in any order.  A negative limit is no limit.             *)
IsAnswer(spec, table, s) ==
    LET hit == {id \in DOMAIN table : SelectsAll(spec.where, table[id])}
        left == IF Cardinality(hit) > spec.offset
                THEN Cardinality(hit) - spec.offset ELSE 0
        Before(id) == {j \in hit : Precedes(spec.order, table[j], table[id])}
        After(id) == {j \in hit : Precedes(spec.order, table[id], table[j])}
    IN  /\ ToSet(s) \subseteq hit
        /\ IsInjective(s)
        /\ Len(s) = IF spec.limit > 0 /\ spec.limit < left
                    THEN spec.limit ELSE left
        /\ \A k \in DOMAIN s :
              /\ Cardinality(Before(s[k])) < spec.offset + k
              /\ Cardinality(hit \ After(s[k])) >= spec.offset + k
              /\ \A j \in 1 .. k - 1 : s[j] \notin After(s[k])

(* All, First and Only answer with ids here; EntityOf reads the row.       *)
IsAll(q, table, s) == IsAnswer(QuerySpec(q), table, s)

IsFirst(q, table, s) == IsAll([q EXCEPT !.limit = 1], table, s)

(* TaskClient.Get *)
Get(table, id) == IsAll([NewQuery EXCEPT !.where = <<IDEQ(id)>>, !.limit = 2],
                        table, <<id>>)

(* scanValues and assignValues: NULL leaves the zero value, a nil pointer. *)
EntityOf(row) == [c \in Columns |-> IF row[c] = Null THEN Nil ELSE row[c]]
=============================================================================
