------------------------------- MODULE EntStore -----------------------------
(***************************************************************************)
(* repository/ent with its data: the statements every operation builds     *)
(* with the generated client, and what it makes of their answers.  How     *)
(* statements of several actors interleave is EntRepository's.  Constant   *)
(* operators only.                                                         *)
(***************************************************************************)
EXTENDS EntStatements

(* The table an operation leaves behind and its error, "" for nil.         *)
Answer(table, err) == [store |-> table, err |-> err]

mapPointerToOption(v) == IF v = Nil THEN None ELSE v

mapEntToDefTask(created) ==
    [f \in Fields |-> IF f \in OptionalTimes
                      THEN mapPointerToOption(created[f]) ELSE created[f]]

TaskOf(table, id) == mapEntToDefTask(EntityOf(table[id]))

-----------------------------------------------------------------------------
(* A nil map is not set, so that the schema's default applies.             *)
AddTask(table, defaults, id, now, p) ==
    LET t == ToTask(p, id, now)
        calls == <<Set("work_id", t.work_id), Set("priority", t.priority),
                   Set("state", t.state), Set("scheduled_at", t.scheduled_at),
                   Set("created_at", t.created_at),
                   SetNillable("deadline", t.deadline)>>
                 \o (IF t.param = Nil THEN <<>> ELSE <<Set("param", t.param)>>)
                 \o (IF t.meta = Nil THEN <<>> ELSE <<Set("meta", t.meta)>>)
    IN  IF ~IsValid(t) THEN Answer(table, "invalid_task")
        ELSE LET saved == CreateSave(table, id, calls, defaults)
             IN  Answer(saved.table, saved.err)

(* The entity Save answers with holds the schema's default itself, not a   *)
(* copy, and mapEntToDefTask passes it on: the maps of the answered task   *)
(* that are the defaults.                                                  *)
SharedMaps(p) == {f \in Maps : ToTask(p, 1, 1)[f] = Nil}

(* The error of an operation whose UPDATE selected no row: GetById, then   *)
(* the kind the row it finds stands for.                                   *)
Explained(table, id, saved, ErrKindOf(_)) ==
    IF saved.err # "not_found" THEN Answer(saved.table, saved.err)
    ELSE IF ~Get(table, id) THEN Answer(table, "id_not_found")
    ELSE Answer(table, ErrKindOf(TaskOf(table, id)))

fakeTask ==
    [ZeroTask EXCEPT !.id = NeverExistentId, !.work_id = "foo", !.state = "scheduled",
                     !.scheduled_at = 2 * TicksPerMilli,
                     !.created_at = TicksPerMilli]

UpdateWithoutClear(table, id, p) ==
    LET n == NormalizeParam(p)
        Call(f) == IF f \in Maps THEN Set(f, MapOf(n[f]))
                   ELSE IF n[f] = None THEN SetNillable(f, None)
                   ELSE Set(f, n[f])
        fields == SetToSeq(DOMAIN n)
        calls == <<Where(StateEQ("scheduled"))>>
                 \o [k \in DOMAIN fields |-> Call(fields[k])]
    IN  IF ~IsValid(Update(fakeTask, p)) THEN Answer(table, "invalid_task")
        ELSE Explained(table, id, UpdateOneSave(table, id, calls), ErrKindUpdate)

(* p has at least one field: what an UPDATE that sets nothing does is up   *)
(* to the library.                                                         *)
UpdateById(table, id, p) ==
    LET n == NormalizeParam(p)
        Call(f) == IF f \in Maps THEN Set(f, MapOf(n[f]))
                   ELSE IF f = "deadline" /\ n[f] = None THEN Clear(f)
                   ELSE Set(f, n[f])
        fields == SetToSeq(DOMAIN n)
        calls == <<Where(StateEQ("scheduled"))>>
                 \o [k \in DOMAIN fields |-> Call(fields[k])]
    IN  IF ~IsValid(Update(fakeTask, p)) THEN Answer(table, "invalid_task")
        ELSE Explained(table, id, UpdateOneSave(table, id, calls), ErrKindUpdate)

Cancel(table, id, now) ==
    LET saved == UpdateOneSave(table, id,
                    <<Where(StateEQ("scheduled")), Set("state", "cancelled"),
                      Set("cancelled_at", NormalizeTime(now))>>)
    IN  Explained(table, id, saved, ErrKindUpdate)

MarkAsDispatched(table, id, now) ==
    LET saved == UpdateOneSave(table, id,
                    <<Where(StateEQ("scheduled")), Set("state", "dispatched"),
                      Set("dispatched_at", NormalizeTime(now))>>)
    IN  Explained(table, id, saved, ErrKindUpdate)

MarkAsDone(table, id, now, result) ==
    LET doneAt == Set("done_at", NormalizeTime(now))
        calls == IF result = "" THEN <<Set("state", "done"), doneAt>>
                 ELSE <<Set("state", "err"), doneAt, Set("err", result)>>
        saved == UpdateOneSave(table, id,
                    <<Where(StateEQ("dispatched"))>> \o calls)
    IN  Explained(table, id, saved, ErrKindMarkAsDone)

-----------------------------------------------------------------------------
(* An UPDATE of many rows is never NotFound: no Exhausted here.            *)
RevertDispatched(table) ==
    LET saved == UpdateSave(table, <<Where(StateEQ("dispatched")),
                                     Set("state", "scheduled")>>)
    IN  Answer(saved.table, saved.err)

CancelDispatched(table, now) ==
    LET saved == UpdateSave(table, <<Where(StateEQ("dispatched")),
                                     Set("state", "cancelled"),
                                     Set("cancelled_at", NormalizeTime(now))>>)
    IN  Answer(saved.table, saved.err)

DeleteEnded(table) ==
    LET exec == DeleteExec(table,
                    <<Where(StateIn({"cancelled", "done", "err"}))>>)
    IN  Answer(exec.table, exec.err)

-----------------------------------------------------------------------------
whereFieldEq(q, f, Pred(_)) == IF f \in DOMAIN q THEN <<Pred(q[f])>> ELSE <<>>

timePred(f, m) ==
    LET op == CASE GetTimeType(m.type) = "NonNull"     -> "NotNull"
                [] GetTimeType(m.type) = "Equal"       -> "EQ"
                [] GetTimeType(m.type) = "Before"      -> "LT"
                [] GetTimeType(m.type) = "BeforeEqual" -> "LTE"
                [] GetTimeType(m.type) = "After"       -> "GT"
                [] GetTimeType(m.type) = "AfterEqual"  -> "GTE"
    IN  FieldIs(f, op, m.value)

whereTime(q, f) == IF f \in DOMAIN q THEN <<timePred(f, q[f])>> ELSE <<>>

whereOptTime(q, f) ==
    IF f \in DOMAIN q /\ q[f] = None THEN <<FieldIs(f, "IsNull", None)>>
    ELSE whereTime(q, f)

jsonMatcher(f, ms) ==
    [k \in DOMAIN ms |->
        LET op == CASE GetMapType(ms[k].type) = "HasKey"   -> "HasKey"
                    [] GetMapType(ms[k].type) = "Exact"    -> "ValueEQ"
                    [] GetMapType(ms[k].type) = "Forward"  -> "StringHasPrefix"
                    [] GetMapType(ms[k].type) = "Backward" -> "StringHasSuffix"
                    [] GetMapType(ms[k].type) = "Middle"   -> "StringContains"
        IN  EntryIs(f, op, ms[k].key, ms[k].value)]

whereMap(q, f) == IF f \in DOMAIN q THEN jsonMatcher(f, q[f]) ELSE <<>>

where(q) ==
    whereFieldEq(q, "id", IDEQ) \o whereFieldEq(q, "work_id", WorkIDEQ)
    \o whereFieldEq(q, "priority", PriorityEQ)
    \o whereFieldEq(q, "state", StateEQ) \o whereFieldEq(q, "err", ErrEQ)
    \o whereTime(q, "scheduled_at") \o whereTime(q, "created_at")
    \o whereOptTime(q, "deadline") \o whereOptTime(q, "cancelled_at")
    \o whereOptTime(q, "dispatched_at") \o whereOptTime(q, "done_at")
    \o whereMap(q, "param") \o whereMap(q, "meta")

(* Find may answer with the tasks whose ids s lists.                       *)
IsFound(table, q, offset, limit, s) ==
    IsAll([where |-> where(NormalizeQuery(q)), order |-> <<Asc("created_at")>>,
           offset |-> offset, limit |-> limit], table, s)

NextQuery ==
    [NewQuery EXCEPT !.where = <<StateEQ("scheduled")>>,
                     !.order = <<Asc("scheduled_at"), Desc("priority"),
                                 Asc("created_at")>>]

(* GetNext may answer with the task of this id; {} is Exhausted.           *)
Nexts(table) == {id \in DOMAIN table : IsFirst(NextQuery, table, <<id>>)}
=============================================================================
