------------------------------ MODULE TaskData ------------------------------
(***************************************************************************)
(* Package def with its data: the whole Task, TaskUpdateParam and          *)
(* TaskQueryParam, and the functions on them.  Tasks keeps what scheduling *)
(* reads and drops the rest; this module keeps everything two repositories *)
(* have to agree on.  Constant operators only.                             *)
(*                                                                         *)
(* Abstractions.  A time is a number of ticks, two to the millisecond, 0   *)
(* is time.Time{}; locations are not kept.  A map[string]string is a       *)
(* function on the keys it holds, Nil if it is nil; its values are         *)
(* sequences of tokens, so that prefixes and substrings mean something.    *)
(* TaskUpdateParam and TaskQueryParam are records of the fields that are   *)
(* Some; an option in a Task, or inside such a field, is None or a value.  *)
(***************************************************************************)
EXTENDS Integers, Sequences, SequencesExt, FiniteSets

CONSTANTS None, Nil

TicksPerMilli == 2
ZeroTime == 0
EmptyMap == [k \in {} |-> <<>>]

States == {"scheduled", "dispatched", "cancelled", "done", "err"}
OptionalTimes == {"deadline", "cancelled_at", "dispatched_at", "done_at"}
Times == {"scheduled_at", "created_at"} \cup OptionalTimes
Maps == {"param", "meta"}
Updatable == {"work_id", "priority", "param", "meta", "scheduled_at", "deadline"}

(* An id no repository ever generates. *)
NeverExistentId == -1

(* def.Task{}; ids are numbers, 0 is the empty id.                         *)
ZeroTask ==
    [id |-> 0, work_id |-> "", priority |-> 0, state |-> "", err |-> "",
     param |-> Nil, meta |-> Nil, scheduled_at |-> ZeroTime,
     created_at |-> ZeroTime, deadline |-> None, cancelled_at |-> None,
     dispatched_at |-> None, done_at |-> None]

Fields == DOMAIN ZeroTask

-----------------------------------------------------------------------------
(* A map as maps.Equal and a lookup see it: nil is empty.                  *)
MapOf(v) == IF v = Nil THEN EmptyMap ELSE v

Equal(t, u) ==
    /\ \A f \in Fields \ Maps : t[f] = u[f]
    /\ \A f \in Maps : MapOf(t[f]) = MapOf(u[f])

IsState(s) == s \in States

IsValid(t) ==
    /\ t.id # 0
    /\ t.work_id # ""
    /\ IsState(t.state)
    /\ t.scheduled_at # ZeroTime
    /\ t.created_at # ZeroTime

-----------------------------------------------------------------------------
(* NormalizeTime and util.DropMicros, alone and under option.Map           *)
NormalizeTime(v) == v - (v % TicksPerMilli)
NormalizeOption(v) == IF v = None THEN None ELSE NormalizeTime(v)

(* Task.NormalizeTime *)
NormalizeTask(t) ==
    [f \in Fields |-> IF f \in Times THEN NormalizeOption(t[f]) ELSE t[f]]

KeepNil(old, p, f) == IF f \in DOMAIN p THEN p[f] ELSE old

(* assignIfSome; a nil map is replaced by an empty one.                    *)
AssignIfSome(old, p, f) ==
    IF f \notin DOMAIN p THEN old
    ELSE IF f \in Maps THEN MapOf(p[f]) ELSE p[f]

(* Task.Update *)
Update(t, p) ==
    NormalizeTask([f \in Fields |-> IF f \in Updatable
                                    THEN AssignIfSome(t[f], p, f) ELSE t[f]])

(* TaskUpdateParam.ToTask *)
ToTask(p, id, createdAt) ==
    Update([ZeroTask EXCEPT !.id = id, !.state = "scheduled",
                            !.created_at = NormalizeTime(createdAt)], p)

(* TaskUpdateParam.Update: what u says, else what p says.                  *)
UpdateParam(p, u) ==
    [f \in DOMAIN p \cup DOMAIN u |-> IF f \in DOMAIN u THEN u[f] ELSE p[f]]

(* TaskUpdateParam.Normalize *)
NormalizeParam(p) ==
    [f \in DOMAIN p |-> IF f \in {"scheduled_at", "deadline"}
                        THEN NormalizeOption(p[f]) ELSE p[f]]

-----------------------------------------------------------------------------
(* TimeMatcher.Match on a time that may be nil, and timeMatchType.Get: an  *)
(* unknown type means Equal.                                               *)
TimeMatchTypes ==
    {"NonNull", "Equal", "Before", "BeforeEqual", "After", "AfterEqual"}
GetTimeType(type) == IF type \in TimeMatchTypes THEN type ELSE "Equal"

MatchTime(m, v) ==
    LET type == GetTimeType(m.type)
    IN  /\ v # None
        /\ type = "Equal"       => v = m.value
        /\ type = "Before"      => v < m.value
        /\ type = "BeforeEqual" => v <= m.value
        /\ type = "After"       => v > m.value
        /\ type = "AfterEqual"  => v >= m.value

MapMatchTypes == {"HasKey", "Exact", "Forward", "Backward", "Middle"}
GetMapType(type) == IF type \in MapMatchTypes THEN type ELSE "Exact"

(* strings.Contains *)
IsWithin(s, t) == \E k \in 0 .. Len(t) : IsPrefix(s, SubSeq(t, k + 1, Len(t)))

(* MapMatcher.Match *)
MatchEntry(m, v) ==
    LET type == GetMapType(m.type)
    IN  /\ m.key \in DOMAIN MapOf(v)
        /\ type = "Exact"    => v[m.key] = m.value
        /\ type = "Forward"  => IsPrefix(m.value, v[m.key])
        /\ type = "Backward" => IsSuffix(m.value, v[m.key])
        /\ type = "Middle"   => IsWithin(m.value, v[m.key])

(* MapMatchers.Match *)
MatchMap(ms, v) == \A k \in DOMAIN ms : MatchEntry(ms[k], v)

(* matchOptTime: Some(None) asks for a time that is not set.               *)
MatchOptTime(m, v) == IF m = None THEN v = None ELSE MatchTime(m, v)

(* TaskQueryParam.Match; only optional times are asked with Some(None).    *)
Match(q, t) ==
    \A f \in DOMAIN q :
        IF f \in Maps THEN MatchMap(q[f], t[f])
        ELSE IF f \in OptionalTimes THEN MatchOptTime(q[f], t[f])
        ELSE IF f \in Times THEN MatchTime(q[f], t[f])
        ELSE t[f] = q[f]

(* TaskQueryParam.Normalize leaves the matcher on Deadline as it is.       *)
NormalizeMatcher(m) ==
    IF m = None THEN None ELSE [m EXCEPT !.value = NormalizeTime(@)]

NormalizeQuery(q) ==
    [f \in DOMAIN q |-> IF f \in Times \ {"deadline"}
                        THEN NormalizeMatcher(q[f]) ELSE q[f]]

-----------------------------------------------------------------------------
(* ErrKind on a whole task: the error of a refused operation, "" for nil.  *)
ErrKind(t, skipDispatchedAt, returnOnEmptyDispatchedAt) ==
    IF t.done_at # None THEN "already_done"
    ELSE IF t.cancelled_at # None THEN "already_cancelled"
    ELSE IF t.dispatched_at # None /\ ~skipDispatchedAt THEN "already_dispatched"
    ELSE IF t.dispatched_at = None /\ returnOnEmptyDispatchedAt THEN "not_dispatched"
    ELSE ""

ErrKindUpdate(t) == ErrKind(t, FALSE, FALSE)
ErrKindMarkAsDone(t) == ErrKind(t, TRUE, TRUE)
=============================================================================
