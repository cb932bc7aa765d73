----------------------------- MODULE MemoryStore ----------------------------
(***************************************************************************)
(* repository/inmemory with its data: what each operation makes of the     *)
(* whole tasks and what it answers.  The heap behind GetNext, the locks    *)
(* and Save and Load are InMemoryRepository's.  Constant operators only.   *)
(*                                                                         *)
(* A store is the sequence of the tasks in orderedMap, oldest first, which *)
(* is also the order of their insertion stamps.                            *)
(***************************************************************************)
EXTENDS TaskData

(* The store an operation leaves behind and its error, "" for nil.         *)
Answer(store, err) == [store |-> store, err |-> err]

Has(store, id) == \E k \in DOMAIN store : store[k].id = id
At(store, id) == CHOOSE k \in DOMAIN store : store[k].id = id

AddTask(store, id, now, p) ==
    LET t == ToTask(NormalizeParam(p), id, now)
    IN  IF IsValid(t) THEN Answer(Append(store, t), "")
        ELSE Answer(store, "invalid_task")

GetById(store, id) == store[At(store, id)]

(* The lookup and the state guard every mutation of a stored task has.     *)
Guarded(store, id, state, ErrKindOf(_), Change(_)) ==
    IF ~Has(store, id) THEN Answer(store, "id_not_found")
    ELSE LET k == At(store, id)
         IN  IF store[k].state # state
             THEN Answer(store, ErrKindOf(store[k]))
             ELSE Answer([store EXCEPT ![k] = Change(@)], "")

UpdateById(store, id, p) ==
    Guarded(store, id, "scheduled", ErrKindUpdate,
            LAMBDA t : Update(t, NormalizeParam(p)))

Cancel(store, id, now) ==
    Guarded(store, id, "scheduled", ErrKindUpdate,
            LAMBDA t : [t EXCEPT !.state = "cancelled",
                                 !.cancelled_at = NormalizeTime(now)])

MarkAsDispatched(store, id, now) ==
    Guarded(store, id, "scheduled", ErrKindUpdate,
            LAMBDA t : [t EXCEPT !.state = "dispatched",
                                 !.dispatched_at = NormalizeTime(now)])

(* result is "" for a nil error, else what the error says.                 *)
MarkAsDone(store, id, now, result) ==
    Guarded(store, id, "dispatched", ErrKindMarkAsDone,
            LAMBDA t : [t EXCEPT !.state = IF result = "" THEN "done" ELSE "err",
                                 !.err = result,
                                 !.done_at = NormalizeTime(now)])

-----------------------------------------------------------------------------
(* The tasks q matches, oldest first: the loop of Find.                    *)
Matching(store, q) ==
    LET after[k \in 0 .. Len(store)] ==
            IF k = 0 THEN <<>>
            ELSE IF Match(q, store[k]) THEN Append(after[k - 1], store[k])
            ELSE after[k - 1]
    IN  after[Len(store)]

FindUnskipped(store, q, offset, limit) == Matching(store, NormalizeQuery(q))

(* An offset is counted down to 0, so a negative one skips everything; a   *)
(* negative limit is none, a limit of 0 stops at the first task.           *)
Find(store, q, offset, limit) ==
    LET hits == Matching(store, NormalizeQuery(q))
        rest == IF offset < 0 THEN <<>> ELSE SubSeq(hits, offset + 1, Len(hits))
    IN  IF limit >= 0 /\ limit < Len(rest) THEN SubSeq(rest, 1, limit) ELSE rest

(* sortable_task.Less on positions, that is on insertion stamps.           *)
Less(store, j, k) ==
    LET t == store[j]
        u == store[k]
    IN  \/ t.scheduled_at < u.scheduled_at
        \/ t.scheduled_at = u.scheduled_at
           /\ \/ t.priority > u.priority
              \/ t.priority = u.priority
                 /\ \/ t.created_at < u.created_at
                    \/ t.created_at = u.created_at /\ j < k

(* The root of the heap of the scheduled tasks, 0 for Exhausted.           *)
GetNext(store) ==
    LET S == {k \in DOMAIN store : store[k].state = "scheduled"}
    IN  IF S = {} THEN 0
        ELSE store[CHOOSE k \in S : \A j \in S \ {k} : Less(store, k, j)].id
=============================================================================
