------------------------------- MODULE Tasks --------------------------------
(***************************************************************************)
(* The data model of package def: tasks, the parameters that create and    *)
(* update them, their order, and the kind of error a repository reports    *)
(* when a task is in the wrong state.  Constant operators only.            *)
(*                                                                         *)
(* Abstractions.  Times are small naturals: the code truncates every time  *)
(* it stores to milliseconds, so a time is a whole number of ticks and 0   *)
(* is time.Time{}.  A task is named by the order in which the repository   *)
(* stamped it, 1 first; `created' is its rank under (CreatedAt,            *)
(* InsertionOrder), the pair that breaks ties in sortable_task.Less.       *)
(* The three optional times set by state changes are kept as "is Some".    *)
(* WorkId, Param, Meta and Deadline are payload no decision here reads.    *)
(***************************************************************************)
EXTENDS Integers

CONSTANTS
    MaxTasks,    (* bound: how many tasks are ever added                   *)
    MaxTime,     (* bound: the last tick of the clock                      *)
    Priorities,  (* the priorities in use                                  *)
    None         (* option.None                                            *)

ASSUME TasksAssumption ==
    /\ MaxTasks \in Nat
    /\ MaxTime \in Nat
    /\ Priorities \subseteq Int
    /\ 0 \in Priorities
    /\ None \notin Int

Ids == 1 .. MaxTasks
Times == 1 .. MaxTime
ZeroTime == 0
FarFuture == MaxTasks + 1

States == {"scheduled", "dispatched", "cancelled", "done", "err"}

Option(S) == S \cup {None}
OrElse(opt, default) == IF opt = None THEN default ELSE opt

(* Id 0 and state "absent" describe def.Task{}, which is also what a map   *)
(* lookup that misses yields.                                              *)
Task == [id           : 0 .. MaxTasks,
         state        : States \cup {"absent"},
         sched        : 0 .. MaxTime,
         prio         : Priorities,
         created      : 0 .. FarFuture,
         cancelledAt  : BOOLEAN,
         dispatchedAt : BOOLEAN,
         doneAt       : BOOLEAN]

NoTask == [id |-> 0, state |-> "absent", sched |-> ZeroTime, prio |-> 0,
           created |-> 0, cancelledAt |-> FALSE, dispatchedAt |-> FALSE,
           doneAt |-> FALSE]

(* def.TaskUpdateParam: None means "leave this field alone".               *)
UpdateParam == [sched : Option(Times), prio : Option(Priorities)]
NoParam == [sched |-> None, prio |-> None]

(* IsValid refuses a task whose scheduled time is zero, so AddTask only    *)
(* ever succeeds with parameters that have one.                            *)
AddParam == {p \in UpdateParam : p.sched # None}

-----------------------------------------------------------------------------
AssignWithoutCheck(old, opt) == opt

(* assignIfSome *)
Assign(old, opt) == OrElse(opt, old)

(* Task.Update *)
Update(t, p) == [t EXCEPT !.sched = Assign(@, p.sched),
                          !.prio  = Assign(@, p.prio)]

(* TaskUpdateParam.ToTask *)
ToTask(p, id, created) ==
    Update([NoTask EXCEPT !.id = id, !.created = created,
                          !.state = "scheduled"], p)

(* Task.Less; on tasks that are not cancelled also sortable_task.Less.     *)
Less(t, j) ==
    \/ t.cancelledAt
    \/ t.sched < j.sched
    \/ t.sched = j.sched /\ t.prio > j.prio
    \/ t.sched = j.sched /\ t.prio = j.prio /\ t.created < j.created

-----------------------------------------------------------------------------
(* def.ErrKind: which error a refused operation reports; "" means nil.     *)
ErrKind(t, skipDispatchedAt, returnOnEmptyDispatchedAt) ==
    IF t.doneAt THEN "already_done"
    ELSE IF t.cancelledAt THEN "already_cancelled"
    ELSE IF t.dispatchedAt /\ ~skipDispatchedAt THEN "already_dispatched"
    ELSE IF ~t.dispatchedAt /\ returnOnEmptyDispatchedAt THEN "not_dispatched"
    ELSE ""

(* ErrKindUpdate, ErrKindCancel and ErrKindMarkAsDispatch are one function *)
(* under three names.                                                      *)
ErrKindUpdate(t) == ErrKind(t, FALSE, FALSE)
ErrKindMarkAsDone(t) == ErrKind(t, TRUE, TRUE)
=============================================================================
