----------------------------- MODULE Repository -----------------------------
(***************************************************************************)
(* def.Repository as repository/inmemory implements it: the store of tasks *)
(* every mutation of which is one critical section of InMemoryRepository.mu *)
(* The operators below are the bodies of those critical sections; who      *)
(* calls them, and what happens between two of them, is said by the        *)
(* modules that extend this one.                                           *)
(*                                                                         *)
(* The heap of the code holds exactly the scheduled tasks and its root is  *)
(* a least one under sortable_task.Less: GetNext is any member of Firsts.  *)
(***************************************************************************)
EXTENDS Tasks

VARIABLES
    tasks,   (* orderedMap: every task ever added, by id                   *)
    count    (* insertionOrderCount                                        *)

RepositoryTypeOK ==
    /\ tasks \in [Ids -> Task]
    /\ count \in 0 .. MaxTasks

RepositoryInit ==
    /\ tasks = [i \in Ids |-> NoTask]
    /\ count = 0

Stored == {i \in Ids : tasks[i].state # "absent"}
Scheduled == {i \in Ids : tasks[i].state = "scheduled"}

(* The candidates for FilterableHeap.Peek. *)
Firsts == {i \in Scheduled : \A j \in Scheduled : ~Less(tasks[j], tasks[i])}

-----------------------------------------------------------------------------
(* The error an operation on a task answers; "" is nil.                    *)
MutateErr(i) ==
    IF i \notin Stored THEN "id_not_found"
    ELSE IF i \notin Scheduled THEN ErrKindUpdate(tasks[i])
    ELSE ""

MarkAsDoneErr(i) ==
    IF i \notin Stored THEN "id_not_found"
    ELSE IF tasks[i].state # "dispatched" THEN ErrKindMarkAsDone(tasks[i])
    ELSE ""

(* AddTask, first half: the creation time and the insertion order are      *)
(* taken before the lock.                                                  *)
Stamp ==
    /\ count < MaxTasks
    /\ count' = count + 1
    /\ UNCHANGED tasks

(* AddTask, second half, under the lock. *)
Insert(i, p) ==
    /\ tasks' = [tasks EXCEPT ![i] = ToTask(p, i, i)]
    /\ UNCHANGED count

CoreUpdateById(i, p) ==
    /\ MutateErr(i) = ""
    /\ tasks' = IF i \in Scheduled
                THEN [tasks EXCEPT ![i] = Update(@, p)] ELSE tasks
    /\ UNCHANGED count

CoreCancel(i) ==
    /\ MutateErr(i) = ""
    /\ tasks' = IF i \in Scheduled
                THEN [tasks EXCEPT ![i].state = "cancelled",
                                   ![i].cancelledAt = TRUE] ELSE tasks
    /\ UNCHANGED count

MarkForgetsState(i) ==
    /\ MutateErr(i) = ""
    /\ tasks' = [tasks EXCEPT ![i].dispatchedAt = TRUE]
    /\ UNCHANGED count

CoreMarkAsDispatched(i) ==
    /\ MutateErr(i) = ""
    /\ tasks' = IF i \in Scheduled
                THEN [tasks EXCEPT ![i].state = "dispatched",
                                   ![i].dispatchedAt = TRUE] ELSE tasks
    /\ UNCHANGED count

MarkAsDoneIgnoresError(i, result) ==
    /\ MarkAsDoneErr(i) = ""
    /\ tasks' = [tasks EXCEPT ![i].state = "done", ![i].doneAt = TRUE]
    /\ UNCHANGED count

CoreMarkAsDone(i, result) ==
    /\ MarkAsDoneErr(i) = ""
    /\ tasks' = IF tasks[i].state = "dispatched"
                THEN [tasks EXCEPT
                        ![i].state = IF result = "nil" THEN "done" ELSE "err",
                        ![i].doneAt = TRUE] ELSE tasks
    /\ UNCHANGED count

-----------------------------------------------------------------------------
(* The repository by itself, as its callers may see it. *)
RepositoryNext ==
    \/ Stamp
    \/ \E i \in 1 .. count, p \in AddParam : i \notin Stored /\ Insert(i, p)
    \/ \E i \in Ids :
          \/ \E p \in UpdateParam : CoreUpdateById(i, p)
          \/ CoreCancel(i)
          \/ CoreMarkAsDispatched(i)
          \/ \E result \in {"nil", "err"} : CoreMarkAsDone(i, result)

RepositorySpec ==
    RepositoryInit /\ [][RepositoryNext]_<<tasks, count>>
=============================================================================
