--------------------------- MODULE SchedulerProofs --------------------------
(***************************************************************************)
(* Proofs about Scheduler, for every number of tasks, workers, clients,    *)
(* priorities, ticks and failures, whatever clients do and Retry repeats:  *)
(*                                                                         *)
(*   SchedTypeCorrect        SchedSpec => []SchedTypeOK                    *)
(*   SchedulerUsesRepository SchedSpec => Spec                             *)
(*   SchedulerTimer          SchedSpec => [](TimerAgrees /\ NeverLate      *)
(*                                               /\ NothingForgotten)      *)
(*   OutcomeReported         SchedSpec => []RecordedOutcome                *)
(*                                                                         *)
(* Spec is that of ObservableRepository: the scheduler is one of its       *)
(* actors, and every step of it is one of that module's steps or changes   *)
(* nothing there, so that what ObservableRepositoryProofs shows holds here *)
(* as well.  The other theorems depend on how callers use the scheduler,   *)
(* and name what they need:                                                *)
(*                                                                         *)
(*   NoDispatchRetry: dispatch errors are not answered with Retry          *)
(*     WorkRunsAtMostOnce   SchedSpec => []AtMostOnce                      *)
(*     WorkersRunDispatched SchedSpec => []RunsOnlyDispatched              *)
(*   NothingDrops: nor does anything drop what was dispatched              *)
(*     NoDispatchLost       SchedSpec => []NeverLost                       *)
(*     WorkIsRecorded       SchedSpec => []CompletionRecorded              *)
(*   OnlyAdds: clients add tasks and leave them as they are                *)
(*     WorkIsDue            SchedSpec => []NotEarly                        *)
(*   NoneSpendsTimer: one client, and no dispatch is given up              *)
(*     NoWakeupLost         SchedSpec => []NoLostWakeup                    *)
(*                                                                         *)
(* The inductive invariant is StepInv: that of ObservableRepositoryProofs, *)
(* the types, what the optional times of a task tell of its state          *)
(* (FlagsOK), that an AddTask on its way has an id of its own (FreshOK),   *)
(* and what Step holds where it stands (StepOK).  StepKinds then says once *)
(* what a step may do to the tasks somebody has: nothing, or mark one,     *)
(* fetch one, start one, report one, take a report or record it.  The rest *)
(* goes through these kinds, not through all actions.                      *)
(*                                                                         *)
(* HandsInv: a task is in at most one pair of hands, and one that is, is   *)
(* dispatched.  Covered: a dispatched one is in some.  DueInv: what the    *)
(* timer was armed for, what GetNext answered and what follows is due.     *)
(* WakeInv: the timer is armed for the first task, or has fired for it and *)
(* Step is on its way to dispatch it, or somebody is about to arm it       *)
(* again.                                                                  *)
(***************************************************************************)
EXTENDS Scheduler, ObservableRepositoryProofs, FiniteSetTheorems

(* The three optional times of a task tell its state, so that ErrKind      *)
(* never answers nil for a task the operation leaves as it is.             *)
FlagsOK ==
    \A i \in Ids :
        /\ tasks[i].state = "scheduled" => ~tasks[i].dispatchedAt
        /\ tasks[i].state = "dispatched" => tasks[i].dispatchedAt
        /\ tasks[i].state = "cancelled" => tasks[i].cancelledAt
        /\ tasks[i].state \in {"done", "err"} => tasks[i].doneAt

(* An AddTask between its stamp and its lock holds an id nobody else has.  *)
FreshOK ==
    /\ Stored \subseteq 1 .. count
    /\ \A a \in Actors :
          Owes(a, "insert") => pend[a].id \in (1 .. count) \ Stored
    /\ \A a, b \in Actors :
          a # b /\ Owes(a, "insert") /\ Owes(b, "insert")
             => pend[a].id # pend[b].id

RepoInv == IInv /\ FlagsOK /\ FreshOK

-----------------------------------------------------------------------------
(* What the operations of the repository do to the states of the tasks.    *)

(* Operations of clients: add a task, or cancel one that is scheduled.     *)
ClientMoves ==
    \A i \in Ids :
        \/ tasks'[i].state = tasks[i].state
        \/ tasks[i].state = "absent" /\ tasks'[i].state = "scheduled"
        \/ tasks[i].state = "scheduled" /\ tasks'[i].state = "cancelled"

Moves(i, from, to) ==
    /\ i \in Ids
    /\ tasks[i].state = from /\ tasks'[i].state = to
    /\ \A j \in Ids \ {i} : tasks'[j] = tasks[j]

(* What every lemma about one task starts from. *)
LEMMA RepoTypes ==
  ASSUME RepoInv
  PROVE  /\ tasks \in [Ids -> Task]
         /\ pend \in [Actors -> Pending]
         /\ count \in 0 .. MaxTasks
         /\ \A i \in Ids : tasks[i].state \in States \cup {"absent"}
  BY DEF RepoInv, IInv, TypeOK, RepositoryTypeOK, Task

(* nil from the check of a mutation means the task is scheduled. *)
LEMMA MutateNil ==
  ASSUME RepoInv, NEW i, MutateErr(i) = ""
  PROVE  i \in Ids /\ i \in Scheduled
  <1>1. i \in Stored /\ i \in Ids
    BY DEF MutateErr, Stored
  <1>2. tasks[i].state \in States
    BY <1>1, RepoTypes DEF Stored
  <1>3. ASSUME i \notin Scheduled PROVE FALSE
    <2>1. ErrKindUpdate(tasks[i]) = ""
      BY <1>1, <1>3 DEF MutateErr
    <2>2. tasks[i].state \in {"dispatched", "cancelled", "done", "err"}
      BY <1>1, <1>2, <1>3 DEF Scheduled, States
    <2>3. tasks[i].doneAt \/ tasks[i].cancelledAt \/ tasks[i].dispatchedAt
      BY <1>1, <2>2 DEF RepoInv, FlagsOK
    <2> QED BY <2>1, <2>3 DEF ErrKindUpdate, ErrKind
  <1> QED BY <1>1, <1>3

(* nil from the check of MarkAsDone means the task is dispatched. *)
LEMMA MarkAsDoneNil ==
  ASSUME RepoInv, NEW i, MarkAsDoneErr(i) = ""
  PROVE  i \in Ids /\ tasks[i].state = "dispatched"
  <1>1. i \in Stored /\ i \in Ids
    BY DEF MarkAsDoneErr, Stored
  <1>2. tasks[i].state \in States
    BY <1>1, RepoTypes DEF Stored
  <1>3. ASSUME tasks[i].state # "dispatched" PROVE FALSE
    <2>1. ErrKindMarkAsDone(tasks[i]) = ""
      BY <1>1, <1>3 DEF MarkAsDoneErr
    <2>2. tasks[i].state \in {"scheduled", "cancelled", "done", "err"}
      BY <1>2, <1>3 DEF States
    <2>3. tasks[i].doneAt \/ tasks[i].cancelledAt \/ ~tasks[i].dispatchedAt
      BY <1>1, <2>2 DEF RepoInv, FlagsOK
    <2> QED BY <2>1, <2>3 DEF ErrKindMarkAsDone, ErrKind
  <1> QED BY <1>1, <1>3

(* A task that moves on from a state it was stored in keeps FreshOK.       *)
LEMMA KeepFresh ==
  ASSUME RepoInv, UNCHANGED count, Stored' = Stored,
         \A a \in Actors : Owes(a, "insert")' => pend'[a] = pend[a]
  PROVE  FreshOK'
  BY DEF RepoInv, FreshOK, Owes

LEMMA CancelMoves ==
  ASSUME RepoInv, NEW a \in Actors, Cancel(a)
  PROVE  /\ ClientMoves /\ FlagsOK' /\ FreshOK'
         /\ \A b \in Actors \ {a} : pend'[b] = pend[b]
  <1>1. PICK i \in Ids : CoreCancel(i) /\ Begin(a, "Cancel", i, NoParam)
    BY DEF Cancel
  <1>2. i \in Scheduled /\ UNCHANGED count
    BY <1>1, MutateNil DEF CoreCancel
  <1>3. tasks' = [tasks EXCEPT ![i].state = "cancelled",
                               ![i].cancelledAt = TRUE]
    BY <1>1, <1>2 DEF CoreCancel
  <1>4. /\ \A j \in Ids \ {i} : tasks'[j] = tasks[j]
        /\ tasks[i].state = "scheduled" /\ tasks'[i].state = "cancelled"
        /\ tasks'[i].cancelledAt
    BY <1>2, <1>3, RepoTypes DEF Task, Scheduled
  <1>5. ClientMoves
    BY <1>4 DEF ClientMoves
  <1>6. FlagsOK'
    BY <1>4 DEF RepoInv, FlagsOK
  <1>7. /\ \A b \in Actors \ {a} : pend'[b] = pend[b]
        /\ ~Owes(a, "insert")'
    BY <1>1, RepoTypes DEF Begin, Owes
  <1>8. Stored' = Stored
    BY <1>4 DEF Stored
  <1>9. FreshOK'
    BY <1>2, <1>7, <1>8, KeepFresh
  <1> QED BY <1>5, <1>6, <1>7, <1>9

LEMMA UpdateByIdMoves ==
  ASSUME RepoInv, NEW a \in Actors, UpdateById(a)
  PROVE  /\ ClientMoves /\ FlagsOK' /\ FreshOK'
         /\ \A b \in Actors \ {a} : pend'[b] = pend[b]
  <1>1. PICK i \in Ids, p \in UpdateParam :
             CoreUpdateById(i, p) /\ Begin(a, "UpdateById", i, p)
    BY DEF UpdateById
  <1>2. i \in Scheduled /\ UNCHANGED count
    BY <1>1, MutateNil DEF CoreUpdateById
  <1>3. tasks' = [tasks EXCEPT ![i] = Update(tasks[i], p)]
    BY <1>1, <1>2, RepoTypes DEF CoreUpdateById
  <1>4. /\ \A j \in Ids \ {i} : tasks'[j] = tasks[j]
        /\ tasks'[i].state = tasks[i].state
        /\ tasks'[i].dispatchedAt = tasks[i].dispatchedAt
        /\ tasks'[i].cancelledAt = tasks[i].cancelledAt
        /\ tasks'[i].doneAt = tasks[i].doneAt
    BY <1>3, RepoTypes, UpdateType
  <1>5. ClientMoves
    BY <1>4 DEF ClientMoves
  <1>6. FlagsOK'
    BY <1>4 DEF RepoInv, FlagsOK
  <1>7. /\ \A b \in Actors \ {a} : pend'[b] = pend[b]
        /\ ~Owes(a, "insert")'
    BY <1>1, RepoTypes DEF Begin, Owes
  <1>8. Stored' = Stored
    BY <1>4 DEF Stored
  <1>9. FreshOK'
    BY <1>2, <1>7, <1>8, KeepFresh
  <1> QED BY <1>5, <1>6, <1>7, <1>9

LEMMA AddTaskMoves ==
  ASSUME RepoInv, NEW a \in Actors, AddTask(a)
  PROVE  /\ UNCHANGED tasks /\ ClientMoves /\ FlagsOK' /\ FreshOK'
         /\ \A b \in Actors \ {a} : pend'[b] = pend[b]
  <1>1. PICK p \in AddParam : Begin(a, "insert", count + 1, p)
    BY DEF AddTask
  <1>2. UNCHANGED tasks /\ count' = count + 1
    BY DEF AddTask, Stamp
  <1>3. /\ pend'[a].id = count + 1 /\ pend'[a].op = "insert"
        /\ \A b \in Actors \ {a} : pend'[b] = pend[b]
    BY <1>1, RepoTypes DEF Begin
  <1>4. count \in Nat /\ Stored' = Stored /\ Stored \subseteq 1 .. count
    BY <1>2, RepoTypes DEF Stored, RepoInv, FreshOK
  <1>5. \A b \in Actors \ {a} : Owes(b, "insert")'
           => pend'[b].id \in (1 .. count) \ Stored
    BY <1>3 DEF RepoInv, FreshOK, Owes
  <1>6. \A b, c \in Actors \ {a} :
           b # c /\ Owes(b, "insert")' /\ Owes(c, "insert")'
              => pend'[b].id # pend'[c].id
    BY <1>3 DEF RepoInv, FreshOK, Owes
  <1>7. FreshOK'
    <2>1. Stored' \subseteq 1 .. count'
      BY <1>2, <1>4
    <2>2. \A b \in Actors :
             Owes(b, "insert")' => pend'[b].id \in (1 .. count') \ Stored'
      BY <1>2, <1>3, <1>4, <1>5
    <2>3. \A b, c \in Actors :
             b # c /\ Owes(b, "insert")' /\ Owes(c, "insert")'
                => pend'[b].id # pend'[c].id
      BY <1>3, <1>4, <1>5, <1>6
    <2> QED BY <2>1, <2>2, <2>3 DEF FreshOK, Owes
  <1> QED BY <1>2, <1>3, <1>7 DEF RepoInv, FlagsOK, ClientMoves

LEMMA AddTaskInsertMoves ==
  ASSUME RepoInv, NEW a \in Actors, AddTaskInsert(a)
  PROVE  /\ ClientMoves /\ FlagsOK' /\ FreshOK'
         /\ \A b \in Actors \ {a} : pend'[b] = pend[b]
  <1> DEFINE i == pend[a].id
             p == pend[a].param
             t == ToTask(p, i, i)
  <1>1. /\ tasks' = [tasks EXCEPT ![i] = t] /\ UNCHANGED count
        /\ Begin(a, "AddTask", i, p) /\ Owes(a, "insert")
    BY DEF AddTaskInsert, Insert
  <1>2. i \in Ids /\ p \in UpdateParam /\ i \in (1 .. count) \ Stored
    BY <1>1, RepoTypes DEF RepoInv, IInv, FreshOK, PendOK, Owes, Pending
  <1>3. t.state = "scheduled" /\ ~t.dispatchedAt
    <2>1. i \in 0 .. MaxTasks /\ i \in 0 .. FarFuture
      BY <1>2, TasksAssumption DEF Ids, FarFuture
    <2> QED BY <1>2, <2>1, ToTaskType
  <1>4. /\ pend'[a].op = "AddTask"
        /\ \A b \in Actors \ {a} : pend'[b] = pend[b]
    BY <1>1, RepoTypes DEF Begin
  <1>5. \A b \in Actors \ {a} : Owes(b, "insert") => pend[b].id # i
    BY <1>1 DEF RepoInv, FreshOK
  <1> HIDE DEF t
  <1>6. /\ \A j \in Ids \ {i} : tasks'[j] = tasks[j]
        /\ tasks'[i] = t /\ tasks[i].state = "absent"
    BY <1>1, <1>2, RepoTypes DEF Stored
  <1> HIDE DEF i, p
  <1>7. Stored' = Stored \cup {i}
    BY <1>2, <1>3, <1>6 DEF Stored
  <1>8. FreshOK'
    <2>1. Stored' \subseteq 1 .. count'
      BY <1>1, <1>2, <1>7 DEF RepoInv, FreshOK
    <2>2. \A b \in Actors :
             Owes(b, "insert")' => pend'[b].id \in (1 .. count') \ Stored'
      BY <1>1, <1>4, <1>5, <1>7 DEF RepoInv, FreshOK, Owes
    <2>3. \A b, c \in Actors :
             b # c /\ Owes(b, "insert")' /\ Owes(c, "insert")'
                => pend'[b].id # pend'[c].id
      BY <1>4 DEF RepoInv, FreshOK, Owes
    <2> QED BY <2>1, <2>2, <2>3 DEF FreshOK, Owes
  <1>9. FlagsOK'
    BY <1>3, <1>6 DEF RepoInv, FlagsOK
  <1>10. ClientMoves
    BY <1>3, <1>6 DEF ClientMoves
  <1> QED BY <1>4, <1>8, <1>9, <1>10

(* One task moves on: everything else about RepoInv stays. *)
LEMMA MovesKeeps ==
  ASSUME RepoInv, NEW i, NEW from \in States, NEW to \in States,
         Moves(i, from, to), UNCHANGED count, IInv',
         to = "scheduled" => ~tasks'[i].dispatchedAt,
         to = "dispatched" => tasks'[i].dispatchedAt,
         to = "cancelled" => tasks'[i].cancelledAt,
         to \in {"done", "err"} => tasks'[i].doneAt,
         \A a \in Actors : Owes(a, "insert")' => pend'[a] = pend[a]
  PROVE  RepoInv'
  <1>1. Stored' = Stored
    BY DEF Moves, Stored, States
  <1>2. FreshOK'
    BY <1>1, KeepFresh
  <1>3. FlagsOK'
    BY DEF Moves, RepoInv, FlagsOK
  <1> QED BY <1>2, <1>3 DEF RepoInv

LEMMA MarkAsDispatchedMoves ==
  ASSUME RepoInv, NEW a \in Actors, NEW i, MarkAsDispatched(a, i)
  PROVE  /\ RepoInv' /\ Moves(i, "scheduled", "dispatched")
         /\ IsIdle(a) /\ i \in Ids
         /\ pend'[a].op = "MarkAsDispatched" /\ pend'[a].id = i
         /\ \A b \in Actors \ {a} : pend'[b] = pend[b]
  <1>1. CoreMarkAsDispatched(i) /\ Begin(a, "MarkAsDispatched", i, NoParam)
    BY DEF MarkAsDispatched
  <1>2. i \in Ids /\ i \in Scheduled /\ UNCHANGED count
    BY <1>1, MutateNil DEF CoreMarkAsDispatched
  <1>3. tasks' = [tasks EXCEPT ![i].state = "dispatched",
                               ![i].dispatchedAt = TRUE]
    BY <1>1, <1>2 DEF CoreMarkAsDispatched
  <1>4. Moves(i, "scheduled", "dispatched") /\ tasks'[i].dispatchedAt
    BY <1>2, <1>3, RepoTypes DEF Task, Scheduled, Moves
  <1>5. /\ pend'[a].op = "MarkAsDispatched" /\ pend'[a].id = i
        /\ \A b \in Actors \ {a} : pend'[b] = pend[b]
        /\ ~Owes(a, "insert")'
    BY <1>1, RepoTypes DEF Begin, Owes
  <1>6. IInv'
    BY <1>2, MarkAsDispatchedStep DEF RepoInv
  <1>7. RepoInv'
    <2>1. "dispatched" \in States /\ "scheduled" \in States
      BY DEF States
    <2> QED BY <1>2, <1>4, <1>5, <1>6, <2>1, MovesKeeps
  <1> QED BY <1>2, <1>4, <1>5, <1>7 DEF MarkAsDispatched

LEMMA MarkAsDoneMoves ==
  ASSUME RepoInv, NEW a \in Actors, NEW i, NEW result,
         MarkAsDone(a, i, result)
  PROVE  /\ RepoInv' /\ i \in Ids /\ UNCHANGED pend /\ IsIdle(a)
         /\ Moves(i, "dispatched", IF result = "nil" THEN "done" ELSE "err")
  <1> DEFINE to == IF result = "nil" THEN "done" ELSE "err"
  <1>1. CoreMarkAsDone(i, result) /\ UNCHANGED <<pend, count>> /\ IsIdle(a)
    BY DEF MarkAsDone, CoreMarkAsDone
  <1>2. i \in Ids /\ tasks[i].state = "dispatched"
    BY <1>1, MarkAsDoneNil DEF CoreMarkAsDone
  <1>3. tasks' = [tasks EXCEPT ![i].state = to, ![i].doneAt = TRUE]
    BY <1>1, <1>2 DEF CoreMarkAsDone
  <1>4. Moves(i, "dispatched", to) /\ tasks'[i].doneAt
    BY <1>2, <1>3, RepoTypes DEF Task, Moves
  <1>5. IInv'
    BY <1>2, MarkAsDoneStep DEF RepoInv
  <1>6. RepoInv'
    <2>1. "dispatched" \in States /\ to \in {"done", "err"}
          /\ to \in States
      BY DEF States
    <2>2. /\ to # "scheduled" /\ to # "dispatched" /\ to # "cancelled"
      BY <2>1
    <2> HIDE DEF to
    <2> QED BY <1>1, <1>2, <1>4, <1>5, <2>1, <2>2, MovesKeeps
  <1> QED BY <1>1, <1>2, <1>4, <1>6

(* Steps that only touch the timer, the clock or what an actor owes. *)
LEMMA QuietKeeps ==
  ASSUME RepoInv, IInv', UNCHANGED <<tasks, count>>,
         \A a \in Actors : Owes(a, "insert")' => pend'[a] = pend[a]
  PROVE  RepoInv'
  <1>1. Stored' = Stored
    BY DEF Stored
  <1> QED BY <1>1, KeepFresh DEF RepoInv, FlagsOK

LEMMA HookKeeps ==
  ASSUME RepoInv, NEW a \in Actors, Hook(a)
  PROVE  /\ RepoInv' /\ UNCHANGED tasks
         /\ pend'[a] = Idle
         /\ \A b \in Actors \ {a} : pend'[b] = pend[b]
  <1>1. IInv'
    BY AddTaskHookStep, UpdateByIdHookStep, CancelHookStep,
       MarkAsDispatchedHookStep DEF Hook, RepoInv
  <1>2. PICK op \in Ops : HookOf(a, op)
    BY DEF Hook, AddTaskHook, UpdateByIdHook, CancelHook,
           MarkAsDispatchedHook, Ops
  <1>3. /\ UNCHANGED <<tasks, count>>
        /\ pend'[a] = Idle
        /\ \A b \in Actors \ {a} : pend'[b] = pend[b]
    BY <1>2, RepoTypes DEF HookOf, repoVars
  <1>4. ~Owes(a, "insert")'
    BY <1>3 DEF Owes, Idle
  <1> QED BY <1>1, <1>3, <1>4, QuietKeeps

LEMMA QuietStep ==
  ASSUME RepoInv, NEW a \in Actors,
         \/ StartTimer(a) \/ StopTimer(a) \/ Receive \/ Tick
         \/ UNCHANGED vars
  PROVE  RepoInv' /\ UNCHANGED <<tasks, pend>>
  <1>1. UNCHANGED <<tasks, count, pend>>
    BY DEF StartTimer, StopTimer, Receive, Tick, vars, repoVars
  <1>2. IInv'
    BY StartTimerStep, StopTimerStep, ReceiveStep, TickStep, NextIInv
       DEF RepoInv
  <1> QED BY <1>1, <1>2, QuietKeeps

LEMMA FailedCall ==
  ASSUME RepoInv, NEW site, CallFails(site)
  PROVE  RepoInv' /\ UNCHANGED <<tasks, pend>>
  <1>1. UNCHANGED <<tasks, count, pend>>
    BY DEF CallFails, repoVars
  <1>2. IInv'
    BY CallFailsStep DEF RepoInv
  <1> QED BY <1>1, <1>2, QuietKeeps

LEMMA EndedCall ==
  ASSUME RepoInv, NEW site, CallEnds(site)
  PROVE  RepoInv' /\ UNCHANGED <<tasks, pend>>
  BY FailedCall, QuietStep, SchedulerAssumption DEF CallEnds

(* A client's step moves no task that was dispatched, and nothing Step is  *)
(* in the middle of.                                                       *)
LEMMA ClientKeeps ==
  ASSUME RepoInv, NEW a \in Clients, Client(a)
  PROVE  /\ RepoInv' /\ ClientMoves /\ pend'[Sched] = pend[Sched]
  <1>1. a \in Actors /\ Sched \in Actors \ {a}
    BY SchedulerAssumption DEF Clients
  <1>2. ASSUME UNCHANGED tasks PROVE ClientMoves
    BY <1>2 DEF ClientMoves
  <1>3. ASSUME ClientBegins(a)
        PROVE  RepoInv' /\ ClientMoves /\ pend'[Sched] = pend[Sched]
    <2>1. ASSUME AddTask(a)
          PROVE  RepoInv' /\ ClientMoves /\ pend'[Sched] = pend[Sched]
      BY <1>1, <2>1, AddTaskMoves, AddTaskStep DEF RepoInv
    <2>2. ASSUME UpdateById(a)
          PROVE  RepoInv' /\ ClientMoves /\ pend'[Sched] = pend[Sched]
      BY <1>1, <2>2, UpdateByIdMoves, UpdateByIdStep DEF RepoInv
    <2>3. ASSUME Cancel(a)
          PROVE  RepoInv' /\ ClientMoves /\ pend'[Sched] = pend[Sched]
      BY <1>1, <2>3, CancelMoves, CancelStep DEF RepoInv
    <2>4. ASSUME StartTimer(a) \/ StopTimer(a)
          PROVE  RepoInv' /\ ClientMoves /\ pend'[Sched] = pend[Sched]
      BY <1>1, <1>2, <2>4, QuietStep
    <2> QED BY <1>3, <2>1, <2>2, <2>3, <2>4 DEF ClientBegins
  <1>4. ASSUME ClientEnds(a)
        PROVE  RepoInv' /\ ClientMoves /\ pend'[Sched] = pend[Sched]
    <2>1. ASSUME AddTaskInsert(a)
          PROVE  RepoInv' /\ ClientMoves /\ pend'[Sched] = pend[Sched]
      BY <1>1, <2>1, AddTaskInsertMoves, AddTaskInsertStep DEF RepoInv
    <2>2. ASSUME Hook(a)
          PROVE  RepoInv' /\ ClientMoves /\ pend'[Sched] = pend[Sched]
      BY <1>1, <1>2, <2>2, HookKeeps
    <2> QED BY <1>4, <2>1, <2>2 DEF ClientEnds, Hook
  <1> QED BY <1>3, <1>4 DEF Client

-----------------------------------------------------------------------------
(* Where Step is, and what its local variables then hold. *)
StepOK ==
    /\ IF At("markHook")
       THEN Owes(Sched, "MarkAsDispatched") /\ pend[Sched].id = next.id
       ELSE IsIdle(Sched)
    /\ pc \in {"compare", "dispatch", "mark", "markHook", "fetch"}
          => next.id \in Ids
    /\ prev.s # "ok" => At("idle")
    /\ prev.s \in {"dispatchErr", "taskDone"} => prev.id \in Ids
    /\ prev.result # "canceled"
    /\ isRetry
          => pc \in {"stopTimer", "startTimer", "checkTimer", "dispatch", "fetch"}
    /\ \A w \in Workers : worker[w].running => worker[w].id # 0

StepInv == RepoInv /\ SchedTypeOK /\ StepOK

LEMMA NoErrorType ==
  /\ NoError \in [s : {"ok", "timerUpdateError", "dispatchErr", "taskDone"},
                  id : 0 .. MaxTasks, result : WorkResults]
  /\ NoError.s = "ok" /\ NoError.result = "nil"
  BY TasksAssumption DEF NoError, Returned, WorkResults, Results

LEMMA BlankTask ==
  ASSUME NEW i \in 0 .. MaxTasks
  PROVE  [NoTask EXCEPT !.id = i] \in Task /\ [NoTask EXCEPT !.id = i].id = i
  BY NoTaskType DEF NoTask, Task

(* The types of Step's own variables, apart from those of the repository.  *)
LEMMA StepTypes ==
  ASSUME StepInv
  PROVE  /\ prev.id \in 0 .. MaxTasks /\ prev.result \in WorkResults
         /\ lastTask \in 0 .. MaxTasks /\ next \in Task
         /\ results \in Seq(Result)
         /\ worker \in [Workers -> [id : 0 .. MaxTasks, running : BOOLEAN]]
         /\ ran \in [Ids -> 0 .. 2] /\ outcomes \in [Ids -> SUBSET WorkResults]
         /\ isRetry \in BOOLEAN /\ getNextErr \in BOOLEAN
         /\ NoTask.id = 0 /\ 0 \notin Ids
         /\ \A i \in 0 .. MaxTasks : i # 0 => i \in Ids
         /\ \A i \in Ids : i \in 0 .. MaxTasks
  BY TasksAssumption DEF StepInv, SchedTypeOK, NoTask, Ids

LEMMA ResultTypes ==
  ASSUME StepInv
  PROVE  \A k \in DOMAIN results : results[k] \in Result /\ results[k].id \in Ids
  <1>1. \A k \in DOMAIN results : results[k] \in Result
    BY StepTypes
  <1> QED BY <1>1 DEF Result

LEMMA ReceiveResult ==
  ASSUME StepInv, results # <<>>
  PROVE  /\ Head(results) \in Result /\ Tail(results) \in Seq(Result)
         /\ 1 \in DOMAIN results /\ Head(results) = results[1]
         /\ \A k \in DOMAIN Tail(results) :
               /\ k + 1 \in DOMAIN results
               /\ Tail(results)[k] = results[k + 1]
               /\ k + 1 # 1
         /\ \A k \in DOMAIN results \ {1} :
               /\ k - 1 \in DOMAIN Tail(results)
               /\ Tail(results)[k - 1] = results[k]
  BY StepTypes

LEMMA SendResult ==
  ASSUME StepInv, NEW e \in Result
  PROVE  /\ Append(results, e) \in Seq(Result)
         /\ DOMAIN Append(results, e) = DOMAIN results \cup {Len(results) + 1}
         /\ Len(results) + 1 \notin DOMAIN results
         /\ Append(results, e)[Len(results) + 1] = e
         /\ \A k \in DOMAIN results : Append(results, e)[k] = results[k]
  BY StepTypes

(* Where a step of the repository is over, the rest of a step of Step is   *)
(* assignments to its own variables.                                       *)
LEMMA ReturnKeeps ==
  ASSUME StepInv, RepoInv', IsIdle(Sched)', NEW state, Return(state),
         state \in [s : {"ok", "timerUpdateError", "dispatchErr", "taskDone"},
                    id : 0 .. MaxTasks, result : WorkResults],
         state.s \in {"dispatchErr", "taskDone"} => state.id \in Ids,
         state.result # "canceled",
         lastTask' \in 0 .. MaxTasks, getNextErr' \in BOOLEAN,
         results' \in Seq(Result), UNCHANGED <<ran, outcomes>>,
         worker' \in [Workers -> [id : 0 .. MaxTasks, running : BOOLEAN]],
         \A w \in Workers : worker'[w].running => worker'[w].id # 0
  PROVE  StepInv'
  <1>1. SchedTypeOK'
    BY NoTaskType DEF Return, GoTo, StepInv, SchedTypeOK, RepoInv, IInv
  <1>2. StepOK'
    BY DEF Return, GoTo, At, StepOK, IsIdle
  <1> QED BY <1>1, <1>2 DEF StepInv

LEMMA ProceedKeeps ==
  ASSUME StepInv, RepoInv', At("idle") \/ At("checkTimer"), ~isRetry,
         UNCHANGED pend, Proceed, UNCHANGED workVars
  PROVE  StepInv'
  <1>1. /\ lastTask' = 0 /\ getNextErr' = FALSE /\ prev' = NoError
        /\ isRetry' = isRetry
        /\ \/ pc' = "dispatch" /\ next' = [NoTask EXCEPT !.id = lastTask]
              /\ lastTask \in Ids
           \/ pc' = "select" /\ next' = next
    BY StepTypes DEF Proceed, GoTo
  <1>2. next' \in Task /\ (pc' = "dispatch" => next'.id \in Ids)
    BY <1>1, StepTypes, BlankTask
  <1>3. pc' \in {"dispatch", "select"}
    BY <1>1
  <1>4. IsIdle(Sched)'
    BY DEF StepInv, StepOK, IsIdle, At
  <1>5. SchedTypeOK'
    <2>1. lastTask' \in 0 .. MaxTasks
      BY <1>1, TasksAssumption
    <2>2. getNextErr' \in BOOLEAN
      BY <1>1
    <2> QED BY <1>1, <1>2, <1>3, <2>1, <2>2, NoErrorType
            DEF workVars, StepInv, SchedTypeOK, RepoInv, IInv
  <1>6. StepOK'
    BY <1>1, <1>2, <1>3, <1>4, NoErrorType
       DEF workVars, At, StepInv, StepOK, IsIdle
  <1> QED BY <1>5, <1>6 DEF StepInv

LEMMA GoToKeeps ==
  ASSUME StepInv, RepoInv', NEW label, GoTo(label),
         label \in {"idle", "stopTimer", "startTimer", "checkTimer", "getNext",
                   "compare", "dispatch", "mark", "markHook", "fetch"},
         IF label = "markHook"
         THEN Owes(Sched, "MarkAsDispatched")' /\ pend'[Sched].id = next'.id
         ELSE IsIdle(Sched)',
         next' \in Task,
         label \in {"compare", "dispatch", "mark", "markHook", "fetch"}
            => next'.id \in Ids,
         (~At("idle") /\ prev' = prev) \/ prev' = NoError,
         isRetry' \in BOOLEAN,
         isRetry' => label \in {"stopTimer", "startTimer", "checkTimer",
                               "dispatch", "fetch"},
         UNCHANGED <<lastTask, getNextErr, workVars>>
  PROVE  StepInv'
  <1>1. /\ prev' \in [s : {"ok", "timerUpdateError", "dispatchErr", "taskDone"},
                      id : 0 .. MaxTasks, result : WorkResults]
        /\ prev'.s = "ok" /\ prev'.result # "canceled"
    BY NoErrorType DEF StepInv, StepOK, SchedTypeOK
  <1>2. SchedTypeOK'
    BY <1>1 DEF workVars, GoTo, StepInv, SchedTypeOK, RepoInv, IInv
  <1>3. StepOK'
    BY <1>1 DEF workVars, GoTo, At, StepInv, StepOK, IsIdle, Owes
  <1> QED BY <1>2, <1>3 DEF StepInv

LEMMA IdleSched ==
  ASSUME StepInv, ~At("markHook")
  PROVE  IsIdle(Sched) /\ Sched \in Actors
  BY SchedulerAssumption DEF StepInv, StepOK

LEMMA BootStep == ASSUME StepInv, Boot PROVE StepInv'
  <1>1. RepoInv' /\ UNCHANGED <<tasks, pend>> /\ IsIdle(Sched)'
    BY QuietStep, IdleSched DEF StepInv, Boot, At, IsIdle
  <1>2. ~isRetry' /\ next' = next /\ next \in Task /\ prev' = prev
        /\ isRetry' \in BOOLEAN /\ ~At("idle")
    BY StepTypes DEF Boot, At, StepInv, StepOK
  <1>3. GoTo("idle") /\ UNCHANGED <<lastTask, getNextErr, workVars>>
    BY DEF Boot
  <1> QED BY <1>1, <1>2, <1>3, GoToKeeps

LEMMA StepStep ==
  ASSUME StepInv, Step
  PROVE  StepInv'
  <1>1. /\ At("idle") /\ ~At("markHook") /\ ~isRetry
        /\ UNCHANGED vars /\ UNCHANGED workVars
    BY DEF Step, At, StepInv, StepOK
  <1>2. RepoInv' /\ UNCHANGED pend /\ IsIdle(Sched)'
    BY <1>1, QuietStep, IdleSched DEF StepInv, IsIdle
  <1>3. CASE Proceed
    BY <1>1, <1>2, <1>3, ProceedKeeps
  <1>4. CASE GoTo("stopTimer") /\ prev' = NoError
             /\ UNCHANGED <<isRetry, next, lastTask, getNextErr>>
    <2>1. /\ GoTo("stopTimer") /\ prev' = NoError
          /\ next' \in Task /\ isRetry' \in BOOLEAN /\ ~isRetry'
          /\ UNCHANGED <<lastTask, getNextErr, workVars>>
      BY <1>1, <1>4, StepTypes
    <2> QED BY <1>2, <2>1, GoToKeeps
  <1> QED BY <1>1, <1>3, <1>4 DEF Step

LEMMA TimerStep ==
  ASSUME StepInv, StepStopTimer \/ StepStartTimer
  PROVE  StepInv'
  <1>1. RepoInv' /\ UNCHANGED <<tasks, pend>> /\ IsIdle(Sched)'
    BY QuietStep, IdleSched
       DEF StepInv, StepStopTimer, StepStartTimer, At, IsIdle
  <1>2. /\ next' = next /\ next \in Task /\ prev' = prev /\ isRetry' = isRetry
        /\ isRetry \in BOOLEAN /\ ~At("idle")
        /\ UNCHANGED <<lastTask, getNextErr, workVars>>
        /\ GoTo("startTimer") \/ GoTo("checkTimer")
    BY StepTypes
       DEF StepStopTimer, StepStartTimer, At, StepInv, SchedTypeOK
  <1> QED BY <1>1, <1>2, GoToKeeps

LEMMA CheckTimerStep ==
  ASSUME StepInv, StepCheckTimer
  PROVE  StepInv'
  <1>1. /\ At("checkTimer") /\ ~At("markHook")
        /\ UNCHANGED vars /\ UNCHANGED workVars
    BY DEF StepCheckTimer, At
  <1>2. RepoInv' /\ UNCHANGED pend /\ IsIdle(Sched)'
    BY <1>1, QuietStep, IdleSched DEF StepInv, IsIdle
  <1>3. CASE Proceed /\ ~isRetry
    BY <1>1, <1>2, <1>3, ProceedKeeps
  <1>4. ASSUME NEW state, Return(state), UNCHANGED <<lastTask, getNextErr>>,
               state = NoError
               \/ state = Returned("timerUpdateError", 0, "nil")
        PROVE  StepInv'
    <2>1. /\ state \in [s : {"ok", "timerUpdateError", "dispatchErr",
                            "taskDone"},
                       id : 0 .. MaxTasks, result : WorkResults]
          /\ state.s \in {"ok", "timerUpdateError"} /\ state.result = "nil"
      BY <1>4, NoErrorType, TasksAssumption
         DEF Returned, WorkResults, Results
    <2>2. /\ lastTask' \in 0 .. MaxTasks /\ getNextErr' \in BOOLEAN
          /\ results' \in Seq(Result)
          /\ worker' \in [Workers -> [id : 0 .. MaxTasks, running : BOOLEAN]]
          /\ \A w \in Workers : worker'[w].running => worker'[w].id # 0
          /\ UNCHANGED <<ran, outcomes>>
      BY <1>1, <1>4 DEF workVars, StepInv, SchedTypeOK, StepOK
    <2> QED BY <1>2, <1>4, <2>1, <2>2, ReturnKeeps
  <1> QED BY <1>3, <1>4 DEF StepCheckTimer

(* Step returns without a worker having moved.                             *)
LEMMA ReturnQuiet ==
  ASSUME StepInv, RepoInv', UNCHANGED pend, ~At("markHook"),
         NEW state, Return(state),
         \/ state = NoError
         \/ state = prev
         \/ \E i \in Ids : state = Returned("dispatchErr", i, "nil")
         \/ \E i \in Ids, result \in Results :
               state = Returned("taskDone", i, result),
         lastTask' \in 0 .. MaxTasks, getNextErr' \in BOOLEAN,
         results' \in Seq(Result),
         UNCHANGED <<worker, ran, outcomes>>
  PROVE  StepInv'
  <1>1. IsIdle(Sched)'
    BY IdleSched DEF IsIdle
  <1>2. /\ prev \in [s : {"ok", "timerUpdateError", "dispatchErr", "taskDone"},
                     id : 0 .. MaxTasks, result : WorkResults]
        /\ prev.result # "canceled"
        /\ prev.s \in {"dispatchErr", "taskDone"} => prev.id \in Ids
    BY DEF StepInv, SchedTypeOK, StepOK
  <1>3. \A i \in Ids, result \in Results, t \in {"dispatchErr", "taskDone"} :
           LET st == Returned(t, i, result)
           IN  /\ st \in [s : {"ok", "timerUpdateError", "dispatchErr",
                              "taskDone"},
                          id : 0 .. MaxTasks, result : WorkResults]
               /\ st.result # "canceled" /\ st.id \in Ids
    BY StepTypes DEF Returned, WorkResults, Results
  <1>4. "nil" \in Results
    BY DEF Results
  <1>5. /\ state \in [s : {"ok", "timerUpdateError", "dispatchErr", "taskDone"},
                      id : 0 .. MaxTasks, result : WorkResults]
        /\ state.result # "canceled"
        /\ state.s \in {"dispatchErr", "taskDone"} => state.id \in Ids
    BY <1>2, <1>3, <1>4, NoErrorType
  <1>6. /\ worker' \in [Workers -> [id : 0 .. MaxTasks, running : BOOLEAN]]
        /\ \A w \in Workers : worker'[w].running => worker'[w].id # 0
    BY DEF StepInv, SchedTypeOK, StepOK
  <1> QED BY <1>1, <1>5, <1>6, ReturnKeeps

LEMMA SelectCtxDoneStep ==
  ASSUME StepInv, SelectCtxDone
  PROVE  StepInv'
  <1>1. /\ RepoInv' /\ UNCHANGED pend /\ ~At("markHook")
    BY QuietStep, SchedulerAssumption DEF StepInv, SelectCtxDone, At
  <1>2. /\ Return(NoError) /\ UNCHANGED <<worker, ran, outcomes>>
        /\ lastTask' \in 0 .. MaxTasks /\ getNextErr' \in BOOLEAN
        /\ results' \in Seq(Result)
    BY StepTypes DEF SelectCtxDone, workVars
  <1> QED BY <1>1, <1>2, ReturnQuiet

LEMMA SelectResultStep ==
  ASSUME StepInv, SelectResult
  PROVE  StepInv'
  <1> DEFINE res == Head(results)
  <1>1. /\ results # <<>> /\ ~At("markHook")
        /\ results' = Tail(results)
        /\ UNCHANGED <<lastTask, getNextErr, worker, ran, outcomes>>
    BY DEF SelectResult, At
  <1>2. res.id \in Ids /\ res.result \in WorkResults
        /\ results' \in Seq(Result)
    BY <1>1, ReceiveResult DEF Result
  <1>3. res.result # "canceled" => res.result \in Results
    BY <1>2 DEF WorkResults
  <1>4. lastTask' \in 0 .. MaxTasks /\ getNextErr' \in BOOLEAN
    BY <1>1, StepTypes
  <1>5. /\ RepoInv' /\ UNCHANGED pend
        /\ \/ Return(NoError)
           \/ res.result # "canceled"
              /\ Return(Returned("taskDone", res.id, res.result))
    <2>1. Sched \in Actors
      BY SchedulerAssumption
    <2>2. ASSUME UNCHANGED vars \/ CallEnds("MarkAsDone")
          PROVE  RepoInv' /\ UNCHANGED pend
      BY <2>1, <2>2, QuietStep, EndedCall DEF StepInv
    <2>3. ASSUME MarkAsDone(Sched, res.id, res.result)
          PROVE  RepoInv' /\ UNCHANGED pend
      BY <2>1, <2>3, MarkAsDoneMoves DEF StepInv
    <2> QED BY <2>2, <2>3 DEF SelectResult
  <1> HIDE DEF res
  <1> QED BY <1>1, <1>2, <1>3, <1>4, <1>5, ReturnQuiet

LEMMA SelectTimerStep ==
  ASSUME StepInv, SelectTimer
  PROVE  StepInv'
  <1>1. RepoInv' /\ UNCHANGED <<tasks, pend>> /\ IsIdle(Sched)'
    BY QuietStep, IdleSched DEF StepInv, SelectTimer, At, IsIdle
  <1>2. /\ GoTo("getNext") /\ ~At("idle") /\ prev' = prev /\ ~isRetry'
        /\ isRetry' \in BOOLEAN /\ next' \in Task
        /\ UNCHANGED <<lastTask, getNextErr, workVars>>
    BY StepTypes DEF SelectTimer, At, StepInv, StepOK
  <1> QED BY <1>1, <1>2, GoToKeeps

LEMMA GetNextStep ==
  ASSUME StepInv, StepGetNext
  PROVE  StepInv'
  <1>1. UNCHANGED workVars /\ At("getNext") /\ ~At("markHook") /\ ~isRetry
        /\ Sched \in Actors
    BY SchedulerAssumption DEF StepGetNext, At, StepInv, StepOK
  <1>2. ASSUME NEW i \in Firsts, GoTo("compare"), next' = tasks[i],
               UNCHANGED <<vars, prev, isRetry, lastTask, getNextErr>>
        PROVE  StepInv'
    <2>1. RepoInv' /\ UNCHANGED pend /\ IsIdle(Sched)'
      BY <1>1, <1>2, QuietStep, IdleSched DEF StepInv, IsIdle
    <2>2. next' \in Task /\ next'.id \in Ids
      BY <1>2, RepoTypes
         DEF Firsts, Scheduled, StepInv, RepoInv, IInv, StoredOK, Stored
    <2>3. /\ ~At("idle") /\ prev' = prev /\ ~isRetry' /\ isRetry' \in BOOLEAN
          /\ UNCHANGED <<lastTask, getNextErr, workVars>>
      BY <1>1, <1>2, StepTypes DEF At
    <2> QED BY <1>2, <2>1, <2>2, <2>3, GoToKeeps
  <1>3. ASSUME (Scheduled = {} /\ UNCHANGED vars) \/ CallFails("GetNext"),
               lastTask' = 0, getNextErr' = TRUE, Return(NoError)
        PROVE  StepInv'
    <2>1. RepoInv' /\ UNCHANGED pend
      BY <1>1, <1>3, QuietStep, FailedCall DEF StepInv
    <2>2. lastTask' \in 0 .. MaxTasks
      BY <1>3, TasksAssumption
    <2>3. getNextErr' \in BOOLEAN
      BY <1>3
    <2>4. results' \in Seq(Result) /\ UNCHANGED <<worker, ran, outcomes>>
      BY <1>1, StepTypes DEF workVars
    <2> QED BY <1>1, <1>3, <2>1, <2>2, <2>3, <2>4, ReturnQuiet
  <1> QED BY <1>2, <1>3 DEF StepGetNext

LEMMA CompareStep ==
  ASSUME StepInv, StepCompare
  PROVE  StepInv'
  <1>1. /\ RepoInv' /\ UNCHANGED pend /\ ~At("markHook")
    BY QuietStep, SchedulerAssumption DEF StepInv, StepCompare, At
  <1>2. next.id \in 0 .. MaxTasks
    BY StepTypes DEF StepCompare, At, StepInv, StepOK
  <1>3. /\ Return(NoError) /\ UNCHANGED <<worker, ran, outcomes>>
        /\ lastTask' \in 0 .. MaxTasks /\ getNextErr' \in BOOLEAN
        /\ results' \in Seq(Result)
    BY <1>2, StepTypes DEF StepCompare, workVars
  <1> QED BY <1>1, <1>3, ReturnQuiet

(* dispatchTask gives up: its state names the task for a later Retry.      *)
LEMMA DispatchFailedKeeps ==
  ASSUME StepInv, RepoInv', UNCHANGED pend,
         At("dispatch") \/ At("mark") \/ At("fetch"), DispatchFailed,
         UNCHANGED <<lastTask, getNextErr, workVars>>
  PROVE  StepInv'
  <1>1. next.id \in Ids /\ ~At("markHook")
    BY DEF At, StepInv, StepOK
  <1>2. \E i \in Ids : Returned("dispatchErr", next.id, "nil")
                       = Returned("dispatchErr", i, "nil")
    BY <1>1
  <1>3. /\ lastTask' \in 0 .. MaxTasks /\ getNextErr' \in BOOLEAN
        /\ results' \in Seq(Result) /\ UNCHANGED <<worker, ran, outcomes>>
    BY StepTypes DEF workVars
  <1> QED BY <1>1, <1>2, <1>3, ReturnQuiet DEF DispatchFailed

LEMMA DispatchCtxDoneStep ==
  ASSUME StepInv, DispatchCtxDone
  PROVE  StepInv'
  <1>1. RepoInv' /\ UNCHANGED pend
    BY QuietStep, SchedulerAssumption DEF StepInv, DispatchCtxDone
  <1> QED BY <1>1, DispatchFailedKeeps DEF DispatchCtxDone

LEMMA DispatchStep ==
  ASSUME StepInv, Dispatch
  PROVE  StepInv'
  <1>1. RepoInv' /\ UNCHANGED <<tasks, pend>> /\ IsIdle(Sched)'
    BY QuietStep, IdleSched DEF StepInv, Dispatch, At, IsIdle
  <1>2. /\ ~At("idle") /\ prev' = prev /\ next' = next /\ next' \in Task
        /\ next'.id \in Ids /\ isRetry' = isRetry /\ isRetry' \in BOOLEAN
        /\ UNCHANGED <<lastTask, getNextErr, workVars>>
        /\ \/ GoTo("mark") /\ ~isRetry'
           \/ GoTo("fetch")
    BY StepTypes DEF Dispatch, At, StepInv, StepOK
  <1> QED BY <1>1, <1>2, GoToKeeps

LEMMA MarkStep ==
  ASSUME StepInv, DispatchMark
  PROVE  StepInv'
  <1>1. /\ At("mark") /\ ~At("idle") /\ ~isRetry /\ Sched \in Actors
        /\ UNCHANGED <<lastTask, getNextErr, workVars>>
    BY SchedulerAssumption DEF DispatchMark, At, StepInv, StepOK
  <1>2. ASSUME GoTo("markHook"), MarkAsDispatched(Sched, next.id),
               UNCHANGED <<prev, isRetry, next>>
        PROVE  StepInv'
    <2>1. /\ RepoInv' /\ Owes(Sched, "MarkAsDispatched")'
          /\ pend'[Sched].id = next'.id
          /\ next'.id \in Ids
      BY <1>1, <1>2, MarkAsDispatchedMoves DEF StepInv, Owes
    <2>2. /\ next' \in Task /\ ~isRetry' /\ isRetry' \in BOOLEAN
          /\ prev' = prev
      BY <1>1, <1>2, StepTypes
    <2> QED BY <1>1, <1>2, <2>1, <2>2, GoToKeeps
  <1>3. ASSUME (MutateErr(next.id) # "" /\ UNCHANGED vars)
                \/ CallEnds("CoreMarkAsDispatched"),
               DispatchFailed
        PROVE  StepInv'
    <2>1. RepoInv' /\ UNCHANGED pend
      BY <1>1, <1>3, QuietStep, EndedCall DEF StepInv
    <2> QED BY <1>1, <1>3, <2>1, DispatchFailedKeeps
  <1> QED BY <1>2, <1>3 DEF DispatchMark

LEMMA MarkHookStep ==
  ASSUME StepInv, DispatchMarkHook
  PROVE  StepInv'
  <1>1. Sched \in Actors /\ Hook(Sched)
    BY SchedulerAssumption DEF DispatchMarkHook, Hook
  <1>2. RepoInv' /\ IsIdle(Sched)'
    BY <1>1, HookKeeps DEF StepInv, IsIdle
  <1>3. /\ GoTo("fetch") /\ ~At("idle") /\ prev' = prev
        /\ next' \in Task /\ next'.id \in Ids
        /\ ~isRetry' /\ isRetry' \in BOOLEAN
        /\ UNCHANGED <<lastTask, getNextErr, workVars>>
    BY StepTypes DEF DispatchMarkHook, At, StepInv, StepOK
  <1> QED BY <1>2, <1>3, GoToKeeps

LEMMA FetchStep ==
  ASSUME StepInv, DispatchFetch
  PROVE  StepInv'
  <1>1. /\ At("fetch") /\ ~At("markHook") /\ next.id \in Ids
        /\ UNCHANGED <<lastTask, getNextErr, results, ran, outcomes>>
        /\ Sched \in Actors /\ IsIdle(Sched)
    BY IdleSched DEF DispatchFetch, At, StepInv, StepOK
  <1>2. ASSUME NEW w \in Workers, Return(NoError), UNCHANGED vars,
               worker' = [worker EXCEPT
                            ![w] = [id |-> next.id, running |-> FALSE]]
        PROVE  StepInv'
    <2>1. RepoInv' /\ IsIdle(Sched)'
      BY <1>1, <1>2, QuietStep DEF StepInv, IsIdle
    <2>2. [id |-> next.id, running |-> FALSE]
             \in [id : 0 .. MaxTasks, running : BOOLEAN]
      BY <1>1, StepTypes
    <2>3. /\ worker' \in [Workers -> [id : 0 .. MaxTasks, running : BOOLEAN]]
          /\ \A v \in Workers : worker'[v].running => worker'[v].id # 0
      BY <1>2, <2>2, StepTypes DEF StepInv, StepOK
    <2>4. /\ lastTask' \in 0 .. MaxTasks /\ getNextErr' \in BOOLEAN
          /\ results' \in Seq(Result) /\ UNCHANGED <<ran, outcomes>>
      BY <1>1, StepTypes
    <2> QED BY <1>2, <2>1, <2>3, <2>4, NoErrorType, ReturnKeeps
  <1>3. ASSUME CallEnds("GetById"), DispatchFailed, UNCHANGED worker
        PROVE  StepInv'
    <2>1. RepoInv' /\ UNCHANGED pend
      BY <1>3, EndedCall DEF StepInv
    <2> QED BY <1>1, <1>3, <2>1, DispatchFailedKeeps DEF workVars
  <1> QED BY <1>2, <1>3 DEF DispatchFetch

LEMMA RetryTimerStep ==
  ASSUME StepInv, RetryTimer
  PROVE  StepInv'
  <1>1. RepoInv' /\ UNCHANGED <<tasks, pend>> /\ IsIdle(Sched)'
    BY QuietStep, IdleSched DEF StepInv, RetryTimer, At, IsIdle
  <1>2. /\ GoTo("stopTimer") /\ prev' = NoError /\ next' \in Task
        /\ isRetry' \in BOOLEAN
        /\ UNCHANGED <<lastTask, getNextErr, workVars>>
    BY StepTypes DEF RetryTimer
  <1> QED BY <1>1, <1>2, GoToKeeps

LEMMA RetryDispatchStep ==
  ASSUME StepInv, RetryDispatch
  PROVE  StepInv'
  <1>1. /\ ~At("markHook") /\ prev.id \in Ids
        /\ UNCHANGED <<lastTask, getNextErr, workVars>>
    BY DEF RetryDispatch, At, StepInv, StepOK
  <1>2. ASSUME GoTo("dispatch"), isRetry' = TRUE, prev' = NoError,
               next' = [NoTask EXCEPT !.id = prev.id], UNCHANGED vars
        PROVE  StepInv'
    <2>1. RepoInv' /\ IsIdle(Sched)'
      BY <1>1, <1>2, QuietStep, IdleSched DEF StepInv, IsIdle
    <2>2. next' \in Task /\ next'.id \in Ids /\ isRetry' \in BOOLEAN
      BY <1>1, <1>2, StepTypes, BlankTask
    <2> QED BY <1>1, <1>2, <2>1, <2>2, GoToKeeps
  <1>3. ASSUME CallEnds("GetById"), Return(prev)
        PROVE  StepInv'
    <2>1. RepoInv' /\ UNCHANGED pend
      BY <1>3, EndedCall DEF StepInv
    <2>2. /\ lastTask' \in 0 .. MaxTasks /\ getNextErr' \in BOOLEAN
          /\ results' \in Seq(Result) /\ UNCHANGED <<worker, ran, outcomes>>
      BY <1>1, StepTypes DEF workVars
    <2> QED BY <1>1, <1>3, <2>1, <2>2, ReturnQuiet
  <1> QED BY <1>1, <1>2, <1>3 DEF RetryDispatch

LEMMA RetryTaskDoneStep ==
  ASSUME StepInv, RetryTaskDone
  PROVE  StepInv'
  <1>1. /\ ~At("markHook") /\ prev.id \in Ids /\ Sched \in Actors
        /\ UNCHANGED <<lastTask, getNextErr, workVars>>
    BY SchedulerAssumption DEF RetryTaskDone, At, StepInv, StepOK
  <1>2. \E state \in {NoError, prev} : Return(state)
    BY DEF RetryTaskDone
  <1>3. RepoInv' /\ UNCHANGED pend
    BY <1>1, QuietStep, EndedCall, MarkAsDoneMoves DEF StepInv, RetryTaskDone
  <1>4. /\ lastTask' \in 0 .. MaxTasks /\ getNextErr' \in BOOLEAN
        /\ results' \in Seq(Result) /\ UNCHANGED <<worker, ran, outcomes>>
    BY <1>1, StepTypes DEF workVars
  <1> QED BY <1>1, <1>2, <1>3, <1>4, ReturnQuiet

(* The steps of the workers: Step's variables and the repository stay.     *)
LEMMA WorkerKeeps ==
  ASSUME StepInv, UNCHANGED <<vars, stepVars>>,
         worker' \in [Workers -> [id : 0 .. MaxTasks, running : BOOLEAN]],
         \A w \in Workers : worker'[w].running => worker'[w].id # 0,
         results' \in Seq(Result), ran' \in [Ids -> 0 .. 2],
         outcomes' \in [Ids -> SUBSET WorkResults]
  PROVE  StepInv'
  <1>1. RepoInv' /\ UNCHANGED pend
    BY QuietStep, SchedulerAssumption DEF StepInv
  <1>2. SchedTypeOK'
    BY <1>1 DEF stepVars, StepInv, SchedTypeOK, RepoInv, IInv
  <1>3. StepOK'
    BY <1>1 DEF stepVars, StepInv, StepOK, At, Owes, IsIdle
  <1> QED BY <1>1, <1>2, <1>3 DEF StepInv

LEMMA WorkStartStep ==
  ASSUME StepInv, NEW w \in Workers, WorkStart(w)
  PROVE  StepInv'
  <1>1. /\ worker' = [worker EXCEPT ![w].running = TRUE]
        /\ ran' = [ran EXCEPT ![worker[w].id] = Bound(@ + 1)]
        /\ UNCHANGED <<results, outcomes>> /\ UNCHANGED <<vars, stepVars>>
        /\ worker[w].id # 0
    BY DEF WorkStart
  <1>2. /\ worker' \in [Workers -> [id : 0 .. MaxTasks, running : BOOLEAN]]
        /\ \A v \in Workers : worker'[v].running => worker'[v].id # 0
    <2>1. worker \in [Workers -> [id : 0 .. MaxTasks, running : BOOLEAN]]
      BY StepTypes
    <2>2. \A v \in Workers : worker[v].running => worker[v].id # 0
      BY DEF StepInv, StepOK
    <2>3. worker'[w] = [worker[w] EXCEPT !.running = TRUE]
          /\ worker'[w].id = worker[w].id
          /\ worker'[w] \in [id : 0 .. MaxTasks, running : BOOLEAN]
      BY <1>1, <2>1
    <2>4. \A v \in Workers \ {w} : worker'[v] = worker[v]
      BY <1>1, <2>1
    <2>5. worker' \in [Workers -> [id : 0 .. MaxTasks, running : BOOLEAN]]
      BY <1>1, <2>1, <2>3
    <2> QED BY <1>1, <2>2, <2>3, <2>4, <2>5
  <1>3. ran' \in [Ids -> 0 .. 2]
    <2>1. \A n \in 0 .. 2 : Bound(n + 1) \in 0 .. 2
      BY DEF Bound
    <2> QED BY <1>1, <2>1, StepTypes
  <1>4. /\ results' \in Seq(Result) /\ outcomes' \in [Ids -> SUBSET WorkResults]
    BY <1>1, StepTypes
  <1> QED BY <1>1, <1>2, <1>3, <1>4, WorkerKeeps

(* A worker's result is of the task it held. *)
LEMMA ReportedResult ==
  ASSUME StepInv, NEW w \in Workers, WorkRefused(w) \/ WorkEnd(w)
  PROVE  \E result \in WorkResults :
           /\ Report(w, result)
           /\ worker[w].id \in Ids
           /\ [id |-> worker[w].id, result |-> result] \in Result
           /\ UNCHANGED <<vars, stepVars, ran>>
  <1>1. PICK result \in WorkResults :
             Report(w, result) /\ UNCHANGED <<vars, stepVars, ran>>
    BY DEF WorkRefused, WorkEnd, WorkResults, Results
  <1>2. worker[w].id \in 0 .. MaxTasks /\ worker[w].id # 0
    BY StepTypes DEF WorkRefused, WorkEnd, StepInv, StepOK
  <1> QED BY <1>1, <1>2, StepTypes DEF Result

LEMMA ReportStep ==
  ASSUME StepInv, NEW w \in Workers, WorkRefused(w) \/ WorkEnd(w)
  PROVE  StepInv'
  <1>1. PICK result \in WorkResults :
           /\ Report(w, result)
           /\ worker[w].id \in Ids
           /\ [id |-> worker[w].id, result |-> result] \in Result
           /\ UNCHANGED <<vars, stepVars, ran>>
    BY ReportedResult
  <1>2. Free \in [id : 0 .. MaxTasks, running : BOOLEAN]
        /\ Free.id = 0 /\ ~Free.running
    BY TasksAssumption DEF Free
  <1>3. /\ worker' \in [Workers -> [id : 0 .. MaxTasks, running : BOOLEAN]]
        /\ \A v \in Workers : worker'[v].running => worker'[v].id # 0
    BY <1>1, <1>2, StepTypes DEF Report, StepInv, StepOK
  <1>4. results' \in Seq(Result)
    BY <1>1, SendResult DEF Report
  <1>5. ran' \in [Ids -> 0 .. 2]
    BY <1>1, StepTypes
  <1>6. outcomes' \in [Ids -> SUBSET WorkResults]
    BY <1>1, StepTypes DEF Report
  <1> QED BY <1>1, <1>3, <1>4, <1>5, <1>6, WorkerKeeps

(* Clients and the clock run beside Step and the workers. *)
LEMMA BesideKeeps ==
  ASSUME StepInv, RepoInv', pend'[Sched] = pend[Sched],
         UNCHANGED <<stepVars, workVars>>
  PROVE  StepInv'
  <1>1. SchedTypeOK'
    BY DEF stepVars, workVars, StepInv, SchedTypeOK, RepoInv, IInv
  <1>2. StepOK'
    BY DEF stepVars, workVars, StepInv, StepOK, At, Owes, IsIdle
  <1> QED BY <1>1, <1>2 DEF StepInv

LEMMA InitStepInv == SchedInit => StepInv
  <1> SUFFICES ASSUME SchedInit PROVE StepInv
    OBVIOUS
  <1>1. IInv
    BY InitIInv DEF SchedInit
  <1>2. \A i \in Ids : tasks[i].state = "absent"
    BY DEF SchedInit, Init, RepositoryInit, NoTask
  <1>3. pend = [a \in Actors |-> Idle] /\ Idle.op = "none"
    BY DEF SchedInit, Init, Idle
  <1>4. RepoInv
    BY <1>1, <1>2, <1>3 DEF RepoInv, FlagsOK, FreshOK, Stored, Owes
  <1>5. SchedTypeOK
    <2>1. Free \in [id : 0 .. MaxTasks, running : BOOLEAN]
      BY TasksAssumption DEF Free
    <2>2. /\ pc = "boot" /\ isRetry = FALSE /\ getNextErr = FALSE
          /\ prev = NoError /\ next = NoTask
          /\ lastTask = 0 /\ results = <<>>
          /\ worker = [w \in Workers |-> Free]
          /\ ran = [i \in Ids |-> 0]
          /\ outcomes = [i \in Ids |-> {}]
      BY DEF SchedInit
    <2>3. TypeOK
      BY <1>1 DEF IInv
    <2>4. lastTask \in 0 .. MaxTasks
      BY <2>2, TasksAssumption
    <2>5. isRetry \in BOOLEAN /\ getNextErr \in BOOLEAN
      BY <2>2
    <2> QED BY <2>1, <2>2, <2>3, <2>4, <2>5, NoErrorType, NoTaskType
            DEF SchedTypeOK
  <1>6. StepOK
    BY <1>3, NoErrorType, SchedulerAssumption
       DEF SchedInit, StepOK, At, IsIdle, Free
  <1> QED BY <1>4, <1>5, <1>6 DEF StepInv

LEMMA StepperKeeps ==
  ASSUME StepInv, Stepper
  PROVE  StepInv'
  BY BootStep, StepStep, TimerStep, CheckTimerStep, SelectCtxDoneStep,
     SelectResultStep, SelectTimerStep, GetNextStep, CompareStep,
     DispatchCtxDoneStep, DispatchStep, MarkStep, MarkHookStep, FetchStep,
     RetryTimerStep, RetryDispatchStep, RetryTaskDoneStep
     DEF Stepper

LEMMA NextStepInv == StepInv /\ [SchedNext]_allVars => StepInv'
  <1> SUFFICES ASSUME StepInv, [SchedNext]_allVars PROVE StepInv'
    OBVIOUS
  <1>1. ASSUME NEW w \in Workers, Work(w) PROVE StepInv'
    BY <1>1, WorkStartStep, ReportStep DEF Work
  <1>2. ASSUME NEW a \in Clients, Client(a), UNCHANGED <<stepVars, workVars>>
        PROVE  StepInv'
    BY <1>2, ClientKeeps, BesideKeeps DEF StepInv
  <1>3. ASSUME Tick \/ UNCHANGED vars, UNCHANGED <<stepVars, workVars>>
        PROVE  StepInv'
    <2>1. RepoInv' /\ UNCHANGED pend
      BY <1>3, QuietStep, SchedulerAssumption DEF StepInv
    <2> QED BY <1>3, <2>1, BesideKeeps
  <1> QED BY <1>1, <1>2, <1>3, StepperKeeps DEF SchedNext, allVars

LEMMA AlwaysStepInv == SchedSpec => []StepInv
  BY InitStepInv, NextStepInv, PTL DEF SchedSpec

(* Every variable of the scheduler, the workers and the repository keeps   *)
(* its type, whatever fails and whatever the caller of Step retries.       *)
THEOREM SchedTypeCorrect == SchedSpec => []SchedTypeOK
  <1>1. StepInv => SchedTypeOK
    BY DEF StepInv
  <1> QED BY <1>1, AlwaysStepInv, PTL

-----------------------------------------------------------------------------
(* The scheduler uses the repository only as its callers may: what was     *)
(* proved of ObservableRepository for any callers holds under it.          *)

LEMMA FailIsNext ==
  ASSUME NEW site, CallEnds(site)
  PROVE  [Next]_vars
  <1>1. CASE CallFails(site)
    <2>1. site \in FaultSites
      BY <1>1 DEF CallFails, Fails
    <2> QED BY <1>1, <2>1 DEF Next
  <1>2. CASE UNCHANGED vars
    BY <1>2
  <1> QED BY <1>1, <1>2 DEF CallEnds

LEMMA MarkIsNext ==
  ASSUME StepInv, NEW i, MarkAsDispatched(Sched, i)
  PROVE  Next
  <1>1. Sched \in Actors /\ i \in Ids
    BY MarkAsDispatchedMoves, SchedulerAssumption DEF StepInv
  <1> QED BY <1>1 DEF Next, Operation

LEMMA DoneIsNext ==
  ASSUME StepInv, NEW i, NEW result \in WorkResults, result # "canceled",
         MarkAsDone(Sched, i, result)
  PROVE  Next
  <1>1. Sched \in Actors /\ i \in Ids /\ result \in Results
    BY MarkAsDoneMoves, SchedulerAssumption DEF StepInv, WorkResults
  <1> QED BY <1>1 DEF Next, Operation

LEMMA StepperIsNext ==
  ASSUME StepInv, Stepper
  PROVE  [Next]_vars
  <1>1. Sched \in Actors
    BY SchedulerAssumption
  <1>2. ASSUME \/ StartTimer(Sched) \/ StopTimer(Sched) \/ Receive
               \/ Hook(Sched) \/ UNCHANGED vars
        PROVE  [Next]_vars
    BY <1>1, <1>2 DEF Next, Operation
  <1>3. ASSUME \/ Boot \/ Step \/ StepStopTimer \/ StepStartTimer
               \/ StepCheckTimer \/ SelectCtxDone \/ SelectTimer
               \/ StepCompare \/ DispatchCtxDone \/ Dispatch
               \/ DispatchMarkHook \/ RetryTimer
        PROVE  [Next]_vars
    BY <1>2, <1>3
       DEF Boot, Step, StepStopTimer, StepStartTimer, StepCheckTimer,
           SelectCtxDone, SelectTimer, StepCompare, DispatchCtxDone,
           Dispatch, DispatchMarkHook, RetryTimer, Hook
  <1>4. ASSUME SelectResult PROVE [Next]_vars
    <2>1. Head(results).result \in WorkResults
      BY <1>4, ReceiveResult DEF SelectResult, Result
    <2> QED BY <1>4, <2>1, DoneIsNext, FailIsNext DEF SelectResult
  <1>5. ASSUME StepGetNext PROVE [Next]_vars
    BY <1>5, FailIsNext DEF StepGetNext, CallEnds
  <1>6. ASSUME DispatchMark PROVE [Next]_vars
    BY <1>6, MarkIsNext, FailIsNext DEF DispatchMark
  <1>7. ASSUME DispatchFetch PROVE [Next]_vars
    BY <1>7, FailIsNext DEF DispatchFetch
  <1>8. ASSUME RetryDispatch PROVE [Next]_vars
    BY <1>8, FailIsNext DEF RetryDispatch
  <1>9. ASSUME RetryTaskDone PROVE [Next]_vars
    <2>1. prev.result \in WorkResults /\ prev.result # "canceled"
      BY StepTypes DEF StepInv, StepOK
    <2> QED BY <1>9, <2>1, DoneIsNext, FailIsNext DEF RetryTaskDone
  <1> QED BY <1>3, <1>4, <1>5, <1>6, <1>7, <1>8, <1>9 DEF Stepper

LEMMA ClientIsNext ==
  ASSUME NEW a \in Clients, Client(a)
  PROVE  Next
  <1>1. a \in Actors
    BY DEF Clients
  <1> QED BY <1>1 DEF Client, ClientBegins, ClientEnds, Next, Operation, Hook

LEMMA SchedStepIsStep == StepInv /\ [SchedNext]_allVars => [Next]_vars
  <1> SUFFICES ASSUME StepInv, [SchedNext]_allVars PROVE [Next]_vars
    OBVIOUS
  <1>1. ASSUME NEW w \in Workers, Work(w) PROVE UNCHANGED vars
    BY <1>1 DEF Work, WorkStart, WorkRefused, WorkEnd
  <1>2. Tick => Next
    BY DEF Next
  <1> QED BY <1>1, <1>2, StepperIsNext, ClientIsNext DEF SchedNext, allVars

(* The scheduler, its workers and its clients, seen from the repository,   *)
(* are goroutines that call it as ObservableRepository lets them.          *)
THEOREM SchedulerUsesRepository == SchedSpec => Spec
  <1>1. SchedInit => Init
    BY DEF SchedInit
  <1> QED BY <1>1, AlwaysStepInv, SchedStepIsStep, PTL DEF SchedSpec, Spec

(* In particular its timer is never armed too late and forgets no task.    *)
THEOREM SchedulerTimer ==
  SchedSpec => [](TimerAgrees /\ NeverLate /\ NothingForgotten)
  <1>1. IInv => TimerAgrees /\ NeverLate /\ NothingForgotten
    BY DEF IInv
  <1> QED BY <1>1, SchedulerUsesRepository, AlwaysIInv, PTL

-----------------------------------------------------------------------------
(* The ways a step can pass a task from hand to hand.                      *)

(* Step has the task: the fetcher is about to hand it to its worker.       *)
Fetching(i) == (At("markHook") \/ At("fetch")) /\ next.id = i

(* The caller has its result: MarkAsDone failed and may be retried.        *)
Recording(i) == prev.s = "taskDone" /\ prev.id = i

(* No task is dispatched, run or recorded.                                 *)
Quiet ==
    /\ ClientMoves
    /\ UNCHANGED workVars
    /\ \A i \in Ids :
          /\ Fetching(i)' => Fetching(i) \/ (isRetry /\ At("dispatch"))
          /\ Recording(i)' => Recording(i) /\ prev' = prev
          /\ Fetching(i)
                => Fetching(i)' \/ CtxEnds \/ "GetById" \in FaultSites
          /\ Recording(i) /\ tasks[i].state = "dispatched"
                => Recording(i)' \/ "taskDone" \notin RetryStates

(* MarkAsDispatched lets the fetcher of next through. *)
Marked ==
    /\ At("mark") /\ GoTo("markHook")
    /\ Moves(next.id, "scheduled", "dispatched")
    /\ UNCHANGED <<next, prev, workVars>>

(* The fetcher hands next to worker w. *)
Fetched(w) ==
    /\ At("fetch") /\ GoTo("idle") /\ prev' = NoError
    /\ worker[w] = Free
    /\ worker' = [worker EXCEPT ![w] = [id |-> next.id, running |-> FALSE]]
    /\ UNCHANGED <<tasks, results, ran, outcomes>>

(* Step receives a result, and records it, drops it or fails to record it. *)
Received(res) ==
    /\ At("select") /\ GoTo("idle")
    /\ results # <<>> /\ res = Head(results) /\ results' = Tail(results)
    /\ UNCHANGED <<worker, ran, outcomes>>
    /\ \/ /\ res.result = "canceled"
          /\ prev' = NoError
          /\ UNCHANGED tasks
       \/ /\ res.result # "canceled"
          /\ prev' = NoError
          /\ Moves(res.id, "dispatched",
                   IF res.result = "nil" THEN "done" ELSE "err")
       \/ /\ res.result # "canceled"
          /\ prev' = Returned("taskDone", res.id, res.result)
          /\ UNCHANGED tasks

(* Retry records what Step failed to. *)
Recorded ==
    /\ At("idle") /\ GoTo("idle")
    /\ Recording(prev.id) /\ prev' = NoError
    /\ Moves(prev.id, "dispatched",
             IF prev.result = "nil" THEN "done" ELSE "err")
    /\ UNCHANGED workVars

(* Reported(w): the work of w is over, or w refuses it. *)
Reported(w) == WorkRefused(w) \/ WorkEnd(w)

LEMMA SilentStep ==
  ASSUME StepInv, UNCHANGED <<tasks, workVars>>,
         pc' \notin {"markHook", "fetch"}, prev'.s # "taskDone",
         ~At("markHook"),
         At("fetch") => CtxEnds \/ "GetById" \in FaultSites,
         At("idle") /\ prev.s = "taskDone"
            => \/ "taskDone" \notin RetryStates
               \/ tasks[prev.id].state # "dispatched"
  PROVE  Quiet
  <1>1. ClientMoves
    BY DEF ClientMoves
  <1>2. prev.s = "taskDone" => At("idle")
    BY DEF StepInv, StepOK
  <1> QED BY <1>1, <1>2 DEF Quiet, Fetching, Recording, At

(* A dispatched task is never refused by MarkAsDone. *)
LEMMA DispatchedIsAccepted ==
  ASSUME StepInv, NEW i \in Ids, tasks[i].state = "dispatched"
  PROVE  MarkAsDoneErr(i) = ""
  BY DEF MarkAsDoneErr, Stored

LEMMA StepperKinds ==
  ASSUME StepInv, Stepper
  PROVE  \/ Quiet \/ Marked \/ Recorded
         \/ \E w \in Workers : Fetched(w)
         \/ \E res \in Result : Received(res)
  <1>1. Sched \in Actors
    BY SchedulerAssumption
  <1>2. ASSUME NEW site, CallEnds(site)
        PROVE  UNCHANGED tasks /\ (CtxEnds \/ site \in FaultSites)
    BY <1>2 DEF CallEnds, CallFails, Fails, repoVars, vars
  <1>3. ASSUME \/ Boot \/ StepStopTimer \/ StepStartTimer
               \/ StepCheckTimer \/ SelectCtxDone \/ SelectTimer
               \/ StepCompare \/ DispatchCtxDone \/ RetryTimer
               \/ Step
        PROVE  Quiet
    <2>1. UNCHANGED <<tasks, workVars>>
      BY <1>3 DEF Boot, StepStopTimer, StepStartTimer, StepCheckTimer,
                  SelectCtxDone, SelectTimer, StepCompare, DispatchCtxDone,
                  RetryTimer, Step, StartTimer, StopTimer, Receive, vars,
                  repoVars
    <2>2. pc' \notin {"markHook", "fetch"} /\ ~At("markHook") /\ ~At("fetch")
      BY <1>3 DEF Boot, StepStopTimer, StepStartTimer, StepCheckTimer,
                  SelectCtxDone, SelectTimer, StepCompare, DispatchCtxDone,
                  RetryTimer, Step, At, GoTo, Return, DispatchFailed, Proceed
    <2>3. prev'.s # "taskDone"
      BY <1>3, NoErrorType
         DEF Boot, StepStopTimer, StepStartTimer, StepCheckTimer,
             SelectCtxDone, SelectTimer, StepCompare, DispatchCtxDone,
             RetryTimer, Step, At, Return, Returned, DispatchFailed, Proceed,
             StepInv, StepOK
    <2>4. At("idle") /\ prev.s = "taskDone" => "taskDone" \notin RetryStates
      BY <1>3 DEF Boot, StepStopTimer, StepStartTimer, StepCheckTimer,
                  SelectCtxDone, SelectTimer, StepCompare, DispatchCtxDone,
                  RetryTimer, Step, At
    <2> QED BY <2>1, <2>2, <2>3, <2>4, SilentStep
  <1>4. ASSUME SelectResult
        PROVE  \E res \in Result : Received(res)
    <2> DEFINE res == Head(results)
    <2>1. /\ results # <<>> /\ results' = Tail(results) /\ At("select")
          /\ UNCHANGED <<worker, ran, outcomes>>
      BY <1>4 DEF SelectResult
    <2>2. res \in Result
      BY <2>1, ReceiveResult
    <2>3. \/ res.result = "canceled" /\ Return(NoError) /\ UNCHANGED vars
          \/ /\ res.result # "canceled" /\ Return(NoError)
             /\ MarkAsDone(Sched, res.id, res.result)
          \/ /\ res.result # "canceled"
             /\ UNCHANGED vars \/ CallEnds("MarkAsDone")
             /\ Return(Returned("taskDone", res.id, res.result))
      BY <1>4 DEF SelectResult
    <2>4. UNCHANGED vars => UNCHANGED tasks
      BY DEF vars, repoVars
    <2>5. MarkAsDone(Sched, res.id, res.result)
             => Moves(res.id, "dispatched",
                      IF res.result = "nil" THEN "done" ELSE "err")
      BY <1>1, MarkAsDoneMoves DEF StepInv
    <2> HIDE DEF res
    <2>6. Received(res)
      BY <1>2, <2>1, <2>3, <2>4, <2>5 DEF Received, Return, res
    <2> QED BY <2>2, <2>6
  <1>5. ASSUME StepGetNext PROVE Quiet
    <2>1. UNCHANGED <<tasks, workVars>> /\ At("getNext") /\ ~At("idle")
          /\ ~At("markHook") /\ ~At("fetch")
      BY <1>2, <1>5 DEF StepGetNext, At, CallEnds, vars, repoVars
    <2>2. pc' \in {"compare", "idle"} /\ (prev' = prev \/ prev' = NoError)
      BY <1>5 DEF StepGetNext, GoTo, Return
    <2>3. prev'.s # "taskDone"
      BY <2>1, <2>2, NoErrorType DEF StepInv, StepOK
    <2> QED BY <2>1, <2>2, <2>3, SilentStep
  <1>6. ASSUME Dispatch PROVE Quiet
    <2>1. /\ UNCHANGED <<tasks, workVars, prev>> /\ At("dispatch")
          /\ prev.s = "ok"
          /\ pc' = (IF isRetry THEN "fetch" ELSE "mark")
      BY <1>6 DEF Dispatch, At, GoTo, vars, repoVars, StepInv, StepOK
    <2>2. ClientMoves
      BY <2>1 DEF ClientMoves
    <2> QED BY <2>1, <2>2 DEF Quiet, Fetching, Recording, At
  <1>7. ASSUME DispatchMark PROVE Quiet \/ Marked
    <2>1. CASE GoTo("markHook") /\ MarkAsDispatched(Sched, next.id)
               /\ UNCHANGED <<prev, isRetry, next>>
      BY <1>1, <1>7, <2>1, MarkAsDispatchedMoves
         DEF DispatchMark, Marked, StepInv
    <2>2. CASE UNCHANGED tasks /\ DispatchFailed
      <3>1. /\ UNCHANGED <<tasks, workVars>> /\ At("mark") /\ ~At("idle")
            /\ ~At("markHook") /\ ~At("fetch") /\ pc' = "idle"
            /\ prev'.s = "dispatchErr"
        BY <1>7, <2>2
           DEF DispatchMark, At, DispatchFailed, Return, Returned, GoTo
      <3> QED BY <3>1, SilentStep
    <2> QED BY <1>2, <1>7, <2>1, <2>2 DEF DispatchMark, vars, repoVars
  <1>8. ASSUME DispatchMarkHook PROVE Quiet
    <2>1. UNCHANGED tasks
      <3>1. Hook(Sched)
        BY <1>8 DEF DispatchMarkHook, Hook
      <3> QED BY <1>1, <3>1, HookKeeps DEF StepInv
    <2>2. /\ UNCHANGED workVars /\ At("markHook") /\ pc' = "fetch"
          /\ next' = next /\ prev' = prev /\ prev.s = "ok"
      BY <1>8 DEF DispatchMarkHook, At, GoTo, StepInv, StepOK
    <2>3. ClientMoves
      BY <2>1 DEF ClientMoves
    <2> QED BY <2>2, <2>3 DEF Quiet, Fetching, Recording, At
  <1>9. ASSUME DispatchFetch
        PROVE  Quiet \/ \E w \in Workers : Fetched(w)
    <2>1. CASE CallEnds("GetById") /\ DispatchFailed /\ UNCHANGED worker
      <3>1. /\ UNCHANGED <<tasks, workVars>> /\ At("fetch") /\ ~At("idle")
            /\ ~At("markHook") /\ pc' = "idle" /\ prev'.s = "dispatchErr"
            /\ CtxEnds \/ "GetById" \in FaultSites
        BY <1>2, <1>9, <2>1
           DEF DispatchFetch, At, DispatchFailed, Return, Returned, GoTo,
               workVars
      <3> QED BY <3>1, SilentStep
    <2>2. CASE UNCHANGED vars /\ Return(NoError)
               /\ \E w \in Workers :
                     /\ worker[w] = Free
                     /\ worker' = [worker EXCEPT
                          ![w] = [id |-> next.id, running |-> FALSE]]
      BY <1>9, <2>2 DEF DispatchFetch, Fetched, Return, vars, repoVars
    <2> QED BY <1>9, <2>1, <2>2 DEF DispatchFetch
  <1>10. ASSUME RetryDispatch PROVE Quiet
    <2>1. /\ At("idle") /\ prev.s = "dispatchErr" /\ UNCHANGED workVars
          /\ pc' \in {"idle", "dispatch"} /\ (prev' = NoError \/ prev' = prev)
      BY <1>10 DEF RetryDispatch, GoTo, Return
    <2>2. UNCHANGED tasks
      BY <1>2, <1>10 DEF RetryDispatch, vars, repoVars
    <2>3. prev'.s # "taskDone" /\ ~At("markHook") /\ ~At("fetch")
      BY <2>1, NoErrorType DEF At
    <2> QED BY <2>1, <2>2, <2>3, SilentStep
  <1>11. ASSUME RetryTaskDone PROVE Quiet \/ Recorded
    <2>1. /\ At("idle") /\ prev.s = "taskDone" /\ UNCHANGED workVars
          /\ ~At("markHook") /\ ~At("fetch") /\ prev.id \in Ids
      BY <1>11 DEF RetryTaskDone, At, StepInv, StepOK
    <2>2. CASE MarkAsDone(Sched, prev.id, prev.result) /\ Return(NoError)
      BY <1>1, <2>1, <2>2, MarkAsDoneMoves
         DEF Recorded, Recording, Return, StepInv
    <2>3. CASE UNCHANGED tasks /\ Return(prev)
      <3>1. ClientMoves
        BY <2>3 DEF ClientMoves
      <3> QED BY <2>1, <2>3, <3>1
              DEF Quiet, Fetching, Recording, At, Return, GoTo
    <2>4. CASE MarkAsDoneErr(prev.id) # "" /\ UNCHANGED tasks
               /\ Return(NoError)
      <3>1. tasks[prev.id].state # "dispatched"
        BY <2>1, <2>4, DispatchedIsAccepted
      <3>2. pc' = "idle" /\ prev'.s = "ok"
        BY <2>4, NoErrorType DEF Return, GoTo
      <3> QED BY <2>1, <2>4, <3>1, <3>2, SilentStep
    <2> QED BY <1>2, <1>11, <2>2, <2>3, <2>4
            DEF RetryTaskDone, vars, repoVars
  <1> QED BY <1>3, <1>4, <1>5, <1>6, <1>7, <1>8, <1>9, <1>10, <1>11
          DEF Stepper

LEMMA StepKinds ==
  ASSUME StepInv, [SchedNext]_allVars
  PROVE  \/ Quiet \/ Marked \/ Recorded
         \/ \E res \in Result : Received(res)
         \/ \E w \in Workers : Fetched(w) \/ WorkStart(w) \/ Reported(w)
  <1>1. ASSUME ClientMoves, UNCHANGED <<stepVars, workVars>> PROVE Quiet
    BY <1>1 DEF stepVars, Quiet, Fetching, Recording, At
  <1>2. ASSUME NEW a \in Clients, Client(a), UNCHANGED <<stepVars, workVars>>
        PROVE  Quiet
    BY <1>1, <1>2, ClientKeeps DEF StepInv
  <1>3. ASSUME Tick \/ UNCHANGED vars, UNCHANGED <<stepVars, workVars>>
        PROVE  Quiet
    BY <1>1, <1>3 DEF ClientMoves, Tick, vars, repoVars
  <1> QED BY <1>2, <1>3, StepperKinds
          DEF SchedNext, Work, Reported, allVars

-----------------------------------------------------------------------------
(* Results on their way to the repository are results a worker reported.   *)
OutcomeInv ==
    /\ RecordedOutcome
    /\ prev.s = "taskDone" => prev.result \in outcomes[prev.id]
    /\ \A k \in DOMAIN results :
          results[k].result \in outcomes[results[k].id]

(* A task that is recorded with a reported result. *)
LEMMA RecordOutcome ==
  ASSUME StepInv, OutcomeInv, NEW i, NEW result \in outcomes[i],
         result \in WorkResults \ {"canceled"}, UNCHANGED outcomes,
         Moves(i, "dispatched", IF result = "nil" THEN "done" ELSE "err")
  PROVE  RecordedOutcome'
  <1>1. result \in {"nil", "err"}
    BY DEF WorkResults, Results
  <1> QED BY <1>1 DEF OutcomeInv, RecordedOutcome, Moves

LEMMA NextOutcome ==
  ASSUME StepInv, StepInv', OutcomeInv, [SchedNext]_allVars
  PROVE  OutcomeInv'
  <1>1. CASE Quiet
    <2>1. UNCHANGED <<outcomes, results>>
      BY <1>1 DEF Quiet, workVars
    <2>2. RecordedOutcome'
      BY <1>1, <2>1 DEF Quiet, ClientMoves, OutcomeInv, RecordedOutcome
    <2>3. prev'.s = "taskDone" => prev' = prev
      <3>1. prev'.s = "taskDone" => prev'.id \in Ids
        BY DEF StepInv, StepOK
      <3> QED BY <1>1, <3>1 DEF Quiet, Recording
    <2> QED BY <2>1, <2>2, <2>3 DEF OutcomeInv
  <1>2. CASE Marked
    <2>1. UNCHANGED <<outcomes, results, prev>>
      BY <1>2 DEF Marked, workVars
    <2>2. RecordedOutcome'
      BY <1>2, <2>1 DEF Marked, Moves, OutcomeInv, RecordedOutcome
    <2> QED BY <2>1, <2>2 DEF OutcomeInv
  <1>3. CASE Recorded
    <2>1. UNCHANGED <<outcomes, results>> /\ prev'.s = "ok"
      BY <1>3, NoErrorType DEF Recorded, workVars
    <2>2. prev.result \in outcomes[prev.id]
          /\ prev.result \in WorkResults \ {"canceled"}
      BY <1>3, StepTypes DEF Recorded, Recording, OutcomeInv, StepInv, StepOK
    <2>3. RecordedOutcome'
      BY <1>3, <2>1, <2>2, RecordOutcome DEF Recorded
    <2> QED BY <2>1, <2>3 DEF OutcomeInv
  <1>4. ASSUME NEW res \in Result, Received(res) PROVE OutcomeInv'
    <2>1. UNCHANGED outcomes /\ results # <<>> /\ res = Head(results)
          /\ results' = Tail(results)
      BY <1>4 DEF Received
    <2>2. res.result \in outcomes[res.id] /\ res.result \in WorkResults
      BY <2>1, ReceiveResult DEF OutcomeInv, Result
    <2>3. \A k \in DOMAIN results' :
             results'[k].result \in outcomes'[results'[k].id]
      BY <2>1, ReceiveResult DEF OutcomeInv
    <2>4. RecordedOutcome'
      <3>1. CASE UNCHANGED tasks
        BY <2>1, <3>1 DEF OutcomeInv, RecordedOutcome
      <3>2. CASE ~UNCHANGED tasks
        BY <1>4, <2>1, <2>2, <3>2, RecordOutcome DEF Received
      <3> QED BY <3>1, <3>2
    <2>5. prev'.s = "taskDone" => prev'.result \in outcomes'[prev'.id]
      BY <1>4, <2>1, <2>2, NoErrorType DEF Received, Returned
    <2> QED BY <2>3, <2>4, <2>5 DEF OutcomeInv
  <1>5. ASSUME NEW w \in Workers, Fetched(w) PROVE OutcomeInv'
    BY <1>5, NoErrorType DEF Fetched, OutcomeInv, RecordedOutcome
  <1>6. ASSUME NEW w \in Workers, WorkStart(w) PROVE OutcomeInv'
    BY <1>6
       DEF WorkStart, OutcomeInv, RecordedOutcome, vars, repoVars, stepVars
  <1>7. ASSUME NEW w \in Workers, Reported(w) PROVE OutcomeInv'
    <2>1. PICK result \in WorkResults :
             /\ Report(w, result)
             /\ worker[w].id \in Ids
             /\ [id |-> worker[w].id, result |-> result] \in Result
             /\ UNCHANGED <<vars, stepVars, ran>>
      BY <1>7, ReportedResult DEF Reported
    <2>2. UNCHANGED <<tasks, prev>>
      BY <2>1 DEF vars, repoVars, stepVars
    <2>3. /\ \A i \in Ids : outcomes[i] \subseteq outcomes'[i]
          /\ result \in outcomes'[worker[w].id]
      BY <2>1, StepTypes DEF Report
    <2>4. RecordedOutcome'
      BY <2>2, <2>3 DEF OutcomeInv, RecordedOutcome
    <2>5. prev'.s = "taskDone" => prev'.result \in outcomes'[prev'.id]
      BY <2>2, <2>3 DEF OutcomeInv, StepInv, StepOK
    <2>6. \A k \in DOMAIN results' :
             results'[k].result \in outcomes'[results'[k].id]
      <3> DEFINE e == [id |-> worker[w].id, result |-> result]
      <3>1. \A k \in DOMAIN results : results[k].id \in Ids
        BY ResultTypes
      <3>2. e.id = worker[w].id /\ e.result = result /\ e \in Result
            /\ results' = Append(results, e)
        BY <2>1 DEF Report
      <3> HIDE DEF e
      <3> QED BY <2>3, <3>1, <3>2, SendResult DEF OutcomeInv
    <2> QED BY <2>4, <2>5, <2>6 DEF OutcomeInv
  <1> QED BY <1>1, <1>2, <1>3, <1>4, <1>5, <1>6, <1>7, StepKinds

(* done and err in the repository are what a worker reported of the task:  *)
(* neither a failing MarkAsDone, nor a retry of one, nor the end of a      *)
(* context makes Step record a result that was not reported.               *)
THEOREM OutcomeReported == SchedSpec => []RecordedOutcome
  <1>1. SchedInit => OutcomeInv
    BY NoErrorType
       DEF SchedInit, Init, RepositoryInit, OutcomeInv, RecordedOutcome, NoTask
  <1>2. StepInv /\ StepInv' /\ OutcomeInv /\ [SchedNext]_allVars => OutcomeInv'
    BY NextOutcome
  <1>3. OutcomeInv => RecordedOutcome
    BY DEF OutcomeInv
  <1> QED BY <1>1, <1>2, <1>3, AlwaysStepInv, PTL DEF SchedSpec

-----------------------------------------------------------------------------
(* Hands.  The caller of Step does not answer dispatchErr with Retry:      *)
(* otherwise a task may be in the hands of a worker without being          *)
(* dispatched in the repository.                                           *)
NoDispatchRetry == "dispatchErr" \notin RetryStates

OnlyTimerRetries ==
    isRetry => pc \in {"stopTimer", "startTimer", "checkTimer"}

(* A task that somebody has is dispatched, and one of them has it.         *)
HandsOK ==
    /\ \A i \in Ids :
          Fetching(i) \/ Recording(i) => tasks[i].state = "dispatched"
    /\ RunsOnlyDispatched
    /\ \A k \in DOMAIN results : tasks[results[k].id].state = "dispatched"
    /\ \A w \in Workers : worker[w].id # 0 =>
          /\ ~Fetching(worker[w].id) /\ ~Recording(worker[w].id)
          /\ \A v \in Workers \ {w} : worker[v].id # worker[w].id
          /\ \A k \in DOMAIN results : results[k].id # worker[w].id
    /\ \A k \in DOMAIN results :
          /\ ~Fetching(results[k].id) /\ ~Recording(results[k].id)
          /\ \A m \in DOMAIN results \ {k} : results[m].id # results[k].id

(* A task whose work was started was dispatched, and is not about to be    *)
(* started again.                                                          *)
RanOK ==
    /\ \A i \in Ids : ran[i] > 0 =>
          ran[i] = 1 /\ tasks[i].state \in {"dispatched", "done", "err"}
    /\ \A i \in Ids : Fetching(i) => ran[i] = 0
    /\ \A w \in Workers :
          worker[w].id # 0 /\ ~worker[w].running => ran[worker[w].id] = 0

HandsInv == OnlyTimerRetries /\ HandsOK /\ RanOK

LEMMA NextOnlyTimerRetries ==
  ASSUME NoDispatchRetry, StepInv, OnlyTimerRetries, [SchedNext]_allVars
  PROVE  OnlyTimerRetries'
  <1>1. CASE UNCHANGED stepVars
    BY <1>1 DEF stepVars, OnlyTimerRetries
  <1>2. CASE Stepper
    <2>1. ASSUME \/ Boot \/ Step \/ StepStopTimer \/ StepStartTimer
                 \/ StepCheckTimer \/ RetryTimer
          PROVE  OnlyTimerRetries'
      BY <2>1 DEF Boot, Step, StepStopTimer, StepStartTimer, StepCheckTimer,
                  RetryTimer, OnlyTimerRetries, StepInv, StepOK,
                  At, GoTo, Return, Proceed
    <2>2. ASSUME \/ SelectCtxDone \/ SelectResult \/ SelectTimer
                 \/ StepGetNext \/ StepCompare
                 \/ DispatchCtxDone \/ Dispatch \/ DispatchMark
                 \/ DispatchMarkHook \/ DispatchFetch \/ RetryTaskDone
          PROVE  ~isRetry'
      BY <2>2 DEF SelectCtxDone, SelectResult, SelectTimer, StepGetNext,
                  StepCompare, DispatchCtxDone, Dispatch, DispatchMark,
                  DispatchMarkHook, DispatchFetch, DispatchFailed,
                  RetryTaskDone, OnlyTimerRetries, At, GoTo, Return
    <2>3. ~RetryDispatch
      BY DEF RetryDispatch, NoDispatchRetry
    <2> QED BY <1>2, <2>1, <2>2, <2>3 DEF Stepper, OnlyTimerRetries
  <1> QED BY <1>1, <1>2
          DEF SchedNext, Work, WorkStart, WorkRefused, WorkEnd, allVars

LEMMA WorkerTypes ==
  ASSUME StepInv
  PROVE  \A w \in Workers : worker[w].id # 0 => worker[w].id \in Ids
  BY StepTypes

LEMMA QuietHands ==
  ASSUME StepInv, StepInv', HandsInv, Quiet
  PROVE  HandsOK' /\ RanOK'
  <1>1. ~(isRetry /\ At("dispatch"))
    BY DEF HandsInv, OnlyTimerRetries, At
  <1>2. UNCHANGED <<worker, results, ran>>
    BY DEF Quiet, workVars
  <1>3. \A i \in Ids :
           /\ Fetching(i)' => Fetching(i)
           /\ Recording(i)' => Recording(i)
    BY <1>1 DEF Quiet
  <1>4. \A i \in Ids : tasks[i].state \in {"dispatched", "done", "err"}
           => tasks'[i].state = tasks[i].state
    BY DEF Quiet, ClientMoves
  <1>5. HandsOK'
    BY <1>2, <1>3, <1>4, ResultTypes, WorkerTypes
       DEF HandsInv, HandsOK, RunsOnlyDispatched
  <1>6. RanOK'
    BY <1>2, <1>3, <1>4, WorkerTypes DEF HandsInv, RanOK
  <1> QED BY <1>5, <1>6

(* The task that is marked was scheduled, so nobody had it. *)
LEMMA MarkedHands ==
  ASSUME StepInv, StepInv', HandsInv, Marked
  PROVE  HandsOK' /\ RanOK'
  <1> DEFINE n == next.id
  <1>1. /\ UNCHANGED <<worker, results, ran, next, prev>>
        /\ pc' = "markHook" /\ At("mark") /\ n \in Ids
        /\ tasks[n].state = "scheduled" /\ tasks'[n].state = "dispatched"
        /\ \A j \in Ids \ {n} : tasks'[j] = tasks[j]
    BY DEF Marked, workVars, GoTo, Moves
  <1>2. \A i : ~Fetching(i) /\ (Fetching(i)' <=> i = n)
                /\ ~Recording(i) /\ ~Recording(i)'
    BY <1>1 DEF Fetching, Recording, At, StepInv, StepOK
  <1>3. /\ \A w \in Workers : worker[w].id # n
        /\ \A k \in DOMAIN results : results[k].id # n
        /\ ran[n] = 0
    <2>1. ran[n] \in 0 .. 2
      BY <1>1, StepTypes
    <2>2. ~(ran[n] > 0)
      BY <1>1 DEF HandsInv, RanOK
    <2>3. \A w \in Workers : worker[w].id # n
      BY <1>1, StepTypes DEF HandsInv, HandsOK, RunsOnlyDispatched
    <2>4. \A k \in DOMAIN results : results[k].id # n
      BY <1>1 DEF HandsInv, HandsOK
    <2> QED BY <2>1, <2>2, <2>3, <2>4
  <1> HIDE DEF n
  <1>4. HandsOK'
    BY <1>1, <1>2, <1>3, ResultTypes, WorkerTypes
       DEF HandsInv, HandsOK, RunsOnlyDispatched
  <1>5. RanOK'
    BY <1>1, <1>2, <1>3, WorkerTypes DEF HandsInv, RanOK
  <1> QED BY <1>4, <1>5

(* The worker takes the task over from the fetcher. *)
LEMMA FetchedHands ==
  ASSUME StepInv, StepInv', HandsInv, NEW w \in Workers, Fetched(w)
  PROVE  HandsOK' /\ RanOK'
  <1> DEFINE n == next.id
  <1>1. /\ UNCHANGED <<tasks, results, ran>>
        /\ pc' = "idle" /\ At("fetch") /\ n \in Ids /\ n # 0
        /\ prev'.s = "ok"
    BY NoErrorType, StepTypes
       DEF Fetched, GoTo, StepInv, StepOK, At
  <1>2. /\ worker'[w].id = n /\ ~worker'[w].running
        /\ \A v \in Workers \ {w} : worker'[v] = worker[v]
        /\ worker[w].id = 0
    BY StepTypes DEF Fetched, Free
  <1>3. Fetching(n) /\ \A i : ~Fetching(i)' /\ ~Recording(i)'
    BY <1>1 DEF Fetching, Recording, At
  <1>4. /\ tasks[n].state = "dispatched" /\ ran[n] = 0
        /\ \A v \in Workers : worker[v].id # n
        /\ \A k \in DOMAIN results : results[k].id # n
    BY <1>1, <1>3, StepTypes DEF HandsInv, HandsOK, RanOK
  <1> HIDE DEF n
  <1>5. HandsOK'
    BY <1>1, <1>2, <1>3, <1>4 DEF HandsInv, HandsOK, RunsOnlyDispatched
  <1>6. RanOK'
    BY <1>1, <1>2, <1>3, <1>4 DEF HandsInv, RanOK
  <1> QED BY <1>5, <1>6

LEMMA StartedHands ==
  ASSUME StepInv, StepInv', HandsInv, NEW w \in Workers, WorkStart(w)
  PROVE  HandsOK' /\ RanOK'
  <1> DEFINE n == worker[w].id
  <1>1. /\ UNCHANGED <<tasks, results, pc, next, prev>>
        /\ n \in Ids /\ n # 0 /\ ~worker[w].running
    BY WorkerTypes DEF WorkStart, vars, repoVars, stepVars
  <1>2. /\ \A v \in Workers : worker'[v].id = worker[v].id
        /\ worker'[w].running
        /\ \A v \in Workers \ {w} : worker'[v] = worker[v]
    BY StepTypes DEF WorkStart
  <1>3. \A i : (Fetching(i)' <=> Fetching(i)) /\ (Recording(i)' <=> Recording(i))
    BY <1>1 DEF Fetching, Recording, At
  <1>4. /\ tasks[n].state = "dispatched" /\ ran[n] = 0 /\ ~Fetching(n)
        /\ \A v \in Workers \ {w} : worker[v].id # n
    BY <1>1 DEF HandsInv, HandsOK, RanOK, RunsOnlyDispatched
  <1>5. ran'[n] = 1 /\ \A i \in Ids \ {n} : ran'[i] = ran[i]
    BY <1>1, <1>4, StepTypes DEF WorkStart, Bound
  <1> HIDE DEF n
  <1>6. HandsOK'
    BY <1>1, <1>2, <1>3 DEF HandsInv, HandsOK, RunsOnlyDispatched
  <1>7. RanOK'
    BY <1>1, <1>2, <1>3, <1>4, <1>5, WorkerTypes DEF HandsInv, RanOK
  <1> QED BY <1>6, <1>7

(* The result takes the task over from the worker. *)
LEMMA ReportedHands ==
  ASSUME StepInv, StepInv', HandsInv, NEW w \in Workers, Reported(w)
  PROVE  HandsOK' /\ RanOK'
  <1> DEFINE n == worker[w].id
  <1>1. PICK result \in WorkResults :
           /\ Report(w, result) /\ n \in Ids
           /\ [id |-> n, result |-> result] \in Result
           /\ UNCHANGED <<vars, stepVars, ran>>
    BY ReportedResult DEF Reported
  <1> DEFINE e == [id |-> n, result |-> result]
             last == Len(results) + 1
  <1>2. UNCHANGED <<tasks, pc, next, prev, ran>> /\ n # 0
    BY <1>1, StepTypes DEF vars, repoVars, stepVars
  <1>3. /\ worker'[w].id = 0
        /\ \A v \in Workers \ {w} : worker'[v] = worker[v]
    BY <1>1, StepTypes DEF Report, Free
  <1>4. /\ DOMAIN results' = DOMAIN results \cup {last}
        /\ last \notin DOMAIN results /\ results'[last].id = n
        /\ \A k \in DOMAIN results : results'[k] = results[k]
    BY <1>1, SendResult DEF Report
  <1>5. \A i : (Fetching(i)' <=> Fetching(i)) /\ (Recording(i)' <=> Recording(i))
    BY <1>2 DEF Fetching, Recording, At
  <1>6. /\ tasks[n].state = "dispatched" /\ ~Fetching(n) /\ ~Recording(n)
        /\ \A v \in Workers \ {w} : worker[v].id # n
        /\ \A k \in DOMAIN results : results[k].id # n
    BY <1>2 DEF HandsInv, HandsOK, RunsOnlyDispatched
  <1> HIDE DEF n, last
  <1>7. HandsOK'
    BY <1>2, <1>3, <1>4, <1>5, <1>6
       DEF HandsInv, HandsOK, RunsOnlyDispatched
  <1>8. RanOK'
    BY <1>2, <1>3, <1>5 DEF HandsInv, RanOK
  <1> QED BY <1>7, <1>8

(* One task is recorded while nobody but Step or its caller has it. *)
LEMMA RecordedHands ==
  ASSUME StepInv, StepInv', HandsInv, Recorded
  PROVE  HandsOK' /\ RanOK'
  <1> DEFINE n == prev.id
  <1>1. /\ UNCHANGED <<worker, results, ran>> /\ n \in Ids
        /\ pc' = "idle" /\ At("idle") /\ prev'.s = "ok" /\ Recording(n)
        /\ tasks'[n].state \in {"done", "err"}
        /\ \A j \in Ids \ {n} : tasks'[j] = tasks[j]
    BY NoErrorType DEF Recorded, GoTo, workVars, Moves
  <1>2. \A i : ~Fetching(i)' /\ ~Recording(i)'
    BY <1>1 DEF Fetching, Recording, At
  <1>3. /\ \A w \in Workers : worker[w].id # n
        /\ \A k \in DOMAIN results : results[k].id # n
    BY <1>1, StepTypes DEF HandsInv, HandsOK
  <1> HIDE DEF n
  <1>4. HandsOK'
    BY <1>1, <1>2, <1>3, ResultTypes, WorkerTypes
       DEF HandsInv, HandsOK, RunsOnlyDispatched
  <1>5. RanOK'
    BY <1>1, <1>2 DEF HandsInv, RanOK
  <1> QED BY <1>4, <1>5

LEMMA ReceivedHands ==
  ASSUME StepInv, StepInv', HandsInv, NEW res \in Result, Received(res)
  PROVE  HandsOK' /\ RanOK'
  <1> DEFINE n == res.id
  <1>1. /\ UNCHANGED <<worker, ran>> /\ n \in Ids
        /\ pc' = "idle" /\ results # <<>> /\ results' = Tail(results)
        /\ res = results[1] /\ 1 \in DOMAIN results
    BY ReceiveResult DEF Received, GoTo, Result
  <1>2. /\ \A w \in Workers : worker[w].id # n
        /\ \A k \in DOMAIN results \ {1} : results[k].id # n
    BY <1>1, StepTypes DEF HandsInv, HandsOK
  <1>3. /\ tasks[n].state = "dispatched"
        /\ \/ tasks' = tasks
           \/ /\ tasks'[n].state \in {"done", "err"}
              /\ prev'.s = "ok"
              /\ \A j \in Ids \ {n} : tasks'[j] = tasks[j]
    BY <1>1, NoErrorType DEF Received, Moves, HandsInv, HandsOK
  <1>4. \A i : ~Fetching(i)' /\ (Recording(i)' => i = n)
    BY <1>1, NoErrorType DEF Received, Returned, Fetching, Recording, At
  <1>5. \A k \in DOMAIN results' :
           /\ k + 1 \in DOMAIN results \ {1}
           /\ results'[k] = results[k + 1]
    BY <1>1, ReceiveResult
  <1>6. \A k, m \in DOMAIN results' : k # m => k + 1 # m + 1
    BY <1>1, ReceiveResult
  <1> HIDE DEF n
  <1>7. HandsOK'
    <2>1. \A i \in Ids :
             Fetching(i)' \/ Recording(i)' => tasks'[i].state = "dispatched"
      BY <1>3, <1>4 DEF Recording
    <2>2. \A k \in DOMAIN results' :
             /\ tasks'[results'[k].id].state = "dispatched"
             /\ ~Fetching(results[k].id)' /\ ~Recording(results[k].id)'
      <3> TAKE k \in DOMAIN results'
      <3>1. results'[k].id \in Ids \ {n}
        BY <1>2, <1>5, ResultTypes
      <3>2. tasks[results'[k].id].state = "dispatched"
        BY <1>5 DEF HandsInv, HandsOK
      <3>3. tasks'[results'[k].id] = tasks[results'[k].id]
        BY <1>3, <3>1
      <3> QED BY <1>4, <3>1, <3>2, <3>3
    <2>3. \A k \in DOMAIN results' : \A m \in DOMAIN results' \ {k} :
             results'[m].id # results'[k].id
      BY <1>5, <1>6 DEF HandsInv, HandsOK
    <2>4. \A w \in Workers : worker'[w].id # 0 =>
             /\ tasks'[worker'[w].id].state = "dispatched"
             /\ ~Fetching(worker[w].id)' /\ ~Recording(worker[w].id)'
      BY <1>1, <1>2, <1>3, <1>4, WorkerTypes
         DEF HandsInv, HandsOK, RunsOnlyDispatched
    <2>5. \A w \in Workers : worker'[w].id # 0 =>
             /\ \A v \in Workers \ {w} : worker'[v].id # worker'[w].id
             /\ \A k \in DOMAIN results' : results'[k].id # worker'[w].id
      BY <1>1, <1>5 DEF HandsInv, HandsOK
    <2> QED BY <2>1, <2>2, <2>3, <2>4, <2>5 DEF HandsOK, RunsOnlyDispatched
  <1>8. RanOK'
    BY <1>1, <1>3, <1>4 DEF HandsInv, RanOK
  <1> QED BY <1>7, <1>8

LEMMA NextHands ==
  ASSUME NoDispatchRetry, StepInv, StepInv', HandsInv, [SchedNext]_allVars
  PROVE  HandsInv'
  BY NextOnlyTimerRetries, StepKinds, QuietHands, MarkedHands, RecordedHands,
     ReceivedHands, FetchedHands, StartedHands, ReportedHands DEF HandsInv

LEMMA InitHands == SchedInit => HandsInv
  <1> SUFFICES ASSUME SchedInit PROVE HandsInv
    OBVIOUS
  <1>1. /\ ~isRetry /\ pc = "boot" /\ prev.s = "ok"
        /\ results = <<>> /\ DOMAIN results = {}
        /\ \A w \in Workers : worker[w].id = 0
        /\ \A i \in Ids : ran[i] = 0
    BY NoErrorType DEF SchedInit, Free
  <1>2. \A i : ~Fetching(i) /\ ~Recording(i)
    BY <1>1 DEF Fetching, Recording, At
  <1> QED BY <1>1, <1>2
          DEF HandsInv, OnlyTimerRetries, HandsOK, RanOK, RunsOnlyDispatched

LEMMA AlwaysHands == ASSUME NoDispatchRetry PROVE SchedSpec => []HandsInv
  <1>1. StepInv /\ StepInv' /\ HandsInv /\ [SchedNext]_allVars => HandsInv'
    BY NextHands
  <1> QED BY <1>1, InitHands, AlwaysStepInv, PTL DEF SchedSpec

(* A work function runs at most once per task, for every number of         *)
(* clients, workers, failures and contexts that end, if the caller of Step *)
(* does not retry a failed dispatch.                                       *)
THEOREM WorkRunsAtMostOnce ==
  ASSUME NoDispatchRetry
  PROVE  SchedSpec => []AtMostOnce
  <1>1. StepInv /\ HandsInv => AtMostOnce
    BY StepTypes DEF HandsInv, RanOK, AtMostOnce
  <1> QED BY <1>1, AlwaysStepInv, AlwaysHands, PTL

(* A worker never has a task that was cancelled, or recorded already.      *)
THEOREM WorkersRunDispatched ==
  ASSUME NoDispatchRetry
  PROVE  SchedSpec => []RunsOnlyDispatched
  <1>1. HandsInv => RunsOnlyDispatched
    BY DEF HandsInv, HandsOK
  <1> QED BY <1>1, AlwaysHands, PTL

-----------------------------------------------------------------------------
(* What is dispatched is recorded.  A task is dropped by a context that    *)
(* ends, by a fetcher whose GetById fails after MarkAsDispatched, and by a *)
(* caller that does not retry MarkAsDone.                                  *)
NothingDrops ==
    /\ NoDispatchRetry
    /\ "taskDone" \in RetryStates
    /\ ~CtxEnds
    /\ "GetById" \notin FaultSites

InHands(i) ==
    \/ Fetching(i) \/ Recording(i)
    \/ \E w \in Workers : worker[w].id = i
    \/ \E k \in DOMAIN results : results[k].id = i

Covered ==
    /\ \A i \in Ids : tasks[i].state = "dispatched" => InHands(i)
    /\ \A k \in DOMAIN results : results[k].result # "canceled"

LEMMA NextCovered ==
  ASSUME NothingDrops, StepInv, StepInv', HandsInv, Covered,
         [SchedNext]_allVars
  PROVE  Covered'
  <1>1. CASE Quiet
    <2>1. UNCHANGED <<worker, results>>
      BY <1>1 DEF Quiet, workVars
    <2>2. \A i \in Ids :
             tasks'[i].state = "dispatched" => tasks[i].state = "dispatched"
      BY <1>1 DEF Quiet, ClientMoves
    <2>3. \A i \in Ids :
             /\ Fetching(i) => Fetching(i)'
             /\ Recording(i) /\ tasks[i].state = "dispatched"
                   => Recording(i)'
      BY <1>1 DEF Quiet, NothingDrops
    <2> QED BY <2>1, <2>2, <2>3 DEF Covered, InHands
  <1>2. CASE Marked
    <2>1. /\ UNCHANGED <<worker, results>>
          /\ \A j \in Ids : j = next.id => Fetching(j)'
          /\ \A j \in Ids \ {next.id} : tasks'[j] = tasks[j]
      BY <1>2 DEF Marked, workVars, Fetching, At, GoTo, Moves
    <2>2. \A i : ~Fetching(i) /\ ~Recording(i)
      BY <1>2 DEF Marked, Fetching, Recording, At, StepInv, StepOK
    <2> QED BY <2>1, <2>2 DEF Covered, InHands
  <1>3. CASE Recorded
    <2>1. /\ UNCHANGED <<worker, results>>
          /\ tasks'[prev.id].state # "dispatched"
          /\ \A j \in Ids \ {prev.id} : tasks'[j] = tasks[j]
      BY <1>3 DEF Recorded, workVars, Moves
    <2>2. \A i \in Ids \ {prev.id} : ~Fetching(i) /\ ~Recording(i)
      BY <1>3 DEF Recorded, Fetching, Recording, At
    <2> QED BY <2>1, <2>2 DEF Covered, InHands
  <1>4. ASSUME NEW res \in Result, Received(res) PROVE Covered'
    <2> DEFINE n == res.id
    <2>1. /\ UNCHANGED worker /\ res = results[1]
          /\ results # <<>> /\ results' = Tail(results)
      BY <1>4, ReceiveResult DEF Received
    <2>2. res.result # "canceled"
      BY <2>1, ReceiveResult DEF Covered
    <2>3. /\ \A j \in Ids \ {n} : tasks'[j] = tasks[j]
          /\ tasks'[n].state = "dispatched" => Recording(n)'
      BY <1>4, <2>2 DEF Received, Moves, Recording, Returned
    <2>4. \A i : ~Fetching(i) /\ ~Recording(i)
      BY <1>4 DEF Received, Fetching, Recording, At, StepInv, StepOK
    <2>5. \A k \in DOMAIN results : results[k].id # n =>
             /\ k - 1 \in DOMAIN results'
             /\ results'[k - 1] = results[k]
      BY <2>1, ReceiveResult
    <2>6. \A k \in DOMAIN results' : results'[k].result # "canceled"
      BY <2>1, ReceiveResult DEF Covered
    <2> HIDE DEF n
    <2>7. \A i \in Ids : tasks'[i].state = "dispatched" => InHands(i)'
      <3> TAKE i \in Ids
      <3> HAVE tasks'[i].state = "dispatched"
      <3>1. CASE i = n
        BY <2>3, <3>1 DEF InHands
      <3>2. CASE i # n
        <4>1. InHands(i)
          BY <2>3, <3>2 DEF Covered
        <4>2. CASE \E w \in Workers : worker[w].id = i
          BY <2>1, <4>2 DEF InHands
        <4>3. CASE \E k \in DOMAIN results : results[k].id = i
          BY <2>5, <3>2, <4>3 DEF InHands
        <4> QED BY <2>4, <4>1, <4>2, <4>3 DEF InHands
      <3> QED BY <3>1, <3>2
    <2> QED BY <2>6, <2>7 DEF Covered
  <1>5. ASSUME NEW w \in Workers, Fetched(w) PROVE Covered'
    <2>1. /\ UNCHANGED <<tasks, results>>
          /\ worker'[w].id = next.id /\ worker[w].id = 0
          /\ \A v \in Workers \ {w} : worker'[v] = worker[v]
      BY <1>5, StepTypes DEF Fetched, Free
    <2>2. \A i : (Fetching(i) => i = next.id) /\ ~Recording(i)
      BY <1>5 DEF Fetched, Fetching, Recording, At, StepInv, StepOK
    <2>3. ASSUME NEW i \in Ids, InHands(i)
          PROVE  InHands(i)'
      <3>1. CASE Fetching(i)
        BY <2>1, <2>2, <3>1 DEF InHands
      <3>2. CASE \E v \in Workers : worker[v].id = i
        <4>1. PICK v \in Workers : worker[v].id = i
          BY <3>2
        <4>2. v # w
          BY <2>1, <4>1, TasksAssumption DEF Ids
        <4> QED BY <2>1, <4>1, <4>2 DEF InHands
      <3>3. CASE \E k \in DOMAIN results : results[k].id = i
        BY <2>1, <3>3 DEF InHands
      <3> QED BY <2>2, <2>3, <3>1, <3>2, <3>3 DEF InHands
    <2> QED BY <2>1, <2>3 DEF Covered
  <1>6. ASSUME NEW w \in Workers, WorkStart(w) PROVE Covered'
    <2>1. UNCHANGED <<tasks, results, pc, next, prev>>
      BY <1>6 DEF WorkStart, vars, repoVars, stepVars
    <2>2. \A v \in Workers : worker'[v].id = worker[v].id
      BY <1>6, StepTypes DEF WorkStart
    <2> QED BY <2>1, <2>2 DEF Covered, InHands, Fetching, Recording, At
  <1>7. ASSUME NEW w \in Workers, Reported(w) PROVE Covered'
    <2> DEFINE n == worker[w].id
               last == Len(results) + 1
    <2>1. PICK result \in WorkResults :
             /\ Report(w, result) /\ n \in Ids
             /\ [id |-> n, result |-> result] \in Result
             /\ UNCHANGED <<vars, stepVars, ran>>
             /\ result # "canceled"
      BY <1>7, StepTypes
         DEF Reported, WorkRefused, WorkEnd, NothingDrops, WorkResults,
             Results, Result, StepInv, StepOK
    <2>2. UNCHANGED <<tasks, pc, next, prev>>
      BY <2>1 DEF vars, repoVars, stepVars
    <2>3. \A v \in Workers \ {w} : worker'[v] = worker[v]
      BY <2>1, StepTypes DEF Report
    <2>4. /\ DOMAIN results' = DOMAIN results \cup {last}
          /\ results'[last].id = n /\ results'[last].result # "canceled"
          /\ \A k \in DOMAIN results : results'[k] = results[k]
      BY <2>1, SendResult DEF Report
    <2> HIDE DEF n, last
    <2> QED BY <2>2, <2>3, <2>4
            DEF Covered, InHands, Fetching, Recording, At, n
  <1> QED BY <1>1, <1>2, <1>3, <1>4, <1>5, <1>6, <1>7, StepKinds

LEMMA AlwaysCovered == ASSUME NothingDrops PROVE SchedSpec => []Covered
  <1>1. SchedInit => Covered
    BY DEF SchedInit, Init, RepositoryInit, NoTask, Covered
  <1>2. /\ StepInv /\ StepInv' /\ HandsInv /\ Covered /\ [SchedNext]_allVars
        => Covered'
    BY NextCovered
  <1>3. SchedSpec => []HandsInv
    BY AlwaysHands DEF NothingDrops
  <1> QED BY <1>1, <1>2, <1>3, AlwaysStepInv, PTL DEF SchedSpec

(* The number of hands a task is in, when it is in at most one. *)
LEMMA CountOfOne ==
  ASSUME NEW S, NEW x, S \subseteq {x}
  PROVE  Cardinality(S) = IF x \in S THEN 1 ELSE 0
  <1>1. S = {} \/ S = {x}
    OBVIOUS
  <1> QED BY <1>1, FS_EmptySet, FS_Singleton

LEMMA HandlingCount ==
  ASSUME StepInv, HandsInv, NEW i \in Ids
  PROVE  Handling(i) = IF InHands(i) THEN 1 ELSE 0
  <1> DEFINE W == {w \in Workers : worker[w].id = i}
             R == {k \in DOMAIN results : results[k].id = i}
             f == IF (At("markHook") \/ At("fetch")) /\ next.id = i
                  THEN 1 ELSE 0
             r == IF prev.s = "taskDone" /\ prev.id = i THEN 1 ELSE 0
  <1>1. i # 0
    BY StepTypes
  <1>2. Cardinality(W) = IF W = {} THEN 0 ELSE 1
    <2>1. CASE W = {}
      BY <2>1, FS_EmptySet
    <2>2. ASSUME NEW w \in W PROVE Cardinality(W) = 1
      <3>1. W \subseteq {w}
        BY <1>1, <2>2 DEF HandsInv, HandsOK
      <3> HIDE DEF W
      <3> QED BY <2>2, <3>1, CountOfOne
    <2> QED BY <2>1, <2>2
  <1>3. Cardinality(R) = IF R = {} THEN 0 ELSE 1
    <2>1. CASE R = {}
      BY <2>1, FS_EmptySet
    <2>2. ASSUME NEW k \in R PROVE Cardinality(R) = 1
      <3>1. R \subseteq {k}
        BY <2>2 DEF HandsInv, HandsOK
      <3> HIDE DEF R
      <3> QED BY <2>2, <3>1, CountOfOne
    <2> QED BY <2>1, <2>2
  <1>4. /\ W # {} => R = {} /\ f = 0 /\ r = 0
        /\ R # {} => f = 0 /\ r = 0
    BY <1>1 DEF HandsInv, HandsOK, Fetching, Recording
  <1>5. f = 1 => r = 0
    BY DEF StepInv, StepOK, At
  <1>6. InHands(i) <=> W # {} \/ R # {} \/ f = 1 \/ r = 1
    BY DEF InHands, Fetching, Recording
  <1>7. f \in {0, 1} /\ r \in {0, 1}
    OBVIOUS
  <1>8. Handling(i) = f + Cardinality(W) + Cardinality(R) + r
    BY DEF Handling
  <1> HIDE DEF W, R, f, r
  <1> QED BY <1>2, <1>3, <1>4, <1>5, <1>6, <1>7, <1>8

(* A dispatched task is in exactly one pair of hands, and no other task is *)
(* in anybody's: no dispatch is lost between the fetcher, the workers, the *)
(* queue of results and the caller that retries, and none is duplicated.   *)
THEOREM NoDispatchLost ==
  ASSUME NothingDrops
  PROVE  SchedSpec => []NeverLost
  <1>1. StepInv /\ HandsInv /\ Covered => NeverLost
    <2> SUFFICES ASSUME StepInv, HandsInv, Covered, NEW i \in Ids
                 PROVE  Handling(i)
                          = IF tasks[i].state = "dispatched" THEN 1 ELSE 0
      BY DEF NeverLost
    <2>1. InHands(i) <=> tasks[i].state = "dispatched"
      BY StepTypes
         DEF Covered, InHands, HandsInv, HandsOK, RunsOnlyDispatched
    <2> QED BY <2>1, HandlingCount
  <1>2. SchedSpec => []HandsInv
    BY AlwaysHands DEF NothingDrops
  <1> QED BY <1>1, <1>2, AlwaysStepInv, AlwaysCovered, PTL

(* When nobody has a task whose work was started any more, the repository  *)
(* has its completion.                                                     *)
THEOREM WorkIsRecorded ==
  ASSUME NothingDrops
  PROVE  SchedSpec => []CompletionRecorded
  <1>1. StepInv /\ HandsInv /\ Covered => CompletionRecorded
    <2> SUFFICES ASSUME StepInv, HandsInv, Covered, NEW i \in Ids,
                        ran[i] > 0, Handling(i) = 0
                 PROVE  tasks[i].state \in {"done", "err"}
      BY DEF CompletionRecorded
    <2>1. ~InHands(i)
      BY HandlingCount
    <2> QED BY <2>1 DEF Covered, HandsInv, RanOK
  <1>2. SchedSpec => []HandsInv
    BY AlwaysHands DEF NothingDrops
  <1> QED BY <1>1, <1>2, AlwaysStepInv, AlwaysCovered, PTL

-----------------------------------------------------------------------------
(* What a hook or StartTimer may do to the timer: arm it for a first task, *)
(* disarm it, or leave it.                                                 *)
Armed ==
    \E i \in Firsts :
        /\ cachedMin' = tasks[i] /\ timerReset' = TRUE
        /\ timer' = tasks[i].sched

Disarmed == cachedMin' = NoTask /\ timerReset' = FALSE /\ timer' = None

LeftAlone == UNCHANGED <<cachedMin, timerReset, timer>>

(* A pending hook that will update the running timer. *)
Rearms(a) ==
    \/ Owes(a, "AddTask") /\ Less(ToTask(pend[a].param, 0, FarFuture), cachedMin)
    \/ Owes(a, "Cancel") /\ pend[a].id = cachedMin.id
    \/ Owes(a, "MarkAsDispatched") /\ pend[a].id = cachedMin.id

LEMMA UpdateTimer ==
  ASSUME NEW started, NEW site, update(started, site)
  PROVE  Armed \/ Disarmed \/ (~started /\ LeftAlone)
  BY DEF update, ArmForNext, DisarmExhausted, DisarmOnError, Armed, Disarmed,
         LeftAlone

(* The condition of a hook may be any expression. *)
LEMMA UpdateIfTimer ==
  ASSUME NEW cond \in BOOLEAN, NEW site, updateIf(cond, site)
  PROVE  /\ Armed \/ Disarmed \/ LeftAlone
         /\ cond /\ isTimerStarted => Armed \/ Disarmed
  BY UpdateTimer
     DEF updateIf, NoUpdate, timerVars, LeftAlone

LEMMA HookTimer ==
  ASSUME StepInv, NEW a \in Actors, Hook(a)
  PROVE  /\ UNCHANGED <<tasks, count, now>>
         /\ Armed \/ Disarmed \/ LeftAlone
         /\ timerReset /\ Rearms(a) => Armed \/ Disarmed
  <1>1. UNCHANGED <<tasks, count, now>>
    BY DEF Hook, AddTaskHook, UpdateByIdHook, CancelHook,
           MarkAsDispatchedHook, HookOf, repoVars
  <1>2. timerReset => isTimerStarted
    BY DEF StepInv, RepoInv, IInv, TimerAgrees
  <1>3. CASE AddTaskHook(a)
    <2> DEFINE before == Less(ToTask(pend[a].param, 0, FarFuture), cachedMin)
               cond == NoCachedMin \/ before
    <2>1. updateIf(cond, "AddTask") /\ Owes(a, "AddTask")
      BY <1>3 DEF AddTaskHook, HookAddTask, HookOf
    <2>2. Rearms(a) => cond
      BY <2>1 DEF Rearms, Owes
    <2>3. cond \in BOOLEAN
      OBVIOUS
    <2> HIDE DEF cond
    <2> QED BY <1>1, <1>2, <2>1, <2>2, <2>3, UpdateIfTimer
  <1>4. CASE UpdateByIdHook(a)
    <2>1. Owes(a, "UpdateById") /\ HookUpdateById(pend[a].id, pend[a].param, "UpdateById")
      BY <1>4 DEF UpdateByIdHook, HookOf
    <2>2. PICK cond \in BOOLEAN : updateIf(cond, "UpdateById")
      BY <2>1 DEF HookUpdateById, updateIf
    <2>3. ~Rearms(a)
      BY <2>1 DEF Rearms, Owes
    <2> QED BY <1>1, <2>2, <2>3, UpdateIfTimer
  <1>5. CASE CancelHook(a)
    <2> DEFINE cond == NoCachedMin \/ cachedMin.id = pend[a].id
    <2>1. updateIf(cond, "Cancel") /\ Owes(a, "Cancel")
      BY <1>5 DEF CancelHook, HookCancel, HookOf
    <2>2. Rearms(a) => cond
      BY <2>1 DEF Rearms, Owes
    <2>3. cond \in BOOLEAN
      OBVIOUS
    <2> HIDE DEF cond
    <2> QED BY <1>1, <1>2, <2>1, <2>2, <2>3, UpdateIfTimer
  <1>6. CASE MarkAsDispatchedHook(a)
    <2> DEFINE cond == cachedMin.id = pend[a].id
    <2>1. updateIf(cond, "MarkAsDispatched") /\ Owes(a, "MarkAsDispatched")
      BY <1>6 DEF MarkAsDispatchedHook, HookMarkAsDispatched, HookOf
    <2>2. Rearms(a) => cond
      BY <2>1 DEF Rearms, Owes
    <2>3. cond \in BOOLEAN
      OBVIOUS
    <2> HIDE DEF cond
    <2> QED BY <1>1, <1>2, <2>1, <2>2, <2>3, UpdateIfTimer
  <1> QED BY <1>3, <1>4, <1>5, <1>6 DEF Hook

LEMMA StartTimerTimer ==
  ASSUME NEW a, StartTimer(a)
  PROVE  UNCHANGED <<tasks, count, now, pend>> /\ (Armed \/ Disarmed)
  BY UpdateTimer DEF StartTimer, TimerStart, repoVars

LEMMA StopTimerTimer ==
  ASSUME NEW a, StopTimer(a)
  PROVE  UNCHANGED <<tasks, count, now, pend>> /\ Disarmed
  BY DEF StopTimer, TimerStop, repoVars, Disarmed

-----------------------------------------------------------------------------
(* Clients that only add tasks.  One that cancels or updates a task may    *)
(* make the task that Step fetches next another than the one the timer     *)
(* fired for.                                                              *)
OnlyAdds == {"Cancel", "UpdateById"} \cap ClientOps = {}

Due(i) == i \in Stored /\ tasks[i].sched <= now

CachedIsScheduled ==
    timer # None =>
        \/ /\ cachedMin.id \in Scheduled
           /\ tasks[cachedMin.id].sched = cachedMin.sched
        \/ Owes(Sched, "MarkAsDispatched") /\ pend[Sched].id = cachedMin.id

(* The tasks on their way from the timer to the end of their work.         *)
OnItsWay(i) ==
    \/ /\ pc \in {"compare", "dispatch", "mark", "markHook", "fetch"}
       /\ next.id = i
    \/ lastTask # 0 /\ lastTask = i
    \/ prev.s = "dispatchErr" /\ prev.id = i
    \/ \E w \in Workers : worker[w].id # 0 /\ worker[w].id = i

DueOnItsWay ==
    /\ At("getNext") => \E j \in Scheduled : Due(j)
    /\ \A i \in Ids : OnItsWay(i) => Due(i)

DueInv == CachedIsScheduled /\ DueOnItsWay

(* Scheduled times stay; only Step takes a task out of the scheduled ones. *)
TasksStay ==
    /\ \A i \in Stored : i \in Stored' /\ tasks'[i].sched = tasks[i].sched
    /\ now \in Int /\ now' \in Int /\ now <= now'

LEMMA ClientAdds ==
  ASSUME OnlyAdds, StepInv, NEW a \in Clients, Client(a)
  PROVE  TasksStay /\ Scheduled \subseteq Scheduled'
         /\ \A i \in Scheduled : tasks'[i].sched = tasks[i].sched
  <1>1. now \in Int /\ \A i \in Scheduled : i \in Stored
    BY DEF StepInv, RepoInv, IInv, TypeOK, Scheduled, Stored
  <1>2. a \in Actors
    BY DEF Clients
  <1>3. CASE AddTaskInsert(a)
    <2> DEFINE i == pend[a].id
    <2>1. /\ tasks' = [tasks EXCEPT ![i] = ToTask(pend[a].param, i, i)]
          /\ UNCHANGED now /\ i \in Ids \ Stored
      BY <1>2, <1>3, RepoTypes
         DEF AddTaskInsert, Insert, StepInv, RepoInv, FreshOK, IInv, PendOK,
             Owes
    <2> HIDE DEF i
    <2>2. \A j \in Ids \ {i} : tasks'[j] = tasks[j]
      BY <2>1, RepoTypes DEF StepInv
    <2>3. \A j \in Stored : j \in Ids \ {i}
      BY <2>1 DEF Stored
    <2> QED BY <1>1, <2>1, <2>2, <2>3 DEF TasksStay, Stored, Scheduled
  <1>4. CASE ~AddTaskInsert(a)
    <2>1. UNCHANGED <<tasks, now>>
      BY <1>2, <1>4, HookTimer
         DEF Client, ClientBegins, ClientEnds, Hook, OnlyAdds, AddTask, Stamp,
             StartTimer, StopTimer, repoVars
    <2> QED BY <1>1, <2>1 DEF TasksStay, Stored, Scheduled
  <1> QED BY <1>3, <1>4

(* What Step's calls do to the tasks: one may be marked or recorded. *)
LEMMA StepperTasks ==
  ASSUME StepInv, Stepper
  PROVE  /\ UNCHANGED now
         /\ \/ UNCHANGED tasks
            \/ \E i : MarkAsDispatched(Sched, i) /\ At("mark") /\ i = next.id
            \/ \E i, result : MarkAsDone(Sched, i, result)
                              /\ (At("select") \/ At("idle"))
  <1>1. ASSUME NEW site, CallEnds(site) PROVE UNCHANGED <<tasks, now>>
    BY <1>1 DEF CallEnds, CallFails, repoVars, vars
  <1>2. ASSUME \/ Boot \/ Step \/ StepStopTimer \/ StepStartTimer
               \/ StepCheckTimer \/ SelectCtxDone \/ SelectTimer
               \/ StepGetNext \/ StepCompare
               \/ DispatchCtxDone \/ Dispatch \/ DispatchMarkHook
               \/ DispatchFetch \/ RetryTimer \/ RetryDispatch
        PROVE  UNCHANGED <<tasks, now>>
    BY <1>1, <1>2
       DEF Boot, Step, StepStopTimer, StepStartTimer, StepCheckTimer,
           SelectCtxDone, SelectTimer, StepGetNext, StepCompare,
           DispatchCtxDone, Dispatch, DispatchMarkHook, DispatchFetch,
           RetryTimer, RetryDispatch, StartTimer, StopTimer, Receive,
           MarkAsDispatchedHook, HookOf, CallEnds, vars, repoVars
  <1>3. ASSUME SelectResult \/ DispatchMark \/ RetryTaskDone
        PROVE  UNCHANGED now
    BY <1>1, <1>3 DEF SelectResult, DispatchMark, RetryTaskDone,
       MarkAsDispatched, MarkAsDone, vars
  <1>4. ASSUME SelectResult
        PROVE  \/ UNCHANGED tasks
               \/ \E i, result : MarkAsDone(Sched, i, result) /\ At("select")
    BY <1>1, <1>4 DEF SelectResult, vars, repoVars
  <1>5. ASSUME RetryTaskDone
        PROVE  \/ UNCHANGED tasks
               \/ \E i, result : MarkAsDone(Sched, i, result) /\ At("idle")
    BY <1>1, <1>5 DEF RetryTaskDone, vars, repoVars
  <1>6. ASSUME DispatchMark
        PROVE  \/ UNCHANGED tasks
               \/ MarkAsDispatched(Sched, next.id) /\ At("mark")
    BY <1>1, <1>6 DEF DispatchMark, vars, repoVars
  <1> QED BY <1>2, <1>3, <1>4, <1>5, <1>6 DEF Stepper

(* A mutation that succeeds leaves the scheduled time of every task. *)
LEMMA MarkedSched ==
  ASSUME StepInv, NEW i, MarkAsDispatched(Sched, i) 
  PROVE  /\ i \in Scheduled /\ tasks'[i].sched = tasks[i].sched
         /\ i \in Stored' /\ \A j \in Ids \ {i} : tasks'[j] = tasks[j]
  <1>1. CoreMarkAsDispatched(i)
    BY DEF MarkAsDispatched
  <1>2. i \in Ids /\ i \in Scheduled
    BY <1>1, MutateNil DEF CoreMarkAsDispatched, StepInv
  <1>3. tasks' = [tasks EXCEPT ![i].state = "dispatched",
                               ![i].dispatchedAt = TRUE]
    BY <1>1, <1>2 DEF CoreMarkAsDispatched
  <1> QED BY <1>2, <1>3, RepoTypes DEF StepInv, Task, Stored

LEMMA DoneSched ==
  ASSUME StepInv, NEW i, NEW result, MarkAsDone(Sched, i, result)
  PROVE  /\ i \in Ids \ Scheduled /\ tasks'[i].sched = tasks[i].sched
         /\ i \in Stored' \ Scheduled'
         /\ \A j \in Ids \ {i} : tasks'[j] = tasks[j]
  <1>1. CoreMarkAsDone(i, result)
    BY DEF MarkAsDone
  <1>2. i \in Ids /\ tasks[i].state = "dispatched"
    BY <1>1, MarkAsDoneNil DEF CoreMarkAsDone, StepInv
  <1>3. tasks' = [tasks EXCEPT
           ![i].state = IF result = "nil" THEN "done" ELSE "err",
           ![i].doneAt = TRUE]
    BY <1>1, <1>2 DEF CoreMarkAsDone
  <1> QED BY <1>2, <1>3, RepoTypes DEF StepInv, Task, Stored, Scheduled

LEMMA NextStays ==
  ASSUME OnlyAdds, StepInv, StepInv', [SchedNext]_allVars
  PROVE  TasksStay
  <1>1. now \in Int /\ now' \in Int /\ Scheduled \subseteq Stored
    BY DEF StepInv, RepoInv, IInv, TypeOK, Scheduled, Stored
  <1>2. CASE Stepper
    <2>1. UNCHANGED now /\ \A i \in Stored : i \in Stored' /\ tasks'[i].sched = tasks[i].sched
      <3>1. CASE UNCHANGED tasks
        BY <1>2, <3>1, StepperTasks DEF Stored
      <3>2. ASSUME NEW i, MarkAsDispatched(Sched, i)
            PROVE  \A j \in Stored : j \in Stored' /\ tasks'[j].sched = tasks[j].sched
        BY <3>2, MarkedSched DEF Stored
      <3>3. ASSUME NEW i, NEW result, MarkAsDone(Sched, i, result)
            PROVE  \A j \in Stored : j \in Stored' /\ tasks'[j].sched = tasks[j].sched
        BY <3>3, DoneSched DEF Stored
      <3> QED BY <1>2, <3>1, <3>2, <3>3, StepperTasks
    <2> QED BY <1>1, <2>1 DEF TasksStay
  <1>3. ASSUME NEW w \in Workers, Work(w) PROVE TasksStay
    BY <1>1, <1>3 DEF Work, WorkStart, WorkRefused, WorkEnd, vars, repoVars, TasksStay, Stored
  <1>4. CASE Tick \/ UNCHANGED vars
    BY <1>1, <1>4 DEF Tick, vars, repoVars, TasksStay, Stored
  <1> QED BY <1>2, <1>3, <1>4, ClientAdds DEF SchedNext, allVars

(* What Step's calls do to the timer. *)
LEMMA StepperTimer ==
  ASSUME StepInv, Stepper
  PROVE  \/ LeftAlone /\ UNCHANGED <<tasks, count, pend>>
         \/ StartTimer(Sched) \/ StopTimer(Sched) \/ Hook(Sched)
         \/ Receive /\ At("select") /\ pc' = "getNext"
         \/ \E i : MarkAsDispatched(Sched, i) /\ LeftAlone
         \/ \E i, result :
               MarkAsDone(Sched, i, result) /\ LeftAlone /\ UNCHANGED pend
  <1>1. ASSUME NEW site, CallEnds(site) PROVE LeftAlone /\ UNCHANGED <<tasks, count, pend>>
    BY <1>1 DEF CallEnds, CallFails, repoVars, timerVars, vars, LeftAlone
  <1>2. UNCHANGED vars => LeftAlone /\ UNCHANGED <<tasks, count, pend>>
    BY DEF LeftAlone, vars, repoVars, timerVars
  <1>3. ASSUME \/ Boot \/ Step \/ StepStopTimer \/ StepStartTimer
               \/ StepCheckTimer \/ SelectCtxDone
               \/ StepGetNext \/ StepCompare
               \/ DispatchCtxDone \/ Dispatch \/ DispatchMarkHook
               \/ DispatchFetch \/ RetryTimer \/ RetryDispatch
        PROVE  \/ LeftAlone /\ UNCHANGED <<tasks, count, pend>>
               \/ StartTimer(Sched) \/ StopTimer(Sched) \/ Hook(Sched)
    BY <1>1, <1>2, <1>3
       DEF Boot, Step, StepStopTimer, StepStartTimer, StepCheckTimer,
           SelectCtxDone, StepGetNext, StepCompare,
           DispatchCtxDone, Dispatch, DispatchMarkHook, DispatchFetch,
           RetryTimer, RetryDispatch, Hook, CallEnds
  <1>4. ASSUME SelectTimer PROVE Receive /\ At("select") /\ pc' = "getNext"
    BY <1>4 DEF SelectTimer, GoTo
  <1>5. \A i : MarkAsDispatched(Sched, i) => LeftAlone
    BY DEF MarkAsDispatched, timerVars, LeftAlone
  <1>6. \A i, result : MarkAsDone(Sched, i, result)
           => LeftAlone /\ UNCHANGED pend
    BY DEF MarkAsDone, timerVars, LeftAlone
  <1>7. ASSUME SelectResult \/ RetryTaskDone
        PROVE  \/ LeftAlone /\ UNCHANGED <<tasks, count, pend>>
               \/ \E i, result :
                     MarkAsDone(Sched, i, result) /\ LeftAlone /\ UNCHANGED pend
    BY <1>1, <1>2, <1>6, <1>7 DEF SelectResult, RetryTaskDone
  <1>8. ASSUME DispatchMark
        PROVE  \/ LeftAlone /\ UNCHANGED <<tasks, count, pend>>
               \/ \E i : MarkAsDispatched(Sched, i) /\ LeftAlone
    BY <1>1, <1>2, <1>5, <1>8 DEF DispatchMark
  <1> QED BY <1>3, <1>4, <1>7, <1>8 DEF Stepper

(* Arming the timer for a first task arms it for a scheduled one. *)
LEMMA ArmedIsScheduled ==
  ASSUME StepInv, Armed, UNCHANGED tasks
  PROVE  /\ cachedMin'.id \in Firsts /\ cachedMin' = tasks[cachedMin'.id]
         /\ cachedMin'.id \in Scheduled'
         /\ tasks'[cachedMin'.id].sched = cachedMin'.sched
  <1>1. PICK i \in Firsts : cachedMin' = tasks[i]
    BY DEF Armed
  <1>2. i \in Scheduled /\ i \in Stored
    BY DEF Firsts, Scheduled, Stored
  <1>3. tasks[i].id = i
    BY <1>2 DEF StepInv, RepoInv, IInv, StoredOK
  <1> QED BY <1>1, <1>2, <1>3 DEF Scheduled

LEMMA NextCached ==
  ASSUME OnlyAdds, StepInv, StepInv', CachedIsScheduled, [SchedNext]_allVars
  PROVE  CachedIsScheduled'
  <1> DEFINE m == cachedMin.id
  <1>1. timer # None => timerReset
    BY DEF StepInv, RepoInv, IInv, TimerAgrees
  <1>2. ASSUME LeftAlone, UNCHANGED tasks, pend'[Sched] = pend[Sched]
        PROVE  CachedIsScheduled'
    BY <1>2 DEF LeftAlone, CachedIsScheduled, Scheduled, Owes
  <1>3. ASSUME NEW a \in Actors, Hook(a) PROVE CachedIsScheduled'
    <2>1. UNCHANGED tasks /\ (Armed \/ Disarmed \/ LeftAlone)
          /\ (timerReset /\ Rearms(a) => Armed \/ Disarmed)
      BY <1>3, HookTimer
    <2>2. \A b \in Actors \ {a} : pend'[b] = pend[b]
      BY <1>3, HookKeeps DEF StepInv
    <2>3. CASE Armed
      BY <2>1, <2>3, ArmedIsScheduled DEF CachedIsScheduled
    <2>4. CASE Disarmed
      BY <2>4 DEF Disarmed, CachedIsScheduled
    <2>5. CASE LeftAlone /\ a # Sched
      BY <1>2, <2>1, <2>2, <2>5, SchedulerAssumption
    <2>6. CASE LeftAlone /\ a = Sched /\ ~(timerReset /\ Rearms(a))
      BY <1>1, <2>1, <2>6 DEF LeftAlone, CachedIsScheduled, Scheduled, Rearms
    <2> QED BY <2>1, <2>3, <2>4, <2>5, <2>6
  <1>4. ASSUME NEW a, StartTimer(a) \/ StopTimer(a) PROVE CachedIsScheduled'
    <2>1. UNCHANGED tasks /\ (Armed \/ Disarmed)
      BY <1>4, StartTimerTimer, StopTimerTimer
    <2>2. CASE Armed
      BY <2>1, <2>2, ArmedIsScheduled DEF CachedIsScheduled
    <2>3. CASE Disarmed
      BY <2>3 DEF Disarmed, CachedIsScheduled
    <2> QED BY <2>1, <2>2, <2>3
  <1>5. ASSUME NEW i, MarkAsDispatched(Sched, i), LeftAlone
        PROVE  CachedIsScheduled'
    <2>1. /\ IsIdle(Sched) /\ pend'[Sched].op = "MarkAsDispatched"
          /\ pend'[Sched].id = i
      BY <1>5, MarkAsDispatchedMoves, SchedulerAssumption DEF StepInv
    <2>2. ~Owes(Sched, "MarkAsDispatched")
      BY <2>1 DEF IsIdle, Idle, Owes
    <2> QED BY <1>5, <2>1, <2>2, MarkedSched
            DEF CachedIsScheduled, LeftAlone, Scheduled, Owes
  <1>6. ASSUME NEW i, NEW result, MarkAsDone(Sched, i, result), LeftAlone,
               UNCHANGED pend
        PROVE  CachedIsScheduled'
    BY <1>6, DoneSched DEF CachedIsScheduled, LeftAlone, Scheduled, Owes
  <1>7. ASSUME Receive PROVE CachedIsScheduled'
    BY <1>7 DEF Receive, TimerReceive, CachedIsScheduled
  <1>8. CASE Stepper
    BY <1>2, <1>3, <1>4, <1>5, <1>6, <1>7, <1>8, StepperTimer,
       SchedulerAssumption
  <1>9. ASSUME NEW a \in Clients, Client(a) PROVE CachedIsScheduled'
    <2>1. a \in Actors /\ pend'[Sched] = pend[Sched]
      BY <1>9, ClientKeeps DEF Clients, StepInv
    <2>2. CASE Hook(a) \/ StartTimer(a) \/ StopTimer(a)
      BY <1>3, <1>4, <2>1, <2>2
    <2>3. CASE AddTask(a) \/ AddTaskInsert(a)
      <3>1. LeftAlone
        BY <2>3 DEF AddTask, AddTaskInsert, timerVars, LeftAlone
      <3>2. Scheduled \subseteq Scheduled'
            /\ \A i \in Scheduled : tasks'[i].sched = tasks[i].sched
        BY <1>9, ClientAdds
      <3> QED BY <2>1, <3>1, <3>2 DEF LeftAlone, CachedIsScheduled, Owes
    <2> QED BY <1>9, <2>2, <2>3
            DEF Client, ClientBegins, ClientEnds, Hook, OnlyAdds
  <1>10. CASE UNCHANGED vars \/ Tick
    BY <1>2, <1>10 DEF vars, repoVars, timerVars, Tick, LeftAlone
  <1> QED BY <1>8, <1>9, <1>10
          DEF SchedNext, allVars, Work, WorkStart, WorkRefused, WorkEnd

LEMMA DueStays ==
  ASSUME TasksStay, StepInv, StepInv'
  PROVE  \A i : Due(i) => Due(i)'
  <1> SUFFICES ASSUME NEW i, Due(i) PROVE Due(i)'
    OBVIOUS
  <1>1. i \in Stored' /\ tasks'[i].sched = tasks[i].sched /\ i \in Ids
    BY DEF TasksStay, Due, Stored
  <1>2. tasks[i].sched \in Int
    BY <1>1, RepoTypes, TasksAssumption DEF StepInv, Task
  <1> QED BY <1>1, <1>2 DEF TasksStay, Due

(* The timer fires for a task that is due, and Step then fetches one.      *)
LEMMA TimerFires ==
  ASSUME StepInv, CachedIsScheduled, SelectTimer
  PROVE  \E j \in Scheduled' : Due(j)'
  <1>1. ~Owes(Sched, "MarkAsDispatched")
    BY IdleSched DEF SelectTimer, At, IsIdle, Idle, Owes
  <1>2. /\ timer # None /\ timer <= now /\ timer = cachedMin.sched
        /\ UNCHANGED <<tasks, now>>
    BY DEF SelectTimer, Receive, TimerReceive, Expired, repoVars, StepInv,
           RepoInv, IInv, TimerAgrees
  <1>3. cachedMin.id \in Scheduled /\ tasks[cachedMin.id].sched = timer
    BY <1>1, <1>2 DEF CachedIsScheduled
  <1> QED BY <1>2, <1>3 DEF Due, Scheduled, Stored

LEMMA FirstIsDue ==
  ASSUME StepInv, NEW j \in Scheduled, Due(j), NEW i \in Firsts
  PROVE  Due(i) /\ tasks[i].id = i
  <1>1. i \in Scheduled /\ i \in Stored /\ ~(tasks[j].sched < tasks[i].sched)
    BY FirstIsEarliest DEF Scheduled, Stored
  <1>2. tasks[i].sched \in Int /\ tasks[j].sched \in Int /\ now \in Int
    BY <1>1, RepoTypes, TasksAssumption
       DEF StepInv, RepoInv, IInv, TypeOK, Task, Scheduled
  <1>3. tasks[i].id = i
    BY <1>1 DEF StepInv, RepoInv, IInv, StoredOK
  <1> QED BY <1>1, <1>2, <1>3 DEF Due

(* Step takes a task from the repository, or passes it on. *)
LEMMA StepperCarries ==
  ASSUME StepInv, Stepper, NEW i \in Ids, OnItsWay(i)'
  PROVE  OnItsWay(i) \/ (At("getNext") /\ \E j \in Firsts : tasks[j].id = i)
  <1>1. NoError.s = "ok" /\ NoTask.id = 0 /\ i # 0 /\ 0 \in 0 .. MaxTasks
    BY NoErrorType, StepTypes, TasksAssumption
  <1>2. \A j \in 0 .. MaxTasks : [NoTask EXCEPT !.id = j].id = j
    BY BlankTask
  <1>3. lastTask \in 0 .. MaxTasks /\ prev.id \in 0 .. MaxTasks
    BY StepTypes
  <1>4. ASSUME \/ Boot \/ StepStopTimer \/ StepStartTimer \/ SelectCtxDone
               \/ SelectResult \/ SelectTimer \/ RetryTimer \/ RetryTaskDone
        PROVE  OnItsWay(i)
    <2>1. UNCHANGED <<worker, lastTask>>
      BY <1>4 DEF Boot, StepStopTimer, StepStartTimer, SelectCtxDone,
                  SelectResult, SelectTimer, RetryTimer, RetryTaskDone,
                  workVars
    <2>2. pc' \in {"idle", "startTimer", "checkTimer", "getNext", "stopTimer"}
      BY <1>4 DEF Boot, StepStopTimer, StepStartTimer, SelectCtxDone,
                  SelectResult, SelectTimer, RetryTimer, RetryTaskDone, GoTo,
                  Return
    <2>3. prev' = prev \/ prev'.s # "dispatchErr"
      <3>1. CASE SelectResult
        <4>1. \/ prev' = NoError
              \/ prev' = Returned("taskDone", Head(results).id,
                                  Head(results).result)
          BY <3>1 DEF SelectResult, Return
        <4> QED BY <1>1, <4>1 DEF Returned
      <3>2. CASE RetryTaskDone
        BY <1>1, <3>2 DEF RetryTaskDone, Return
      <3> QED BY <1>1, <1>4, <3>1, <3>2
              DEF Boot, StepStopTimer, StepStartTimer, SelectCtxDone,
                  SelectTimer, RetryTimer, Return
    <2> QED BY <2>1, <2>2, <2>3 DEF OnItsWay
  <1>5. ASSUME Step \/ StepCheckTimer PROVE OnItsWay(i)
    <2>1. UNCHANGED worker /\ (lastTask' = lastTask \/ lastTask' = 0)
      BY <1>5 DEF Step, StepCheckTimer, Proceed, workVars
    <2>2. \/ pc' \in {"idle", "stopTimer", "select"}
          \/ lastTask # 0 /\ next'.id = lastTask
      BY <1>2, <1>3, <1>5 DEF Step, StepCheckTimer, Proceed, GoTo, Return
    <2>3. prev' = prev \/ prev'.s # "dispatchErr"
      BY <1>1, <1>5 DEF Step, StepCheckTimer, Proceed, Return, Returned
    <2> QED BY <2>1, <2>2, <2>3 DEF OnItsWay
  <1>6. ASSUME StepGetNext
        PROVE  OnItsWay(i) \/ (At("getNext") /\ \E j \in Firsts : tasks[j].id = i)
    <2>1. UNCHANGED worker /\ (lastTask' = lastTask \/ lastTask' = 0)
          /\ At("getNext")
      BY <1>6 DEF StepGetNext, workVars
    <2>2. pc' = "idle" \/ \E j \in Firsts : next' = tasks[j]
      BY <1>6 DEF StepGetNext, GoTo, Return
    <2>3. prev' = prev \/ prev'.s # "dispatchErr"
      BY <1>1, <1>6 DEF StepGetNext, Return
    <2> QED BY <2>1, <2>2, <2>3 DEF OnItsWay
  <1>7. ASSUME \/ StepCompare \/ DispatchCtxDone \/ Dispatch \/ DispatchMark
               \/ DispatchMarkHook
        PROVE  OnItsWay(i)
    <2>1. /\ UNCHANGED worker
          /\ pc \in {"compare", "dispatch", "mark", "markHook", "fetch"}
          /\ lastTask' = lastTask \/ lastTask' = next.id
      BY <1>7 DEF StepCompare, DispatchCtxDone, Dispatch, DispatchMark,
                  DispatchMarkHook, workVars, At
    <2>2. pc' = "idle" \/ next' = next
      BY <1>7 DEF StepCompare, DispatchCtxDone, Dispatch, DispatchMark,
                  DispatchMarkHook, DispatchFailed, Return, GoTo
    <2>3. prev' = prev \/ prev'.s # "dispatchErr" \/ prev'.id = next.id
      <3>1. DispatchFailed => prev'.id = next.id
        BY DEF DispatchFailed, Return, Returned
      <3>2. CASE DispatchMark
        BY <3>1, <3>2 DEF DispatchMark
      <3> QED BY <1>1, <1>7, <3>1, <3>2
              DEF StepCompare, DispatchCtxDone, Dispatch, DispatchMarkHook,
                  Return
    <2> QED BY <2>1, <2>2, <2>3 DEF OnItsWay
  <1>8. ASSUME DispatchFetch PROVE OnItsWay(i)
    <2>1. At("fetch") /\ lastTask' = lastTask /\ pc' = "idle"
      BY <1>8 DEF DispatchFetch, DispatchFailed, Return, GoTo
    <2>2. prev'.s # "dispatchErr" \/ prev'.id = next.id
      BY <1>1, <1>8 DEF DispatchFetch, DispatchFailed, Return, Returned
    <2>3. \A w \in Workers : worker'[w] = worker[w] \/ worker'[w].id = next.id
      BY <1>8, StepTypes DEF DispatchFetch
    <2> QED BY <2>1, <2>2, <2>3 DEF OnItsWay, At
  <1>9. ASSUME RetryDispatch PROVE OnItsWay(i)
    <2>1. UNCHANGED <<worker, lastTask>> /\ prev.s = "dispatchErr"
      BY <1>9 DEF RetryDispatch, workVars
    <2>2. pc' = "idle" \/ next'.id = prev.id
      BY <1>2, <1>3, <1>9 DEF RetryDispatch, Return, GoTo
    <2>3. prev' = prev \/ prev'.s # "dispatchErr"
      BY <1>1, <1>9 DEF RetryDispatch, Return
    <2> QED BY <2>1, <2>2, <2>3 DEF OnItsWay
  <1> QED BY <1>4, <1>5, <1>6, <1>7, <1>8, <1>9 DEF Stepper

LEMMA NextOnItsWay ==
  ASSUME OnlyAdds, StepInv, StepInv', DueInv, [SchedNext]_allVars
  PROVE  DueOnItsWay'
  <1>1. \A i : Due(i) => i \in Stored' /\ tasks'[i].sched <= now'
    BY NextStays, DueStays DEF Due
  <1>2. CASE Stepper
    <2>1. \A i \in Ids : OnItsWay(i)' => Due(i)
      <3> SUFFICES ASSUME NEW i \in Ids, OnItsWay(i)' PROVE Due(i)
        OBVIOUS
      <3>1. CASE OnItsWay(i)
        BY <3>1 DEF DueInv, DueOnItsWay
      <3>2. ASSUME At("getNext"), NEW j \in Firsts, tasks[j].id = i
            PROVE  Due(i)
        BY <3>2, FirstIsDue DEF DueInv, DueOnItsWay
      <3> QED BY <1>2, <3>1, <3>2, StepperCarries
    <2>2. pc' = "getNext" => SelectTimer
      BY <1>2 DEF Stepper, Boot, Step, StepStopTimer, StepStartTimer,
         StepCheckTimer, SelectCtxDone, SelectResult, StepGetNext,
         StepCompare, DispatchCtxDone, Dispatch, DispatchMark,
         DispatchMarkHook, DispatchFetch, DispatchFailed, RetryTimer,
         RetryDispatch, RetryTaskDone, Proceed, Return, GoTo
    <2>3. At("getNext")' => \E j \in Scheduled' : Due(j)'
      BY <2>2, TimerFires DEF DueInv, At
    <2> QED BY <1>1, <2>1, <2>3 DEF DueOnItsWay, Due
  <1>3. ASSUME NEW w \in Workers, Work(w) PROVE DueOnItsWay'
    <2>1. UNCHANGED <<tasks, pc, next, lastTask, prev, now>>
      BY <1>3 DEF Work, WorkStart, WorkRefused, WorkEnd, vars, repoVars,
                  stepVars
    <2>2. \A v \in Workers : worker'[v].id = worker[v].id \/ worker'[v].id = 0
      <3>1. CASE WorkStart(w)
        BY <3>1, StepTypes DEF WorkStart
      <3>2. ASSUME NEW result, Report(w, result)
            PROVE  \A v \in Workers :
                      worker'[v].id = worker[v].id \/ worker'[v].id = 0
        BY <3>2, StepTypes DEF Report, Free
      <3> QED BY <1>3, <3>1, <3>2 DEF Work, WorkRefused, WorkEnd
    <2>3. \A i \in Ids : OnItsWay(i)' => OnItsWay(i)
      BY <2>1, <2>2 DEF OnItsWay
    <2> QED BY <2>1, <2>3 DEF DueInv, DueOnItsWay, Due, At, Scheduled, Stored
  <1>4. ASSUME UNCHANGED <<stepVars, workVars>>, Scheduled \subseteq Scheduled'
        PROVE  DueOnItsWay'
    <2>1. \A i \in Ids : OnItsWay(i)' => OnItsWay(i)
      BY <1>4 DEF OnItsWay, stepVars, workVars
    <2>2. At("getNext")' => At("getNext")
      BY <1>4 DEF At, stepVars
    <2> QED BY <1>1, <1>4, <2>1, <2>2 DEF DueInv, DueOnItsWay, Due
  <1>5. Tick \/ UNCHANGED vars => Scheduled' = Scheduled
    BY DEF Tick, vars, repoVars, Scheduled
  <1> QED BY <1>2, <1>3, <1>4, <1>5, ClientAdds DEF SchedNext, allVars

LEMMA AlwaysDue == ASSUME OnlyAdds PROVE SchedSpec => []DueInv
  <1>1. SchedInit => DueInv
    <2> SUFFICES ASSUME SchedInit PROVE DueInv
      OBVIOUS
    <2>1. /\ timer = None /\ pc = "boot" /\ lastTask = 0 /\ prev.s = "ok"
          /\ \A w \in Workers : worker[w].id = 0
      BY NoErrorType DEF SchedInit, Init, TimerInit, Free
    <2> QED BY <2>1 DEF DueInv, CachedIsScheduled, DueOnItsWay, OnItsWay, At
  <1>2. StepInv /\ StepInv' /\ DueInv /\ [SchedNext]_allVars => DueInv'
    BY NextCached, NextOnItsWay DEF DueInv
  <1> QED BY <1>1, <1>2, AlwaysStepInv, PTL DEF SchedSpec

(* No task is worked on before it is due, whatever fails, whatever is      *)
(* retried and whoever starts and stops the timer, as long as the clients  *)
(* leave the tasks they added as they are.                                 *)
THEOREM WorkIsDue ==
  ASSUME OnlyAdds
  PROVE  SchedSpec => []NotEarly
  <1>1. StepInv /\ DueInv => NotEarly
    BY WorkerTypes DEF DueInv, DueOnItsWay, OnItsWay, Due, NotEarly
  <1> QED BY <1>1, AlwaysStepInv, AlwaysDue, PTL

-----------------------------------------------------------------------------
(* Where no wakeup is lost.  The timer fires once for the task it is armed *)
(* for: Step then has to dispatch that task.  It forgets to when the       *)
(* dispatch is given up (a context that ends, a failing MarkAsDispatched   *)
(* of the core), when an update moves the task behind its back, or when    *)
(* two clients change the repository at a time: the hook that is called    *)
(* first sees what both did, and arms the timer for it.                    *)
NoneSpendsTimer ==
    /\ ~CtxEnds
    /\ "CoreMarkAsDispatched" \notin FaultSites
    /\ "UpdateById" \notin ClientOps
    /\ \A a, b \in Clients : a = b

(* Tasks are stored in the order of their stamps. *)
StampsOK ==
    /\ \A i \in Stored : tasks[i].created = i
    /\ \A a \in Actors : Owes(a, "insert") => pend[a].id = count

Rearming == \E a \in Clients : Rearms(a)

(* The running timer was armed for the task that is first, or a hook that  *)
(* will update it is still to be called.                                   *)
CachedIsFirst ==
    timerReset =>
        \/ cachedMin.id \in Firsts /\ cachedMin = tasks[cachedMin.id]
        \/ Rearming \/ Rearms(Sched)

(* Step recovers before it does anything else. *)
RecoversFirst ==
    getNextErr \/ lastTask # 0 =>
        /\ pc \in {"idle", "stopTimer", "startTimer", "checkTimer"}
        /\ prev.s \in {"ok", "timerUpdateError"}

(* Step has received from the timer, and the timer was not armed since. *)
Spent == timerReset /\ timer = None

(* Then Step is on its way to dispatch the task the timer was armed for,   *)
(* or to start the timer anew, or a hook will.                             *)
SpentIsUsed ==
    Spent =>
        \/ Rearming
        \/ pc \in {"stopTimer", "getNext"}
        \/ At("idle") /\ (getNextErr \/ lastTask = cachedMin.id)
        \/ At("compare") /\ next = cachedMin
        \/ /\ pc \in {"dispatch", "mark", "markHook"}
           /\ next.id = cachedMin.id /\ ~isRetry

WakeInv == StampsOK /\ CachedIsFirst /\ RecoversFirst /\ SpentIsUsed

LEMMA ToTaskCreated ==
  ASSUME NEW p \in UpdateParam, NEW i \in 0 .. MaxTasks,
         NEW c \in 0 .. FarFuture
  PROVE  /\ ToTask(p, i, c).created = c
         /\ ToTask(p, i, c).sched = OrElse(p.sched, 0)
         /\ ToTask(p, i, c).prio = OrElse(p.prio, 0)
         /\ ToTask(p, i, c).cancelledAt = FALSE
  BY DEF ToTask, Update, NoTask, Assign, ZeroTime

(* A client's AddTask, under the lock of the core. *)
LEMMA InsertIsLast ==
  ASSUME StepInv, StampsOK, NEW a \in Actors, AddTaskInsert(a)
  PROVE  LET n == pend[a].id
             t == ToTask(pend[a].param, n, n)
         IN  /\ n \in Ids \ Stored /\ n = count
             /\ \A i \in Stored : i < n
             /\ tasks' = [tasks EXCEPT ![n] = t] /\ tasks'[n] = t
             /\ \A j \in Ids \ {n} : tasks'[j] = tasks[j]
             /\ t \in Task /\ t.state = "scheduled" /\ t.created = n
             /\ pend[a].param \in UpdateParam
             /\ pend' = [pend EXCEPT ![a] = [op |-> "AddTask", id |-> n, param |-> pend[a].param]]
             /\ UNCHANGED <<count, timerVars>>
  <1> DEFINE n == pend[a].id
             p == pend[a].param
             t == ToTask(p, n, n)
  <1>1. /\ tasks' = [tasks EXCEPT ![n] = t]
        /\ UNCHANGED count /\ UNCHANGED timerVars
        /\ Owes(a, "insert")
        /\ pend' = [pend EXCEPT ![a] = [op |-> "AddTask", id |-> n, param |-> p]]
    BY DEF AddTaskInsert, Insert, Begin
  <1>2. n \in Ids \ Stored /\ n = count /\ p \in UpdateParam
    BY <1>1, RepoTypes
       DEF StepInv, RepoInv, FreshOK, IInv, PendOK, Owes, Pending, StampsOK
  <1>3. Stored \subseteq 1 .. count
    BY DEF StepInv, RepoInv, FreshOK
  <1>4. \A i \in Stored : i < n
    BY <1>2, <1>3 DEF Ids
  <1>5. n \in 0 .. MaxTasks /\ n \in 0 .. FarFuture
    BY <1>2, TasksAssumption DEF Ids, FarFuture
  <1>6. t \in Task /\ t.state = "scheduled" /\ t.created = n
    <2>1. p \in UpdateParam
      BY <1>2
    <2> HIDE DEF n, p
    <2>2. t \in Task /\ t.state = "scheduled"
      BY <1>5, <2>1, ToTaskType
    <2>3. t.created = n
      BY <1>5, <2>1, ToTaskCreated
    <2> QED BY <2>2, <2>3
  <1> HIDE DEF t
  <1>7. tasks'[n] = t /\ \A j \in Ids \ {n} : tasks'[j] = tasks[j]
    BY <1>1, <1>2, RepoTypes DEF StepInv
  <1> QED BY <1>1, <1>2, <1>4, <1>6, <1>7 DEF t

LEMMA CancelEffect ==
  ASSUME StepInv, NEW a, Cancel(a)
  PROVE  \E i \in Scheduled :
            /\ tasks' = [tasks EXCEPT ![i].state = "cancelled",
                                      ![i].cancelledAt = TRUE]
            /\ Begin(a, "Cancel", i, NoParam)
            /\ UNCHANGED <<count, timerVars>> /\ IsIdle(a)
  <1>1. PICK i \in Ids : CoreCancel(i) /\ Begin(a, "Cancel", i, NoParam)
    BY DEF Cancel
  <1>2. i \in Scheduled
    BY <1>1, MutateNil DEF CoreCancel, StepInv
  <1>3. tasks' = [tasks EXCEPT ![i].state = "cancelled",
                               ![i].cancelledAt = TRUE]
    BY <1>1, <1>2 DEF CoreCancel
  <1> QED BY <1>1, <1>2, <1>3 DEF Cancel, CoreCancel

LEMMA StepperFrame ==
  ASSUME StepInv, Stepper
  PROVE  UNCHANGED count /\ \A b \in Clients : pend'[b] = pend[b]
  <1>1. Sched \in Actors /\ Clients = Actors \ {Sched}
    BY SchedulerAssumption DEF Clients
  <1>2. ASSUME StartTimer(Sched) \/ StopTimer(Sched) PROVE UNCHANGED <<count, pend>>
    BY <1>2 DEF StartTimer, StopTimer, repoVars
  <1>3. ASSUME Hook(Sched)
        PROVE  UNCHANGED count /\ \A b \in Clients : pend'[b] = pend[b]
    BY <1>1, <1>3, HookTimer, HookKeeps DEF StepInv
  <1>4. Receive => UNCHANGED <<count, pend>>
    BY DEF Receive, repoVars
  <1>5. ASSUME NEW i, MarkAsDispatched(Sched, i)
        PROVE  UNCHANGED count /\ \A b \in Clients : pend'[b] = pend[b]
    BY <1>1, <1>5, MarkAsDispatchedMoves DEF StepInv, MarkAsDispatched, CoreMarkAsDispatched
  <1>6. ASSUME NEW i, NEW result, MarkAsDone(Sched, i, result)
        PROVE  UNCHANGED <<count, pend>>
    BY <1>6 DEF MarkAsDone, CoreMarkAsDone
  <1> QED BY <1>2, <1>3, <1>4, <1>5, <1>6, StepperTimer

LEMMA SchedOwes ==
  ASSUME StepInv
  PROVE  /\ ~Owes(Sched, "insert") /\ ~Owes(Sched, "AddTask") /\ ~Owes(Sched, "Cancel")
         /\ ~At("markHook") => ~Rearms(Sched)
         /\ Sched \in Actors /\ Actors = Clients \cup {Sched}
  BY SchedulerAssumption
     DEF StepInv, StepOK, IsIdle, Idle, Owes, Rearms, Clients

(* The order of the heap is total on tasks with different stamps. *)
LEMMA OneFirst ==
  ASSUME StepInv, StampsOK, NEW i \in Firsts, NEW j \in Firsts
  PROVE  i = j
  <1>1. i \in Ids /\ j \in Ids /\ i \in Scheduled /\ j \in Scheduled
        /\ i \in Stored /\ j \in Stored
    BY DEF Firsts, Scheduled, Stored
  <1>2. tasks[i].created = i /\ tasks[j].created = j
    BY <1>1 DEF StampsOK
  <1>3. tasks[i] \in Task /\ tasks[j] \in Task
    BY <1>1, RepoTypes DEF StepInv
  <1>4. /\ tasks[i].sched \in Int /\ tasks[j].sched \in Int
        /\ tasks[i].prio \in Int /\ tasks[j].prio \in Int
        /\ i \in Int /\ j \in Int
    <2>1. \A x \in Task : x.sched \in Int /\ x.prio \in Int
      <3>1. \A x \in Task : x.sched \in 0 .. MaxTime /\ x.prio \in Priorities
        BY DEF Task
      <3>2. 0 .. MaxTime \subseteq Int /\ Priorities \subseteq Int
        BY TasksAssumption
      <3> QED BY <3>1, <3>2
    <2>2. i \in Int /\ j \in Int
      BY <1>1, TasksAssumption DEF Ids
    <2> QED BY <1>3, <2>1, <2>2
  <1>5. ~Less(tasks[i], tasks[j]) /\ ~Less(tasks[j], tasks[i])
    BY <1>1 DEF Firsts
  <1> QED BY <1>2, <1>4, <1>5 DEF Less

(* A task is inserted before the first one only by a client whose hook     *)
(* will see that.                                                          *)
LEMMA InsertKeepsFirst ==
  ASSUME StepInv, StampsOK, NEW a \in Clients, AddTaskInsert(a),
         cachedMin.id \in Firsts, cachedMin = tasks[cachedMin.id]
  PROVE  \/ cachedMin.id \in Firsts' /\ cachedMin = tasks'[cachedMin.id]
         \/ Rearming'
  <1> DEFINE n == pend[a].id
             p == pend[a].param
             t == ToTask(p, n, n)
             m == cachedMin.id
  <1>1. a \in Actors
    BY DEF Clients
  <1>2. /\ n \in Ids \ Stored /\ \A i \in Stored : i < n
        /\ tasks'[n] = t /\ \A j \in Ids \ {n} : tasks'[j] = tasks[j]
        /\ t.state = "scheduled" /\ t.created = n
        /\ p \in UpdateParam
        /\ pend' = [pend EXCEPT ![a] = [op |-> "AddTask", id |-> n, param |-> p]]
        /\ UNCHANGED timerVars
    BY <1>1, InsertIsLast
  <1>3. m \in Ids /\ m \in Scheduled /\ m \in Stored
    BY DEF Firsts, Scheduled, Stored
  <1>4. /\ pend'[a].op = "AddTask" /\ pend'[a].param = p
        /\ cachedMin' = cachedMin
    BY <1>1, <1>2, RepoTypes DEF StepInv, timerVars
  <1>5. cachedMin.created = m /\ m < n
    BY <1>2, <1>3 DEF StampsOK
  <1>6. ASSUME Less(t, cachedMin) PROVE Rearming'
    <2>1. n \in 0 .. MaxTasks /\ n \in 0 .. FarFuture /\ 0 \in 0 .. MaxTasks
          /\ FarFuture \in 0 .. FarFuture /\ n \in Int /\ m \in Int
      BY <1>2, <1>3, TasksAssumption DEF Ids, FarFuture
    <2> DEFINE u == ToTask(p, 0, FarFuture)
    <2>2. /\ t.sched = OrElse(p.sched, 0) /\ t.prio = OrElse(p.prio, 0)
          /\ t.cancelledAt = FALSE
      <3> HIDE DEF n, p
      <3> QED BY <1>2, <2>1, ToTaskCreated
    <2>3. u.sched = OrElse(p.sched, 0) /\ u.prio = OrElse(p.prio, 0)
      <3> HIDE DEF p
      <3> QED BY <1>2, <2>1, ToTaskCreated
    <2>4. ~(t.created < cachedMin.created)
      BY <1>2, <1>5, <2>1
    <2> HIDE DEF u, t
    <2>5. Less(u, cachedMin)
      BY <1>6, <2>2, <2>3, <2>4 DEF Less
    <2>6. Less(ToTask(pend'[a].param, 0, FarFuture), cachedMin')
      BY <1>4, <2>5 DEF u
    <2> QED BY <1>4, <2>6 DEF Rearming, Rearms, Owes
  <1>7. CASE ~Less(t, cachedMin)
    <2>1. tasks'[m] = cachedMin
      BY <1>2, <1>3
    <2>2. m \in Scheduled'
      BY <1>3, <2>1 DEF Scheduled
    <2>3. \A j \in Scheduled' : ~Less(tasks'[j], tasks'[m])
      <3> SUFFICES ASSUME NEW j \in Scheduled'
                   PROVE  ~Less(tasks'[j], cachedMin)
        BY <2>1
      <3>1. CASE j = n
        BY <1>2, <1>7, <3>1
      <3>2. CASE j # n
        <4>1. j \in Scheduled /\ tasks'[j] = tasks[j]
          BY <1>2, <3>2 DEF Scheduled
        <4> QED BY <4>1 DEF Firsts
      <3> QED BY <3>1, <3>2
    <2> QED BY <2>1, <2>2, <2>3 DEF Firsts
  <1> QED BY <1>6, <1>7

(* Tasks that leave the scheduled ones do not disturb the first one. *)
LEMMA LeaveKeepsFirst ==
  ASSUME StepInv, NEW i \in Ids, i # cachedMin.id, i \notin Scheduled',
         \A j \in Ids \ {i} : tasks'[j] = tasks[j],
         cachedMin.id \in Firsts, cachedMin = tasks[cachedMin.id]
  PROVE  cachedMin.id \in Firsts' /\ cachedMin = tasks'[cachedMin.id]
  <1>1. cachedMin.id \in Scheduled /\ cachedMin.id \in Ids
    BY DEF Firsts, Scheduled
  <1>2. \A j \in Scheduled' : j \in Scheduled /\ tasks'[j] = tasks[j]
    BY DEF Scheduled
  <1>3. cachedMin.id \in Scheduled' /\ tasks'[cachedMin.id] = cachedMin
    BY <1>1 DEF Scheduled
  <1> QED BY <1>2, <1>3 DEF Firsts

LEMMA NextStamps ==
  ASSUME NoneSpendsTimer, StepInv, StepInv', StampsOK, [SchedNext]_allVars
  PROVE  StampsOK'
  <1>1. ASSUME UNCHANGED tasks
        PROVE  \A i \in Stored' : tasks'[i].created = i
    BY <1>1 DEF StampsOK, Stored
  <1>2. ASSUME NEW i \in Stored, \A j \in Ids \ {i} : tasks'[j] = tasks[j],
               tasks'[i].created = tasks[i].created
        PROVE  \A j \in Stored' : tasks'[j].created = j
    BY <1>2 DEF StampsOK, Stored
  <1>3. ~Owes(Sched, "insert")'
    <2>1. StepInv' => ~Owes(Sched, "insert")'
      BY DEF StepInv, StepOK, IsIdle, Idle, Owes
    <2> QED BY <2>1
  <1>4. CASE Stepper
    <2>1. \A i \in Stored' : tasks'[i].created = i
      <3>1. ASSUME NEW i, MarkAsDispatched(Sched, i)
            PROVE  \A j \in Stored' : tasks'[j].created = j
        <4>1. i \in Stored /\ \A j \in Ids \ {i} : tasks'[j] = tasks[j]
          BY <3>1, MarkedSched DEF Scheduled, Stored
        <4>2. CoreMarkAsDispatched(i) /\ i \in Ids
          BY <3>1, <4>1 DEF MarkAsDispatched, Stored
        <4>3. tasks'[i].created = tasks[i].created
          BY <4>2, RepoTypes DEF CoreMarkAsDispatched, StepInv, Task
        <4> QED BY <1>2, <4>1, <4>3
      <3>2. ASSUME NEW i, NEW result, MarkAsDone(Sched, i, result)
            PROVE  \A j \in Stored' : tasks'[j].created = j
        <4>1. i \in Ids /\ \A j \in Ids \ {i} : tasks'[j] = tasks[j]
          BY <3>2, DoneSched
        <4>2. CoreMarkAsDone(i, result) /\ tasks[i].state = "dispatched"
          BY <3>2, MarkAsDoneNil DEF MarkAsDone, CoreMarkAsDone, StepInv
        <4>3. tasks'[i].created = tasks[i].created
          BY <4>1, <4>2, RepoTypes DEF CoreMarkAsDone, StepInv, Task
        <4>4. i \in Stored
          BY <4>1, <4>2 DEF Stored
        <4> QED BY <1>2, <4>1, <4>3, <4>4
      <3> QED BY <1>1, <1>4, <3>1, <3>2, StepperTasks
    <2>2. UNCHANGED count /\ \A b \in Clients : pend'[b] = pend[b]
      BY <1>4, StepperFrame
    <2> QED BY <1>3, <2>1, <2>2, SchedOwes DEF StampsOK, Owes
  <1>5. ASSUME NEW a \in Clients, Client(a) PROVE StampsOK'
    <2>1. a \in Actors /\ \A b \in Clients : b = a
      BY DEF Clients, NoneSpendsTimer
    <2>2. CASE AddTask(a)
      <3>1. UNCHANGED tasks /\ count' = count + 1
        BY <2>2 DEF AddTask, Stamp
      <3>2. pend'[a].id = count + 1
        BY <2>1, <2>2, RepoTypes DEF AddTask, Begin, StepInv
      <3> QED BY <1>1, <1>3, <2>1, <3>1, <3>2, SchedOwes DEF StampsOK, Owes
    <2>3. CASE AddTaskInsert(a)
      <3>1. /\ \A j \in Ids \ {pend[a].id} : tasks'[j] = tasks[j]
            /\ tasks'[pend[a].id].created = pend[a].id
            /\ pend' = [pend EXCEPT ![a] = [op |-> "AddTask", id |-> pend[a].id, param |-> pend[a].param]]
        BY <2>1, <2>3, InsertIsLast
      <3>2. ~Owes(a, "insert")'
        BY <2>1, <3>1, RepoTypes DEF Owes, StepInv
      <3>3. \A j \in Stored' : tasks'[j].created = j
        BY <3>1 DEF StampsOK, Stored
      <3> QED BY <1>3, <2>1, <3>2, <3>3, SchedOwes DEF StampsOK
    <2>4. CASE Cancel(a)
      <3>1. PICK i \in Scheduled :
               /\ tasks' = [tasks EXCEPT ![i].state = "cancelled",
                                         ![i].cancelledAt = TRUE]
               /\ Begin(a, "Cancel", i, NoParam)
        BY <2>4, CancelEffect
      <3>2. /\ i \in Stored /\ \A j \in Ids \ {i} : tasks'[j] = tasks[j]
            /\ tasks'[i].created = tasks[i].created
        BY <3>1, RepoTypes DEF StepInv, Task, Scheduled, Stored
      <3>3. ~Owes(a, "insert")'
        BY <2>1, <3>1, RepoTypes DEF Owes, Begin, StepInv
      <3> QED BY <1>2, <1>3, <2>1, <3>2, <3>3, SchedOwes DEF StampsOK
    <2>5. CASE StartTimer(a) \/ StopTimer(a)
      BY <1>1, <2>5, StartTimerTimer, StopTimerTimer DEF StampsOK, Owes
    <2>6. CASE Hook(a)
      <3>1. UNCHANGED <<tasks, count>> /\ pend'[a] = Idle
        BY <2>1, <2>6, HookTimer, HookKeeps DEF StepInv
      <3>2. ~Owes(a, "insert")'
        BY <3>1 DEF Idle, Owes
      <3> QED BY <1>1, <1>3, <2>1, <3>1, <3>2, SchedOwes DEF StampsOK
    <2> QED BY <1>5, <2>2, <2>3, <2>4, <2>5, <2>6
            DEF Client, ClientBegins, ClientEnds, Hook, NoneSpendsTimer
  <1>6. CASE UNCHANGED vars \/ Tick
    BY <1>1, <1>6 DEF vars, repoVars, Tick, StampsOK, Owes
  <1> QED BY <1>4, <1>5, <1>6
          DEF SchedNext, allVars, Work, WorkStart, WorkRefused, WorkEnd

LEMMA RearmsStays ==
  ASSUME UNCHANGED cachedMin, NEW b, pend'[b] = pend[b]
  PROVE  Rearms(b)' <=> Rearms(b)
  BY DEF Rearms, Owes

LEMMA OnlyClient ==
  ASSUME NoneSpendsTimer, NEW a \in Clients, ~Rearms(a)
  PROVE  ~Rearming
  BY DEF NoneSpendsTimer, Rearming

(* Arming the timer arms it for a time. *)
LEMMA ArmedHasTimer ==
  ASSUME StepInv, Armed
  PROVE  timer' # None
  <1>1. PICK i \in Firsts : timer' = tasks[i].sched
    BY DEF Armed
  <1>2. tasks[i].sched \in Times
    BY DEF Firsts, Scheduled, Stored, StepInv, RepoInv, IInv, StoredOK
  <1> QED BY <1>1, <1>2, NoneIsNoTime

LEMMA NextFirst ==
  ASSUME NoneSpendsTimer, StepInv, StepInv', StampsOK, CachedIsFirst,
         [SchedNext]_allVars
  PROVE  CachedIsFirst'
  <1> DEFINE m == cachedMin.id
             IsFirst == m \in Firsts /\ cachedMin = tasks[m]
  <1>1. ASSUME UNCHANGED tasks, Armed \/ Disarmed PROVE CachedIsFirst'
    <2>1. CASE Armed
      <3>1. cachedMin'.id \in Firsts /\ cachedMin' = tasks[cachedMin'.id]
        BY <1>1, <2>1, ArmedIsScheduled
      <3>2. Firsts' = Firsts
        BY <1>1 DEF Firsts, Scheduled
      <3> QED BY <1>1, <3>1, <3>2 DEF CachedIsFirst
    <2>2. CASE Disarmed
      BY <2>2 DEF Disarmed, CachedIsFirst
    <2> QED BY <1>1, <2>1, <2>2
  <1>2. ASSUME UNCHANGED <<cachedMin, timerReset>>,
               timerReset /\ IsFirst => IsFirst' \/ Rearming' \/ Rearms(Sched)',
               timerReset /\ Rearming => Rearming',
               timerReset /\ Rearms(Sched) => Rearms(Sched)'
        PROVE  CachedIsFirst'
    BY <1>2 DEF CachedIsFirst
  <1>3. UNCHANGED <<tasks, cachedMin>> => (IsFirst => IsFirst')
    BY DEF Firsts, Scheduled
  <1> HIDE DEF IsFirst
  <1>4. ASSUME UNCHANGED <<cachedMin, timerReset, tasks, pend>>
        PROVE  CachedIsFirst'
    <2>1. \A b : Rearms(b) => Rearms(b)'
      BY <1>4 DEF Rearms, Owes
    <2> QED BY <1>2, <1>3, <1>4, <2>1 DEF Rearming
  <1>5. ASSUME NEW a \in Actors, Hook(a) PROVE CachedIsFirst'
    <2>1. /\ UNCHANGED tasks /\ (Armed \/ Disarmed \/ LeftAlone)
          /\ timerReset /\ Rearms(a) => Armed \/ Disarmed
      BY <1>5, HookTimer
    <2>2. \A b \in Actors \ {a} : pend'[b] = pend[b]
      BY <1>5, HookKeeps DEF StepInv
    <2>3. CASE LeftAlone /\ ~(timerReset /\ Rearms(a))
      <3>1. UNCHANGED <<cachedMin, timerReset>>
        BY <2>3 DEF LeftAlone
      <3>2. \A b \in Actors \ {a} : Rearms(b) => Rearms(b)'
        BY <2>2, <3>1, RearmsStays
      <3>3. CASE a = Sched
        BY <1>2, <1>3, <2>1, <2>3, <3>1, <3>2, <3>3 DEF Rearming, Clients
      <3>4. CASE a \in Clients
        BY <1>2, <1>3, <2>1, <2>3, <3>1, <3>2, <3>4, OnlyClient,
           SchedulerAssumption DEF Clients
      <3> QED BY <1>5, <3>3, <3>4 DEF Clients
    <2> QED BY <1>1, <2>1, <2>3
  <1>6. ASSUME NEW a, StartTimer(a) \/ StopTimer(a) PROVE CachedIsFirst'
    BY <1>1, <1>6, StartTimerTimer, StopTimerTimer
  <1>7. ASSUME NEW i, MarkAsDispatched(Sched, i), LeftAlone
        PROVE  CachedIsFirst'
    <2>1. /\ IsIdle(Sched) /\ pend'[Sched].op = "MarkAsDispatched"
          /\ pend'[Sched].id = i /\ i \in Ids
          /\ \A b \in Clients : pend'[b] = pend[b]
          /\ tasks'[i].state = "dispatched"
          /\ \A j \in Ids \ {i} : tasks'[j] = tasks[j]
      BY <1>7, MarkAsDispatchedMoves, SchedulerAssumption
         DEF StepInv, Clients, Moves
    <2>2. UNCHANGED <<cachedMin, timerReset>>
      BY <1>7 DEF LeftAlone
    <2>3. ~Rearms(Sched)
      BY <2>1 DEF IsIdle, Idle, Owes, Rearms
    <2>4. \A b \in Clients : Rearms(b) => Rearms(b)'
      BY <2>1, <2>2, RearmsStays
    <2>5. IsFirst => IsFirst' \/ Rearms(Sched)'
      <3>1. CASE i = m
        BY <2>1, <2>2, <3>1 DEF Rearms, Owes
      <3>2. CASE i # m
        BY <2>1, <2>2, <3>2, LeaveKeepsFirst DEF IsFirst, Scheduled
      <3> QED BY <3>1, <3>2
    <2> QED BY <1>2, <2>2, <2>3, <2>4, <2>5 DEF Rearming
  <1>8. ASSUME NEW i, NEW result, MarkAsDone(Sched, i, result), LeftAlone,
               UNCHANGED pend
        PROVE  CachedIsFirst'
    <2>1. UNCHANGED <<cachedMin, timerReset>> /\ \A b : Rearms(b) => Rearms(b)'
      BY <1>8 DEF LeftAlone, Rearms, Owes
    <2>2. IsFirst => IsFirst'
      <3>1. /\ i \in Ids \ Scheduled /\ i \notin Scheduled'
            /\ \A j \in Ids \ {i} : tasks'[j] = tasks[j]
        BY <1>8, DoneSched
      <3> QED BY <2>1, <3>1, LeaveKeepsFirst DEF IsFirst, Firsts
    <2> QED BY <1>2, <2>1, <2>2 DEF Rearming
  <1>9. Receive => UNCHANGED <<cachedMin, timerReset, tasks, pend>>
    BY DEF Receive, TimerReceive, repoVars
  <1>10. CASE Stepper
    BY <1>4, <1>5, <1>6, <1>7, <1>8, <1>9, <1>10, StepperTimer,
       SchedulerAssumption DEF LeftAlone
  <1>11. ASSUME NEW a \in Clients, Client(a) PROVE CachedIsFirst'
    <2>1. a \in Actors /\ pend'[Sched] = pend[Sched]
      BY <1>11, ClientKeeps DEF Clients, StepInv
    <2>2. CASE Hook(a) \/ StartTimer(a) \/ StopTimer(a)
      BY <1>5, <1>6, <2>1, <2>2
    <2>3. ASSUME AddTask(a) \/ AddTaskInsert(a) \/ Cancel(a)
          PROVE  /\ UNCHANGED <<cachedMin, timerReset>> /\ ~Rearming
                 /\ Rearms(Sched) => Rearms(Sched)'
      <3>1. UNCHANGED <<cachedMin, timerReset>>
        BY <2>3 DEF AddTask, AddTaskInsert, Cancel, timerVars
      <3>2. ~Rearms(a)
        BY <2>3 DEF AddTask, AddTaskInsert, Cancel, IsIdle, Idle, Rearms, Owes
      <3> QED BY <2>1, <3>1, <3>2, OnlyClient, RearmsStays
    <2>4. CASE AddTask(a)
      <3>1. UNCHANGED tasks
        BY <2>4 DEF AddTask, Stamp
      <3> QED BY <1>2, <1>3, <2>3, <2>4, <3>1
    <2>5. CASE AddTaskInsert(a)
      <3>1. IsFirst => IsFirst' \/ Rearming'
        BY <2>3, <2>5, InsertKeepsFirst DEF IsFirst
      <3> QED BY <1>2, <2>3, <2>5, <3>1
    <2>6. CASE Cancel(a)
      <3>1. PICK i \in Scheduled :
               /\ tasks' = [tasks EXCEPT ![i].state = "cancelled",
                                         ![i].cancelledAt = TRUE]
               /\ Begin(a, "Cancel", i, NoParam)
        BY <2>6, CancelEffect
      <3>2. /\ i \in Ids /\ i \notin Scheduled'
            /\ \A j \in Ids \ {i} : tasks'[j] = tasks[j]
        BY <3>1, RepoTypes DEF StepInv, Task, Scheduled
      <3>3. pend'[a].op = "Cancel" /\ pend'[a].id = i
        BY <2>1, <3>1, RepoTypes DEF Begin, StepInv
      <3>4. IsFirst => IsFirst' \/ Rearming'
        <4>1. CASE i = m
          BY <2>3, <2>6, <3>3, <4>1 DEF Rearming, Rearms, Owes
        <4>2. CASE i # m
          BY <2>3, <2>6, <3>2, <4>2, LeaveKeepsFirst DEF IsFirst
        <4> QED BY <4>1, <4>2
      <3> QED BY <1>2, <2>3, <2>6, <3>4
    <2> QED BY <1>11, <2>2, <2>4, <2>5, <2>6
            DEF Client, ClientBegins, ClientEnds, Hook, NoneSpendsTimer
  <1>12. CASE UNCHANGED vars \/ Tick
    BY <1>4, <1>12 DEF vars, repoVars, timerVars, Tick
  <1> QED BY <1>10, <1>11, <1>12
          DEF SchedNext, allVars, Work, WorkStart, WorkRefused, WorkEnd

LEMMA NextRecovers ==
  ASSUME NoneSpendsTimer, StepInv, StepInv', RecoversFirst,
         [SchedNext]_allVars
  PROVE  RecoversFirst'
  <1>1. CASE UNCHANGED stepVars
    BY <1>1 DEF stepVars, RecoversFirst
  <1>2. CASE Stepper
    <2>1. NoError.s = "ok" /\ lastTask \in 0 .. MaxTasks
      BY NoErrorType, StepTypes
    <2>2. ASSUME Proceed PROVE RecoversFirst'
      BY <2>2 DEF Proceed, RecoversFirst
    <2>3. ASSUME Boot \/ Step \/ StepStopTimer \/ StepStartTimer \/ RetryTimer
          PROVE  RecoversFirst'
      BY <2>1, <2>2, <2>3
         DEF Boot, Step, StepStopTimer, StepStartTimer, RetryTimer, At, GoTo,
             RecoversFirst
    <2>4. ASSUME StepCheckTimer PROVE RecoversFirst'
      BY <2>1, <2>2, <2>4
         DEF StepCheckTimer, At, GoTo, Return, Returned, RecoversFirst
    <2>5. ASSUME StepGetNext \/ StepCompare PROVE RecoversFirst'
      BY <2>1, <2>5
         DEF StepGetNext, StepCompare, At, GoTo, Return, RecoversFirst
    <2>6. ASSUME \/ SelectCtxDone \/ SelectResult \/ SelectTimer
                 \/ DispatchCtxDone \/ Dispatch \/ DispatchMark
                 \/ DispatchMarkHook \/ DispatchFetch
          PROVE  /\ pc \notin {"idle", "stopTimer", "startTimer", "checkTimer"}
                 /\ UNCHANGED <<lastTask, getNextErr>>
      BY <2>6 DEF SelectCtxDone, SelectResult, SelectTimer, DispatchCtxDone,
                  Dispatch, DispatchMark, DispatchMarkHook, DispatchFetch, At
    <2>7. ASSUME RetryDispatch \/ RetryTaskDone
          PROVE  /\ prev.s \notin {"ok", "timerUpdateError"}
                 /\ UNCHANGED <<lastTask, getNextErr>>
      BY <2>7 DEF RetryDispatch, RetryTaskDone
    <2> QED BY <1>2, <2>3, <2>4, <2>5, <2>6, <2>7
            DEF Stepper, RecoversFirst
  <1> QED BY <1>1, <1>2
          DEF SchedNext, allVars, Work, WorkStart, WorkRefused, WorkEnd

(* While Step is between two calls of the repository, the timer was armed  *)
(* for the task that is first, unless a client's hook is still to come.    *)
LEMMA FirstIsCached ==
  ASSUME StepInv, CachedIsFirst, Spent, ~Rearming, ~At("markHook")
  PROVE  /\ cachedMin.id \in Firsts /\ cachedMin = tasks[cachedMin.id]
         /\ cachedMin.id \in Scheduled /\ cachedMin.id \in Stored
  BY SchedOwes DEF CachedIsFirst, Spent, Firsts, Scheduled, Stored

(* Step by itself, where it leaves the timer and what clients owe alone. *)
LEMMA StepperSpends ==
  ASSUME NoneSpendsTimer, StepInv, WakeInv, Stepper, LeftAlone, Spent,
         ~Rearming
  PROVE  \/ pc' \in {"stopTimer", "getNext"}
         \/ pc' = "idle" /\ (getNextErr' \/ lastTask' = cachedMin.id)
         \/ pc' = "compare" /\ next' = cachedMin
         \/ /\ pc' \in {"dispatch", "mark", "markHook"}
            /\ next'.id = cachedMin.id /\ ~isRetry'
  <1> DEFINE m == cachedMin.id
  <1>1. m # 0 /\ m \in 0 .. MaxTasks
    BY DEF Spent, StepInv, RepoInv, IInv, TimerAgrees, NoCachedMin, TypeOK,
           TimerTypeOK, Task
  <1>2. \/ pc \in {"stopTimer", "getNext"}
        \/ At("idle") /\ (getNextErr \/ lastTask = m)
        \/ At("compare") /\ next = cachedMin
        \/ /\ pc \in {"dispatch", "mark", "markHook"}
           /\ next.id = m /\ ~isRetry
    BY DEF WakeInv, SpentIsUsed
  <1>3. CASE At("idle")
    <2>1. getNextErr \/ lastTask = m
      BY <1>2, <1>3 DEF At
    <2>2. prev.s \in {"ok", "timerUpdateError"} /\ ~isRetry
      BY <1>1, <1>3, <2>1 DEF At, WakeInv, RecoversFirst, StepInv, StepOK
    <2>3. Step \/ RetryTimer
      BY <1>3, <2>2
         DEF Stepper, Boot, StepStopTimer, StepStartTimer, StepCheckTimer,
             SelectCtxDone, SelectResult, SelectTimer, StepGetNext,
             StepCompare, DispatchCtxDone, Dispatch, DispatchMark,
             DispatchMarkHook, DispatchFetch, RetryDispatch, RetryTaskDone, At
    <2>4. CASE RetryTimer
      BY <2>4 DEF RetryTimer, GoTo
    <2>5. CASE Step /\ (getNextErr \/ lastErr)
      BY <2>5 DEF Step, GoTo
    <2>6. CASE Step /\ ~(getNextErr \/ lastErr)
      <3>1. Proceed /\ lastTask = m
        BY <2>1, <2>6 DEF Step
      <3> QED BY <1>1, <2>2, <3>1, BlankTask DEF Proceed, GoTo
    <2> QED BY <2>3, <2>4, <2>5, <2>6
  <1>4. CASE At("stopTimer")
    <2>1. StepStopTimer
      BY <1>4
         DEF Stepper, Boot, Step, StepStartTimer, StepCheckTimer,
             SelectCtxDone, SelectResult, SelectTimer, StepGetNext,
             StepCompare, DispatchCtxDone, Dispatch, DispatchMark,
             DispatchMarkHook, DispatchFetch, RetryTimer, RetryDispatch,
             RetryTaskDone, At
    <2>2. Disarmed
      BY <2>1, StopTimerTimer DEF StepStopTimer
    <2> QED BY <2>2 DEF Disarmed, LeftAlone, Spent
  <1>5. CASE At("getNext")
    <2>1. StepGetNext
      BY <1>5
         DEF Stepper, Boot, Step, StepStopTimer, StepStartTimer,
             StepCheckTimer, SelectCtxDone, SelectResult, SelectTimer,
             StepCompare, DispatchCtxDone, Dispatch, DispatchMark,
             DispatchMarkHook, DispatchFetch, RetryTimer, RetryDispatch,
             RetryTaskDone, At
    <2>2. m \in Firsts /\ cachedMin = tasks[m]
      BY <1>5, FirstIsCached DEF At, WakeInv
    <2>3. ASSUME NEW i \in Firsts, GoTo("compare"), next' = tasks[i]
          PROVE  pc' = "compare" /\ next' = cachedMin
      <3>1. i = m
        BY <2>2, OneFirst DEF WakeInv
      <3> QED BY <2>2, <2>3, <3>1 DEF GoTo
    <2> QED BY <2>1, <2>3 DEF StepGetNext, Return, GoTo
  <1>6. CASE At("compare")
    <2>1. StepCompare
      BY <1>6
         DEF Stepper, Boot, Step, StepStopTimer, StepStartTimer,
             StepCheckTimer, SelectCtxDone, SelectResult, SelectTimer,
             StepGetNext, DispatchCtxDone, Dispatch, DispatchMark,
             DispatchMarkHook, DispatchFetch, RetryTimer, RetryDispatch,
             RetryTaskDone, At
    <2>2. next = cachedMin
      BY <1>2, <1>6 DEF At
    <2> QED BY <2>1, <2>2 DEF StepCompare, Return, GoTo, Spent
  <1>7. CASE At("dispatch")
    <2>1. Dispatch \/ DispatchCtxDone
      BY <1>7
         DEF Stepper, Boot, Step, StepStopTimer, StepStartTimer,
             StepCheckTimer, SelectCtxDone, SelectResult, SelectTimer,
             StepGetNext, StepCompare, DispatchMark,
             DispatchMarkHook, DispatchFetch, RetryTimer, RetryDispatch,
             RetryTaskDone, At
    <2>2. next.id = m /\ ~isRetry
      BY <1>2, <1>7 DEF At
    <2> QED BY <2>1, <2>2
            DEF Dispatch, DispatchCtxDone, GoTo, NoneSpendsTimer
  <1>8. CASE At("mark")
    <2>1. DispatchMark
      BY <1>8
         DEF Stepper, Boot, Step, StepStopTimer, StepStartTimer,
             StepCheckTimer, SelectCtxDone, SelectResult, SelectTimer,
             StepGetNext, StepCompare, DispatchCtxDone, Dispatch,
             DispatchMarkHook, DispatchFetch, RetryTimer, RetryDispatch,
             RetryTaskDone, At
    <2>2. next.id = m /\ ~isRetry
      BY <1>2, <1>8 DEF At
    <2>3. MutateErr(next.id) = ""
      BY <1>8, <2>2, FirstIsCached DEF MutateErr, At, WakeInv
    <2>4. ~CallEnds("CoreMarkAsDispatched")
      BY DEF NoneSpendsTimer, CallEnds, CallFails, Fails
    <2> QED BY <2>1, <2>2, <2>3, <2>4 DEF DispatchMark, GoTo
  <1>9. CASE At("markHook")
    <2>1. DispatchMarkHook
      BY <1>9
         DEF Stepper, Boot, Step, StepStopTimer, StepStartTimer,
             StepCheckTimer, SelectCtxDone, SelectResult, SelectTimer,
             StepGetNext, StepCompare, DispatchCtxDone, Dispatch,
             DispatchMark, DispatchFetch, RetryTimer, RetryDispatch,
             RetryTaskDone, At
    <2>2. Sched \in Actors /\ Hook(Sched) /\ Rearms(Sched) /\ timerReset
      BY <1>2, <1>9, <2>1, SchedulerAssumption
         DEF DispatchMarkHook, Hook, At, StepInv, StepOK, Rearms, Spent
    <2>3. Armed \/ Disarmed
      BY <2>2, HookTimer
    <2> QED BY <2>3, ArmedHasTimer DEF Disarmed, LeftAlone, Spent
  <1> QED BY <1>2, <1>3, <1>4, <1>5, <1>6, <1>7, <1>8, <1>9 DEF At

LEMMA NextSpent ==
  ASSUME NoneSpendsTimer, StepInv, StepInv', WakeInv, [SchedNext]_allVars
  PROVE  SpentIsUsed'
  <1>1. ASSUME Armed \/ Disarmed PROVE ~Spent'
    BY <1>1, ArmedHasTimer DEF Disarmed, Spent
  <1>2. LeftAlone => (Spent' <=> Spent) /\ UNCHANGED cachedMin
    BY DEF LeftAlone, Spent
  <1>3. ASSUME UNCHANGED stepVars, LeftAlone, Rearming => Rearming'
        PROVE  SpentIsUsed'
    BY <1>2, <1>3 DEF stepVars, At, WakeInv, SpentIsUsed
  <1>4. ASSUME UNCHANGED cachedMin, \A b \in Clients : pend'[b] = pend[b]
        PROVE  Rearming => Rearming'
    BY <1>4, RearmsStays DEF Rearming
  <1>5. CASE Stepper
    <2>1. \A b \in Clients : pend'[b] = pend[b]
      BY <1>5, StepperFrame
    <2>2. \/ Armed \/ Disarmed \/ LeftAlone
          \/ pc' = "getNext"
      <3>1. Sched \in Actors
        BY SchedulerAssumption
      <3> QED BY <1>5, <3>1, StepperTimer, HookTimer, StartTimerTimer,
                 StopTimerTimer
    <2>3. CASE LeftAlone
      BY <1>2, <1>4, <1>5, <2>1, <2>3, StepperSpends DEF SpentIsUsed, At
    <2> QED BY <1>1, <2>2, <2>3 DEF SpentIsUsed
  <1>6. ASSUME NEW a \in Clients, Client(a), UNCHANGED stepVars
        PROVE  SpentIsUsed'
    <2>1. a \in Actors
      BY DEF Clients
    <2>2. CASE StartTimer(a) \/ StopTimer(a)
      BY <1>1, <2>2, StartTimerTimer, StopTimerTimer DEF SpentIsUsed
    <2>3. CASE Hook(a)
      <3>1. /\ Armed \/ Disarmed \/ LeftAlone
            /\ timerReset /\ Rearms(a) => Armed \/ Disarmed
        BY <2>1, <2>3, HookTimer
      <3>2. CASE LeftAlone /\ ~(timerReset /\ Rearms(a))
        <4>1. CASE Rearms(a)
          BY <1>2, <3>2, <4>1 DEF SpentIsUsed, Spent, LeftAlone
        <4>2. CASE ~Rearms(a)
          BY <1>3, <1>6, <3>2, <4>2, OnlyClient
        <4> QED BY <4>1, <4>2
      <3> QED BY <1>1, <3>1, <3>2 DEF SpentIsUsed
    <2>4. CASE AddTask(a) \/ AddTaskInsert(a) \/ Cancel(a)
      <3>1. LeftAlone
        BY <2>4 DEF AddTask, AddTaskInsert, Cancel, timerVars, LeftAlone
      <3>2. ~Rearms(a)
        BY <2>4 DEF AddTask, AddTaskInsert, Cancel, IsIdle, Idle, Rearms, Owes
      <3> QED BY <1>3, <1>6, <3>1, <3>2, OnlyClient
    <2> QED BY <1>6, <2>2, <2>3, <2>4
            DEF Client, ClientBegins, ClientEnds, Hook, NoneSpendsTimer
  <1>7. ASSUME UNCHANGED vars \/ Tick, UNCHANGED stepVars PROVE SpentIsUsed'
    <2>1. LeftAlone /\ UNCHANGED pend
      BY <1>7 DEF vars, timerVars, Tick, LeftAlone
    <2> QED BY <1>3, <1>4, <1>7, <2>1 DEF LeftAlone
  <1> QED BY <1>5, <1>6, <1>7
          DEF SchedNext, allVars, Work, WorkStart, WorkRefused, WorkEnd

LEMMA AlwaysWakeInv == ASSUME NoneSpendsTimer PROVE SchedSpec => []WakeInv
  <1>1. SchedInit => WakeInv
    <2> SUFFICES ASSUME SchedInit PROVE WakeInv
      OBVIOUS
    <2>1. /\ timerReset = FALSE /\ getNextErr = FALSE /\ lastTask = 0
          /\ \A i \in Ids : tasks[i].state = "absent"
          /\ \A a \in Actors : pend[a].op = "none"
      BY DEF SchedInit, Init, RepositoryInit, TimerInit, Idle, NoTask
    <2> QED BY <2>1 DEF WakeInv, StampsOK, CachedIsFirst, RecoversFirst,
                        SpentIsUsed, Spent, Stored, Owes
  <1>2. StepInv /\ StepInv' /\ WakeInv /\ [SchedNext]_allVars => WakeInv'
    BY NextStamps, NextFirst, NextRecovers, NextSpent DEF WakeInv
  <1> QED BY <1>1, <1>2, AlwaysStepInv, PTL DEF SchedSpec

(* Step does not wait for a timer nobody will arm: when it waits and the   *)
(* client is not inside a call, a scheduled task means an armed timer,     *)
(* whatever the client did since, and whichever of Step's GetNext,         *)
(* StartTimer, GetById and MarkAsDone, or of its hook, failed before.      *)
THEOREM NoWakeupLost ==
  ASSUME NoneSpendsTimer
  PROVE  SchedSpec => []NoLostWakeup
  <1>1. StepInv /\ WakeInv => NoLostWakeup
    <2> SUFFICES ASSUME StepInv, WakeInv, At("select"), isTimerStarted,
                        ~lastErr, \A a \in Clients : IsIdle(a),
                        NEW i \in Scheduled, timer = None
                 PROVE  FALSE
      BY DEF NoLostWakeup
    <2>1. \A a \in Actors : IsIdle(a)
      BY IdleSched DEF At, Clients
    <2>2. ~Rearming /\ \A a \in Actors : ~Owes(a, "AddTask")
      BY <2>1 DEF Rearming, Rearms, IsIdle, Idle, Owes, Clients
    <2>3. ~Spent
      BY <2>2 DEF WakeInv, SpentIsUsed, At
    <2>4. NoCachedMin
      BY <2>3 DEF Spent, StepInv, RepoInv, IInv, TimerAgrees
    <2> QED BY <2>2, <2>4 DEF StepInv, RepoInv, IInv, NothingForgotten
  <1> QED BY <1>1, AlwaysStepInv, AlwaysWakeInv, PTL
=============================================================================
