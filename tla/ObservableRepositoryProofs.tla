---------------------- MODULE ObservableRepositoryProofs --------------------
(***************************************************************************)
(* Proofs about ObservableRepository, for every number of tasks, actors,   *)
(* priorities, ticks and failures:                                         *)
(*                                                                         *)
(*   TypeCorrect      Spec => []TypeOK                                     *)
(*   TimerConsistent  Spec => []TimerAgrees                                *)
(*   TimerNeverLate   Spec => []NeverLate                                  *)
(*   TimerForgetsNone Spec => []NothingForgotten                           *)
(*                                                                         *)
(* All four follow from one inductive invariant, IInv.  What it adds: a    *)
(* stored task carries its own id and a scheduled time, so a timer armed   *)
(* for a task is armed for a time and is told from an idle one by its id   *)
(* alone; and a pending AddTask carries a scheduled time.                  *)
(***************************************************************************)
EXTENDS ObservableRepository, TasksProofs

StoredOK == \A i \in Stored : tasks[i].id = i /\ tasks[i].sched \in Times

PendOK ==
    \A a \in Actors :
        /\ pend[a].op # "none" => pend[a].id \in Ids
        /\ pend[a].op \in {"insert", "AddTask"} => pend[a].param.sched # None

IInv ==
    /\ TypeOK
    /\ StoredOK
    /\ PendOK
    /\ TimerAgrees
    /\ NeverLate
    /\ NothingForgotten

(* What an update establishes, whatever was true before. *)
Exact ==
    isTimerStarted =>
        /\ ~NoCachedMin =>
              \A i \in Scheduled : ~(tasks[i].sched < cachedMin.sched)
        /\ NoCachedMin /\ ~lastErr => Scheduled = {}

-----------------------------------------------------------------------------
(* Lemmas about the state. *)

LEMMA IdleType == Idle \in Pending
  BY TasksAssumption DEF Idle, Pending, NoParam, UpdateParam, Option

(* A first task is not due after any other scheduled task. *)
LEMMA FirstIsEarliest ==
  ASSUME NEW i \in Firsts, NEW j \in Scheduled
  PROVE  i \in Scheduled /\ ~(tasks[j].sched < tasks[i].sched)
  BY DEF Firsts, Less

-----------------------------------------------------------------------------
(* The timer operators. *)

(* Whatever the repository looks like when update runs, the timer agrees   *)
(* with it afterwards, or is off because of an error.                      *)
LEMMA UpdateIsExact ==
  ASSUME TypeOK, StoredOK, TimerAgrees,
         NEW started \in BOOLEAN, NEW site,
         isTimerStarted => started,
         isTimerStarted' = started,
         update(started, site),
         UNCHANGED tasks
  PROVE  TimerTypeOK' /\ TimerAgrees' /\ Exact'
  <1>1. CASE ~started
    <2>1. ~isTimerStarted /\ ~isTimerStarted'
      BY <1>1
    <2>2. lastErr' = FALSE /\ UNCHANGED <<cachedMin, timerReset, timer, faults>>
      BY <1>1 DEF update
    <2>3. TimerTypeOK'
      BY <2>1, <2>2 DEF TypeOK, TimerTypeOK
    <2>4. TimerAgrees'
      BY <2>1, <2>2 DEF TimerAgrees, NoCachedMin
    <2>5. Exact'
      BY <2>1 DEF Exact
    <2> QED BY <2>3, <2>4, <2>5
  <1>2. CASE started /\ ArmForNext
    <2>1. PICK i \in Firsts : cachedMin' = tasks[i] /\ timer' = tasks[i].sched
      BY <1>2 DEF ArmForNext
    <2>2. i \in Scheduled /\ \A j \in Scheduled :
                                ~(tasks[j].sched < tasks[i].sched)
      BY FirstIsEarliest DEF Firsts
    <2>3. i \in Stored /\ i \in Ids
      BY <2>2 DEF Scheduled, Stored
    <2>4. /\ tasks[i] \in Task
          /\ tasks[i].id = i
          /\ tasks[i].sched \in Times
          /\ i # 0
      BY <2>3 DEF TypeOK, RepositoryTypeOK, StoredOK, Ids
    <2>5. TimerTypeOK'
      BY <1>2, <2>1, <2>4 DEF ArmForNext, TypeOK, TimerTypeOK, Option
    <2>6. TimerAgrees'
      BY <1>2, <2>1, <2>4 DEF ArmForNext, TimerAgrees, NoCachedMin
    <2>7. Exact'
      BY <2>1, <2>2, <2>4 DEF Exact, NoCachedMin, Scheduled
    <2> QED BY <2>5, <2>6, <2>7
  <1>3. CASE started /\ DisarmExhausted
    <2>1. TimerTypeOK'
      BY <1>3, NoTaskType DEF DisarmExhausted, TypeOK, TimerTypeOK, Option
    <2>2. TimerAgrees' /\ Exact'
      BY <1>3 DEF DisarmExhausted, TimerAgrees, NoCachedMin, NoTask, Exact,
                  Scheduled
    <2> QED BY <2>1, <2>2
  <1>4. CASE started /\ DisarmOnError(site)
    <2>1. faults' \in 0 .. MaxFaults
      BY <1>4, FaultsAssumption DEF DisarmOnError, Fails, TypeOK, TimerTypeOK
    <2>2. TimerTypeOK'
      BY <1>4, <2>1, NoTaskType DEF DisarmOnError, TypeOK, TimerTypeOK, Option
    <2>3. TimerAgrees' /\ Exact'
      BY <1>4 DEF DisarmOnError, TimerAgrees, NoCachedMin, NoTask, Exact
    <2> QED BY <2>2, <2>3
  <1> QED BY <1>1, <1>2, <1>3, <1>4 DEF update

(* An exact timer is never late and forgets nothing. *)
LEMMA ExactSuffices == Exact' => NeverLate' /\ NothingForgotten'
  BY DEF Exact, NeverLate, NothingForgotten

(* A hook either updates the timer or finds its condition false. *)
LEMMA UpdateIf ==
  ASSUME IInv, NEW cond \in BOOLEAN, NEW site, updateIf(cond, site),
         UNCHANGED tasks
  PROVE  \/ TimerTypeOK' /\ TimerAgrees' /\ NeverLate' /\ NothingForgotten'
         \/ ~cond /\ NoUpdate /\ TimerTypeOK' /\ TimerAgrees'
  <1>1. CASE cond
    <2>1. isTimerStarted \in BOOLEAN
      BY DEF IInv, TypeOK, TimerTypeOK
    <2>2. update(isTimerStarted, site) /\ isTimerStarted' = isTimerStarted
      BY <1>1 DEF updateIf
    <2>3. TimerTypeOK' /\ TimerAgrees' /\ Exact'
      BY <2>1, <2>2, UpdateIsExact DEF IInv
    <2> QED BY <2>3, ExactSuffices
  <1>2. CASE ~cond
    BY <1>2 DEF updateIf, NoUpdate, timerVars, IInv, TypeOK, TimerTypeOK,
                TimerAgrees, NoCachedMin
  <1> QED BY <1>1, <1>2

-----------------------------------------------------------------------------
(* The core part of an operation. *)

(* The actor begins to owe something; the rest of pend stays.              *)
LEMMA BeginType ==
  ASSUME IInv, NEW a \in Actors, NEW op \in Ops, NEW i \in Ids,
         NEW p \in UpdateParam, Begin(a, op, i, p),
         op \in {"insert", "AddTask"} => p.sched # None
  PROVE  /\ pend' \in [Actors -> Pending]
         /\ PendOK'
         /\ pend'[a] = [op |-> op, id |-> i, param |-> p]
         /\ \A b \in Actors \ {a} : pend'[b] = pend[b]
  <1>1. pend \in [Actors -> Pending] /\ PendOK
    BY DEF IInv, TypeOK
  <1>2. i \in 0 .. MaxTasks
    BY TasksAssumption DEF Ids
  <1>3. [op |-> op, id |-> i, param |-> p] \in Pending
    BY <1>2 DEF Pending
  <1>4. /\ pend' \in [Actors -> Pending]
        /\ pend'[a] = [op |-> op, id |-> i, param |-> p]
        /\ \A b \in Actors \ {a} : pend'[b] = pend[b]
    BY <1>1, <1>3 DEF Begin
  <1>5. PendOK'
    <2> SUFFICES ASSUME NEW b \in Actors
                 PROVE  /\ pend'[b].op # "none" => pend'[b].id \in Ids
                        /\ pend'[b].op \in {"insert", "AddTask"} =>
                              pend'[b].param.sched # None
      BY DEF PendOK
    <2>1. CASE b = a
      BY <1>4, <2>1
    <2>2. CASE b # a
      BY <1>1, <1>4, <2>2 DEF PendOK
    <2> QED BY <2>1, <2>2
  <1> QED BY <1>4, <1>5

(* The timer and the clock stand still while the core of the repository    *)
(* changes one task, which then keeps its scheduled time or is no longer   *)
(* scheduled; the actor owes nothing before.                               *)
LEMMA CoreStep ==
  ASSUME IInv, NEW a \in Actors, IsIdle(a),
         \A b \in Actors \ {a} : pend'[b] = pend[b],
         UNCHANGED timerVars,
         \A k \in Scheduled' :
            k \in Scheduled /\ tasks'[k].sched = tasks[k].sched
  PROVE  TimerAgrees' /\ NeverLate' /\ NothingForgotten'
  <1>1. TimerAgrees' /\ NoCachedMin' = NoCachedMin
    BY DEF IInv, TimerAgrees, NoCachedMin, timerVars
  <1>2. \A b \in Actors : pend[b].op # "none" => b # a
    BY DEF IsIdle, Idle
  <1>3. NeverLate'
    <2> SUFFICES ASSUME isTimerStarted', ~NoCachedMin',
                        NEW k \in Scheduled',
                        tasks'[k].sched < cachedMin'.sched
                 PROVE  Announced(k)'
      BY DEF NeverLate
    <2>1. Announced(k)
      BY <1>1 DEF IInv, NeverLate, timerVars
    <2>2. PICK b \in Actors : /\ pend[b].param.sched = tasks[k].sched
                              /\ \/ Owes(b, "AddTask")
                                 \/ Owes(b, "UpdateById") /\ pend[b].id = k
      BY <2>1 DEF Announced
    <2>3. pend'[b] = pend[b]
      BY <1>2, <2>2 DEF Owes
    <2> QED BY <2>2, <2>3 DEF Announced, Owes
  <1>4. NothingForgotten'
    <2> SUFFICES ASSUME isTimerStarted', NoCachedMin', ~lastErr',
                        NEW k \in Scheduled'
                 PROVE  \E b \in Actors : Owes(b, "AddTask")' /\ pend'[b].id = k
      BY DEF NothingForgotten
    <2>1. PICK b \in Actors : Owes(b, "AddTask") /\ pend[b].id = k
      BY <1>1 DEF IInv, NothingForgotten, timerVars
    <2>2. pend'[b] = pend[b]
      BY <1>2, <2>1 DEF Owes
    <2> QED BY <2>1, <2>2 DEF Owes
  <1> QED BY <1>1, <1>3, <1>4

(* One stored task is replaced by a task with the same id and time.        *)
LEMMA ReplaceTask ==
  ASSUME IInv, NEW i \in Stored, NEW t \in Task,
         t.id = tasks[i].id, t.state # "absent",
         t.sched \in Times,
         tasks' = [tasks EXCEPT ![i] = t]
  PROVE  /\ tasks' \in [Ids -> Task]
         /\ StoredOK'
         /\ tasks'[i] = t
         /\ \A k \in Ids \ {i} : tasks'[k] = tasks[k]
  <1>1. i \in Ids /\ tasks \in [Ids -> Task]
    BY DEF IInv, TypeOK, RepositoryTypeOK, Stored
  <1>2. /\ tasks' \in [Ids -> Task]
        /\ tasks'[i] = t
        /\ \A k \in Ids \ {i} : tasks'[k] = tasks[k]
    BY <1>1
  <1>3. \A k \in Stored' : tasks'[k].id = k /\ tasks'[k].sched \in Times
    BY <1>1, <1>2 DEF IInv, StoredOK, Stored
  <1> QED BY <1>2, <1>3 DEF StoredOK

(* The three operations that end a state: the task leaves the scheduled    *)
(* tasks or was none of them.                                              *)
LEMMA LeaveState ==
  ASSUME IInv, NEW i \in Stored, NEW t \in Task,
         t.id = tasks[i].id, t.sched = tasks[i].sched,
         t.state \in States \ {"scheduled"},
         tasks' = [tasks EXCEPT ![i] = t] \/ tasks' = tasks
  PROVE  /\ tasks' \in [Ids -> Task]
         /\ StoredOK'
         /\ \A k \in Scheduled' :
               k \in Scheduled /\ tasks'[k].sched = tasks[k].sched
  <1>1. CASE tasks' = [tasks EXCEPT ![i] = t]
    <2>1. t.state # "absent" /\ t.sched \in Times
      BY DEF States, IInv, StoredOK
    <2>2. /\ tasks' \in [Ids -> Task]
          /\ StoredOK'
          /\ tasks'[i] = t
          /\ \A k \in Ids \ {i} : tasks'[k] = tasks[k]
      BY <1>1, <2>1, ReplaceTask
    <2> QED BY <2>2 DEF Scheduled
  <1>2. CASE tasks' = tasks
    BY <1>2 DEF IInv, TypeOK, RepositoryTypeOK, StoredOK, Stored, Scheduled
  <1> QED BY <1>1, <1>2

LEMMA CancelCore ==
  ASSUME IInv, NEW i \in Ids, CoreCancel(i)
  PROVE  /\ RepositoryTypeOK' /\ StoredOK'
         /\ \A k \in Scheduled' :
               k \in Scheduled /\ tasks'[k].sched = tasks[k].sched
  <1> DEFINE t == [tasks[i] EXCEPT !.state = "cancelled",
                                   !.cancelledAt = TRUE]
  <1>1. i \in Stored
    BY DEF CoreCancel, MutateErr
  <1>2. tasks[i] \in Task
    BY DEF IInv, TypeOK, RepositoryTypeOK
  <1>3. /\ t \in Task /\ t.id = tasks[i].id /\ t.sched = tasks[i].sched
        /\ t.state \in States \ {"scheduled"}
    BY <1>2 DEF Task, States
  <1>4. tasks' = [tasks EXCEPT ![i] = t] \/ tasks' = tasks
    BY DEF CoreCancel
  <1> QED BY <1>1, <1>3, <1>4, LeaveState
          DEF CoreCancel, RepositoryTypeOK, IInv, TypeOK

LEMMA MarkAsDispatchedCore ==
  ASSUME IInv, NEW i \in Ids, CoreMarkAsDispatched(i)
  PROVE  /\ RepositoryTypeOK' /\ StoredOK'
         /\ \A k \in Scheduled' :
               k \in Scheduled /\ tasks'[k].sched = tasks[k].sched
  <1> DEFINE t == [tasks[i] EXCEPT !.state = "dispatched",
                                   !.dispatchedAt = TRUE]
  <1>1. i \in Stored
    BY DEF CoreMarkAsDispatched, MutateErr
  <1>2. tasks[i] \in Task
    BY DEF IInv, TypeOK, RepositoryTypeOK
  <1>3. /\ t \in Task /\ t.id = tasks[i].id /\ t.sched = tasks[i].sched
        /\ t.state \in States \ {"scheduled"}
    BY <1>2 DEF Task, States
  <1>4. tasks' = [tasks EXCEPT ![i] = t] \/ tasks' = tasks
    BY DEF CoreMarkAsDispatched
  <1> QED BY <1>1, <1>3, <1>4, LeaveState
          DEF CoreMarkAsDispatched, RepositoryTypeOK, IInv, TypeOK

LEMMA MarkAsDoneCore ==
  ASSUME IInv, NEW i \in Ids, NEW result, CoreMarkAsDone(i, result)
  PROVE  /\ RepositoryTypeOK' /\ StoredOK'
         /\ \A k \in Scheduled' :
               k \in Scheduled /\ tasks'[k].sched = tasks[k].sched
  <1> DEFINE t == [tasks[i] EXCEPT
                     !.state = IF result = "nil" THEN "done" ELSE "err",
                     !.doneAt = TRUE]
  <1>1. i \in Stored
    BY DEF CoreMarkAsDone, MarkAsDoneErr
  <1>2. tasks[i] \in Task
    BY DEF IInv, TypeOK, RepositoryTypeOK
  <1>3. /\ t \in Task /\ t.id = tasks[i].id /\ t.sched = tasks[i].sched
        /\ t.state \in States \ {"scheduled"}
    BY <1>2 DEF Task, States
  <1>4. tasks' = [tasks EXCEPT ![i] = t] \/ tasks' = tasks
    BY DEF CoreMarkAsDone
  <1> HIDE DEF t
  <1>5. /\ tasks' \in [Ids -> Task] /\ StoredOK'
        /\ \A k \in Scheduled' :
              k \in Scheduled /\ tasks'[k].sched = tasks[k].sched
    BY <1>1, <1>3, <1>4, LeaveState
  <1> QED BY <1>5 DEF CoreMarkAsDone, RepositoryTypeOK, IInv, TypeOK

-----------------------------------------------------------------------------
(* One lemma per action: it preserves the inductive invariant.             *)

LEMMA NoParamType == NoParam \in UpdateParam
  BY DEF NoParam, UpdateParam, Option

LEMMA CancelStep ==
  ASSUME IInv, NEW a \in Actors, Cancel(a)
  PROVE  IInv'
  <1>1. PICK i \in Ids : CoreCancel(i) /\ Begin(a, "Cancel", i, NoParam)
    BY DEF Cancel
  <1>2. IsIdle(a) /\ UNCHANGED <<timerVars, faults, now>>
    BY DEF Cancel
  <1>3. RepositoryTypeOK' /\ StoredOK'
    BY <1>1, CancelCore
  <1>4. /\ pend' \in [Actors -> Pending]
        /\ PendOK'
        /\ \A b \in Actors \ {a} : pend'[b] = pend[b]
    BY <1>1, BeginType, NoParamType DEF Ops
  <1>5. TimerAgrees' /\ NeverLate' /\ NothingForgotten'
    BY <1>1, <1>2, <1>4, CancelCore, CoreStep
  <1>6. TypeOK'
    BY <1>2, <1>3, <1>4 DEF IInv, TypeOK, TimerTypeOK, timerVars
  <1> QED BY <1>3, <1>4, <1>5, <1>6 DEF IInv

LEMMA MarkAsDispatchedStep ==
  ASSUME IInv, NEW a \in Actors, NEW i \in Ids, MarkAsDispatched(a, i)
  PROVE  IInv'
  <1>1. CoreMarkAsDispatched(i) /\ Begin(a, "MarkAsDispatched", i, NoParam)
    BY DEF MarkAsDispatched
  <1>2. IsIdle(a) /\ UNCHANGED <<timerVars, faults, now>>
    BY DEF MarkAsDispatched
  <1>3. RepositoryTypeOK' /\ StoredOK'
    BY <1>1, MarkAsDispatchedCore
  <1>4. /\ pend' \in [Actors -> Pending]
        /\ PendOK'
        /\ \A b \in Actors \ {a} : pend'[b] = pend[b]
    BY <1>1, BeginType, NoParamType DEF Ops
  <1>5. TimerAgrees' /\ NeverLate' /\ NothingForgotten'
    BY <1>1, <1>2, <1>4, MarkAsDispatchedCore, CoreStep
  <1>6. TypeOK'
    BY <1>2, <1>3, <1>4 DEF IInv, TypeOK, TimerTypeOK, timerVars
  <1> QED BY <1>3, <1>4, <1>5, <1>6 DEF IInv

LEMMA MarkAsDoneStep ==
  ASSUME IInv, NEW a \in Actors, NEW i \in Ids, NEW result,
         MarkAsDone(a, i, result)
  PROVE  IInv'
  <1>1. CoreMarkAsDone(i, result) /\ IsIdle(a)
    BY DEF MarkAsDone
  <1>2. UNCHANGED <<timerVars, faults, pend, now>>
    BY DEF MarkAsDone
  <1>3. RepositoryTypeOK' /\ StoredOK'
    BY <1>1, MarkAsDoneCore
  <1>4. TimerAgrees' /\ NeverLate' /\ NothingForgotten'
    BY <1>1, <1>2, MarkAsDoneCore, CoreStep
  <1>5. TypeOK' /\ PendOK'
    BY <1>2, <1>3 DEF IInv, TypeOK, TimerTypeOK, timerVars, PendOK
  <1> QED BY <1>3, <1>4, <1>5 DEF IInv

LEMMA AddTaskStep ==
  ASSUME IInv, NEW a \in Actors, AddTask(a)
  PROVE  IInv'
  <1>1. PICK p \in AddParam : Begin(a, "insert", count + 1, p)
    BY DEF AddTask
  <1>2. /\ IsIdle(a) /\ count < MaxTasks /\ count' = count + 1
        /\ UNCHANGED <<tasks, timerVars, faults, now>>
    BY DEF AddTask, Stamp
  <1>3. count \in 0 .. MaxTasks
    BY DEF IInv, TypeOK, RepositoryTypeOK
  <1>4. count + 1 \in Ids /\ count' \in 0 .. MaxTasks
    BY <1>2, <1>3, TasksAssumption DEF Ids
  <1>5. p \in UpdateParam /\ p.sched # None
    BY DEF AddParam
  <1>6. /\ pend' \in [Actors -> Pending]
        /\ PendOK'
        /\ \A b \in Actors \ {a} : pend'[b] = pend[b]
    BY <1>1, <1>4, <1>5, BeginType DEF Ops
  <1>7. TypeOK' /\ StoredOK'
    BY <1>2, <1>4, <1>6
       DEF IInv, TypeOK, RepositoryTypeOK, TimerTypeOK, timerVars, StoredOK,
           Stored
  <1>8. \A k \in Scheduled' : k \in Scheduled /\ tasks'[k].sched = tasks[k].sched
    BY <1>2 DEF Scheduled
  <1>9. TimerAgrees' /\ NeverLate' /\ NothingForgotten'
    BY <1>2, <1>6, <1>8, CoreStep
  <1> QED BY <1>6, <1>7, <1>9 DEF IInv

(* The new task is announced by the hook its own AddTask now owes.         *)
LEMMA AddTaskInsertStep ==
  ASSUME IInv, NEW a \in Actors, AddTaskInsert(a)
  PROVE  IInv'
  <1> DEFINE i == pend[a].id
             p == pend[a].param
             t == ToTask(p, i, i)
  <1>1. /\ tasks' = [tasks EXCEPT ![i] = t] /\ UNCHANGED count
        /\ Begin(a, "AddTask", i, p)
        /\ UNCHANGED <<timerVars, faults, now>>
        /\ Owes(a, "insert")
    BY DEF AddTaskInsert, Insert
  <1>2. /\ pend \in [Actors -> Pending] /\ i \in Ids /\ p \in UpdateParam
        /\ p.sched # None
    BY <1>1 DEF IInv, TypeOK, PendOK, Owes, Pending
  <1>3. p.sched \in Times
    BY <1>2 DEF UpdateParam, Option
  <1>4. i \in 0 .. MaxTasks /\ i \in 0 .. FarFuture
    BY <1>2, TasksAssumption DEF Ids, FarFuture
  <1>5. /\ t \in Task /\ t.id = i /\ t.state = "scheduled"
        /\ t.sched = p.sched
    BY <1>2, <1>4, ToTaskType DEF OrElse
  <1> HIDE DEF i, p, t
  <1>6. tasks \in [Ids -> Task]
    BY DEF IInv, TypeOK, RepositoryTypeOK
  <1>7. /\ tasks' \in [Ids -> Task]
        /\ tasks'[i] = t
        /\ \A k \in Ids \ {i} : tasks'[k] = tasks[k]
    BY <1>1, <1>2, <1>5, <1>6
  <1>8. StoredOK'
    BY <1>3, <1>5, <1>7 DEF IInv, StoredOK, Stored
  <1>9. /\ pend' \in [Actors -> Pending]
        /\ PendOK'
        /\ pend'[a] = [op |-> "AddTask", id |-> i, param |-> p]
        /\ \A b \in Actors \ {a} : pend'[b] = pend[b]
    BY <1>1, <1>2, BeginType DEF Ops
  <1>10. TypeOK'
    BY <1>1, <1>7, <1>9
       DEF IInv, TypeOK, RepositoryTypeOK, TimerTypeOK, timerVars
  <1>11. TimerAgrees' /\ NoCachedMin' = NoCachedMin
    BY <1>1 DEF IInv, TimerAgrees, NoCachedMin, timerVars
  <1>12. \A b \in Actors : Owes(b, "AddTask") \/ Owes(b, "UpdateById")
                              => b # a
    BY <1>1 DEF Owes
  <1>13. NeverLate'
    <2> SUFFICES ASSUME isTimerStarted', ~NoCachedMin',
                        NEW k \in Scheduled',
                        tasks'[k].sched < cachedMin'.sched
                 PROVE  Announced(k)'
      BY DEF NeverLate
    <2>1. CASE k = i
      BY <2>1, <1>5, <1>7, <1>9 DEF Announced, Owes
    <2>2. CASE k # i
      <3>1. k \in Scheduled /\ tasks'[k] = tasks[k]
        BY <2>2, <1>7 DEF Scheduled
      <3>2. Announced(k)
        BY <3>1, <1>1, <1>11 DEF IInv, NeverLate, timerVars
      <3> QED BY <3>1, <3>2, <1>9, <1>12 DEF Announced, Owes
    <2> QED BY <2>1, <2>2
  <1>14. NothingForgotten'
    <2> SUFFICES ASSUME isTimerStarted', NoCachedMin', ~lastErr',
                        NEW k \in Scheduled'
                 PROVE  \E b \in Actors : Owes(b, "AddTask")' /\ pend'[b].id = k
      BY DEF NothingForgotten
    <2>1. CASE k = i
      BY <2>1, <1>9 DEF Owes
    <2>2. CASE k # i
      <3>1. k \in Scheduled
        BY <2>2, <1>7 DEF Scheduled
      <3>2. PICK b \in Actors : Owes(b, "AddTask") /\ pend[b].id = k
        BY <3>1, <1>1, <1>11 DEF IInv, NothingForgotten, timerVars
      <3> QED BY <3>2, <1>9, <1>12 DEF Owes
    <2> QED BY <2>1, <2>2
  <1> QED BY <1>8, <1>9, <1>10, <1>11, <1>13, <1>14 DEF IInv

(* The updated task is announced with the time it now has, if that is new. *)
LEMMA UpdateByIdStep ==
  ASSUME IInv, NEW a \in Actors, UpdateById(a)
  PROVE  IInv'
  <1>1. PICK i \in Ids, p \in UpdateParam :
             CoreUpdateById(i, p) /\ Begin(a, "UpdateById", i, p)
    BY DEF UpdateById
  <1>2. IsIdle(a) /\ UNCHANGED <<timerVars, faults, now>>
    BY DEF UpdateById
  <1> DEFINE t == Update(tasks[i], p)
  <1>3. i \in Stored /\ UNCHANGED count
    BY <1>1 DEF CoreUpdateById, MutateErr
  <1>4. tasks[i] \in Task /\ tasks[i].sched \in Times
    BY <1>3 DEF IInv, TypeOK, RepositoryTypeOK, StoredOK
  <1>5. /\ t \in Task /\ t.id = tasks[i].id /\ t.state = tasks[i].state
        /\ t.sched = OrElse(p.sched, tasks[i].sched)
        /\ t.sched \in Times
    BY <1>4, UpdateType
  <1> HIDE DEF t
  <1>6. /\ tasks' \in [Ids -> Task]
        /\ StoredOK'
        /\ tasks'[i].state = tasks[i].state
        /\ tasks'[i].sched \in {tasks[i].sched, p.sched}
        /\ \A k \in Ids \ {i} : tasks'[k] = tasks[k]
    <2>1. CASE tasks' = [tasks EXCEPT ![i] = t]
      <3>1. t.state # "absent"
        BY <1>3, <1>5 DEF Stored
      <3>2. /\ tasks' \in [Ids -> Task] /\ StoredOK' /\ tasks'[i] = t
            /\ \A k \in Ids \ {i} : tasks'[k] = tasks[k]
        BY <1>3, <1>5, <2>1, <3>1, ReplaceTask
      <3> QED BY <1>5, <3>2 DEF OrElse
    <2>2. CASE tasks' = tasks
      BY <2>2 DEF IInv, TypeOK, RepositoryTypeOK, StoredOK, Stored
    <2>3. tasks' = [tasks EXCEPT ![i] = t] \/ tasks' = tasks
      BY <1>1 DEF CoreUpdateById, t
    <2> QED BY <2>1, <2>2, <2>3
  <1>7. /\ pend' \in [Actors -> Pending]
        /\ PendOK'
        /\ pend'[a] = [op |-> "UpdateById", id |-> i, param |-> p]
        /\ \A b \in Actors \ {a} : pend'[b] = pend[b]
    BY <1>1, BeginType DEF Ops
  <1>8. TypeOK'
    BY <1>2, <1>3, <1>6, <1>7
       DEF IInv, TypeOK, RepositoryTypeOK, TimerTypeOK, timerVars
  <1>9. TimerAgrees' /\ NoCachedMin' = NoCachedMin
    BY <1>2 DEF IInv, TimerAgrees, NoCachedMin, timerVars
  <1>10. \A b \in Actors : pend[b].op # "none" => b # a
    BY <1>2 DEF IsIdle, Idle
  <1>11. \A k \in Scheduled' : k \in Scheduled
    BY <1>6 DEF Scheduled
  <1>12. NeverLate'
    <2> SUFFICES ASSUME isTimerStarted', ~NoCachedMin',
                        NEW k \in Scheduled',
                        tasks'[k].sched < cachedMin'.sched
                 PROVE  Announced(k)'
      BY DEF NeverLate
    <2>1. CASE tasks'[k].sched = tasks[k].sched
      <3>1. Announced(k)
        BY <2>1, <1>2, <1>9, <1>11 DEF IInv, NeverLate, timerVars
      <3> QED BY <2>1, <3>1, <1>7, <1>10 DEF Announced, Owes
    <2>2. CASE tasks'[k].sched # tasks[k].sched
      <3>1. k = i /\ tasks'[k].sched = p.sched
        BY <2>2, <1>6 DEF Scheduled
      <3> QED BY <3>1, <1>7 DEF Announced, Owes
    <2> QED BY <2>1, <2>2
  <1>13. NothingForgotten'
    <2> SUFFICES ASSUME isTimerStarted', NoCachedMin', ~lastErr',
                        NEW k \in Scheduled'
                 PROVE  \E b \in Actors : Owes(b, "AddTask")' /\ pend'[b].id = k
      BY DEF NothingForgotten
    <2>1. PICK b \in Actors : Owes(b, "AddTask") /\ pend[b].id = k
      BY <1>2, <1>9, <1>11 DEF IInv, NothingForgotten, timerVars
    <2> QED BY <2>1, <1>7, <1>10 DEF Owes
  <1> QED BY <1>6, <1>7, <1>8, <1>9, <1>12, <1>13 DEF IInv

-----------------------------------------------------------------------------
(* The hooks. *)

LEMMA HookFrame ==
  ASSUME IInv, NEW a \in Actors, NEW op \in Ops, HookOf(a, op)
  PROVE  /\ pend' \in [Actors -> Pending] /\ PendOK'
         /\ RepositoryTypeOK' /\ StoredOK' /\ now' \in 0 .. MaxTime
         /\ UNCHANGED tasks
         /\ \A b \in Actors \ {a} : pend'[b] = pend[b]
         /\ pend[a].id \in Ids /\ pend[a].param \in UpdateParam
  <1>1. /\ pend[a].op = op /\ pend' = [pend EXCEPT ![a] = Idle]
        /\ UNCHANGED <<tasks, count, now>>
    BY DEF HookOf, Owes, repoVars
  <1>2. pend \in [Actors -> Pending] /\ PendOK
    BY DEF IInv, TypeOK
  <1>3. /\ pend' \in [Actors -> Pending]
        /\ pend'[a] = Idle
        /\ \A b \in Actors \ {a} : pend'[b] = pend[b]
    BY <1>1, <1>2, IdleType
  <1>4. PendOK'
    <2> SUFFICES ASSUME NEW b \in Actors
                 PROVE  /\ pend'[b].op # "none" => pend'[b].id \in Ids
                        /\ pend'[b].op \in {"insert", "AddTask"} =>
                              pend'[b].param.sched # None
      BY DEF PendOK
    <2>1. CASE b = a
      BY <1>3, <2>1 DEF Idle
    <2>2. CASE b # a
      BY <1>2, <1>3, <2>2 DEF PendOK
    <2> QED BY <2>1, <2>2
  <1>5. RepositoryTypeOK' /\ StoredOK' /\ now' \in 0 .. MaxTime
    BY <1>1 DEF IInv, TypeOK, RepositoryTypeOK, StoredOK, Stored
  <1>6. pend[a].id \in Ids /\ pend[a].param \in UpdateParam
    BY <1>1, <1>2 DEF PendOK, Pending, Ops
  <1> QED BY <1>1, <1>3, <1>4, <1>5, <1>6

(* A hook that leaves the timer alone keeps the properties, provided no    *)
(* task relied on its announcement.                                        *)
LEMMA QuietHook ==
  ASSUME IInv, NEW a \in Actors, UNCHANGED tasks, NoUpdate,
         \A b \in Actors \ {a} : pend'[b] = pend[b],
         isTimerStarted /\ Owes(a, "AddTask") =>
            /\ ~NoCachedMin
            /\ ~(pend[a].param.sched < cachedMin.sched),
         isTimerStarted /\ ~NoCachedMin /\ Owes(a, "UpdateById")
            /\ pend[a].param.sched # None =>
               ~(pend[a].param.sched < cachedMin.sched)
  PROVE  NeverLate' /\ NothingForgotten'
  <1>1. /\ UNCHANGED <<cachedMin, timerReset, isTimerStarted, lastErr, timer>>
        /\ NoCachedMin' = NoCachedMin
        /\ Scheduled' = Scheduled
    BY DEF NoUpdate, timerVars, NoCachedMin, Scheduled
  <1>2. NeverLate'
    <2> SUFFICES ASSUME isTimerStarted, ~NoCachedMin, NEW k \in Scheduled,
                        tasks[k].sched < cachedMin.sched
                 PROVE  Announced(k)'
      BY <1>1 DEF NeverLate
    <2>1. PICK b \in Actors : /\ pend[b].param.sched = tasks[k].sched
                              /\ \/ Owes(b, "AddTask")
                                 \/ Owes(b, "UpdateById") /\ pend[b].id = k
      BY DEF IInv, NeverLate, Announced
    <2>2. tasks[k].sched # None
      <3>1. tasks[k].sched \in Times
        BY DEF IInv, StoredOK, Stored, Scheduled
      <3> QED BY <3>1, NoneIsNoTime
    <2>3. b # a
      BY <2>1, <2>2
    <2> QED BY <2>1, <2>3 DEF Announced, Owes
  <1>3. NothingForgotten'
    <2> SUFFICES ASSUME isTimerStarted, NoCachedMin, ~lastErr,
                        NEW k \in Scheduled
                 PROVE  \E b \in Actors : Owes(b, "AddTask")' /\ pend'[b].id = k
      BY <1>1 DEF NothingForgotten
    <2>1. PICK b \in Actors : Owes(b, "AddTask") /\ pend[b].id = k
      BY DEF IInv, NothingForgotten
    <2>2. b # a
      BY <2>1
    <2> QED BY <2>1, <2>2 DEF Owes
  <1> QED BY <1>2, <1>3

LEMMA AddTaskHookStep ==
  ASSUME IInv, NEW a \in Actors, AddTaskHook(a)
  PROVE  IInv'
  <1> DEFINE p == pend[a].param
             cond == NoCachedMin \/ Less(ToTask(p, 0, FarFuture), cachedMin)
  <1>1. HookOf(a, "AddTask") /\ updateIf(cond, "AddTask")
    BY DEF AddTaskHook, HookAddTask
  <1>2. /\ pend' \in [Actors -> Pending] /\ PendOK'
        /\ RepositoryTypeOK' /\ StoredOK' /\ now' \in 0 .. MaxTime
        /\ UNCHANGED tasks
        /\ \A b \in Actors \ {a} : pend'[b] = pend[b]
        /\ p \in UpdateParam
    BY <1>1, HookFrame DEF Ops
  <1>3. Owes(a, "AddTask") /\ p.sched # None
    BY <1>1 DEF HookOf, Owes, IInv, PendOK
  <1>4. cond \in BOOLEAN
    BY DEF NoCachedMin, Less
  <1>5. CASE TimerTypeOK' /\ TimerAgrees' /\ NeverLate' /\ NothingForgotten'
    BY <1>2, <1>5 DEF IInv, TypeOK
  <1>6. CASE ~cond /\ NoUpdate /\ TimerTypeOK' /\ TimerAgrees'
    <2>1. ToTask(p, 0, FarFuture).sched = p.sched
      BY <1>2, <1>3, ToTaskType, TasksAssumption DEF FarFuture, OrElse
    <2>2. ~NoCachedMin /\ ~(p.sched < cachedMin.sched)
      BY <1>6, <2>1 DEF Less
    <2>3. ~Owes(a, "UpdateById")
      BY <1>3 DEF Owes
    <2>4. NeverLate' /\ NothingForgotten'
      BY <1>2, <1>6, <2>2, <2>3, QuietHook
    <2> QED BY <1>2, <1>6, <2>4 DEF IInv, TypeOK
  <1> QED BY <1>1, <1>2, <1>4, <1>5, <1>6, UpdateIf

LEMMA UpdateByIdHookStep ==
  ASSUME IInv, NEW a \in Actors, UpdateByIdHook(a)
  PROVE  IInv'
  <1> DEFINE i == pend[a].id
             p == pend[a].param
             isMin == i = cachedMin.id
             q == IF isMin
                  THEN [sched |-> OrElse(p.sched, cachedMin.sched),
                        prio  |-> OrElse(p.prio, cachedMin.prio)]
                  ELSE p
             movedUp == isMin /\ Less(ToTask(q, 0, ZeroTime), cachedMin)
             before == q.sched # None /\ q.sched < cachedMin.sched
             higher == q.prio # None /\ q.sched = None
                         /\ q.prio > cachedMin.prio
             cond == \/ NoCachedMin
                     \/ ~(isMin /\ p = NoParam)
                          /\ (movedUp \/ before \/ higher)
  <1>1. HookOf(a, "UpdateById") /\ updateIf(cond, "UpdateById")
    BY DEF UpdateByIdHook, HookUpdateById
  <1>2. /\ pend' \in [Actors -> Pending] /\ PendOK'
        /\ RepositoryTypeOK' /\ StoredOK' /\ now' \in 0 .. MaxTime
        /\ UNCHANGED tasks
        /\ \A b \in Actors \ {a} : pend'[b] = pend[b]
        /\ p \in UpdateParam
    BY <1>1, HookFrame DEF Ops
  <1>3. cond \in BOOLEAN
    BY DEF NoCachedMin
  <1>4. p.sched # None => q.sched = p.sched /\ ~(p = NoParam)
    BY DEF OrElse, NoParam
  <1>5. ~Owes(a, "AddTask")
    BY <1>1 DEF HookOf, Owes
  <1>6. CASE TimerTypeOK' /\ TimerAgrees' /\ NeverLate' /\ NothingForgotten'
    BY <1>2, <1>6 DEF IInv, TypeOK
  <1>7. CASE ~cond /\ NoUpdate /\ TimerTypeOK' /\ TimerAgrees'
    <2>1. p.sched # None => ~(p.sched < cachedMin.sched)
      BY <1>4, <1>7
    <2>2. NeverLate' /\ NothingForgotten'
      BY <1>2, <1>5, <1>7, <2>1, QuietHook
    <2> QED BY <1>2, <1>7, <2>2 DEF IInv, TypeOK
  <1> HIDE DEF cond
  <1> QED BY <1>1, <1>2, <1>3, <1>6, <1>7, UpdateIf

(* The hooks of Cancel and MarkAsDispatched carry no announcement.         *)
LEMMA SilentHookStep ==
  ASSUME IInv, NEW a \in Actors, NEW op \in {"Cancel", "MarkAsDispatched"},
         NEW cond \in BOOLEAN, NEW site, HookOf(a, op), updateIf(cond, site)
  PROVE  IInv'
  <1>1. /\ pend' \in [Actors -> Pending] /\ PendOK'
        /\ RepositoryTypeOK' /\ StoredOK' /\ now' \in 0 .. MaxTime
        /\ UNCHANGED tasks
        /\ \A b \in Actors \ {a} : pend'[b] = pend[b]
    BY HookFrame DEF Ops
  <1>2. ~Owes(a, "AddTask") /\ ~Owes(a, "UpdateById")
    BY DEF HookOf, Owes
  <1>3. TimerTypeOK' /\ TimerAgrees'
    BY <1>1, UpdateIf
  <1>4. NeverLate' /\ NothingForgotten'
    BY <1>1, <1>2, UpdateIf, QuietHook
  <1> QED BY <1>1, <1>3, <1>4 DEF IInv, TypeOK

LEMMA CancelHookStep ==
  ASSUME IInv, NEW a \in Actors, CancelHook(a)
  PROVE  IInv'
  <1> DEFINE cond == NoCachedMin \/ cachedMin.id = pend[a].id
  <1>1. HookOf(a, "Cancel") /\ updateIf(cond, "Cancel")
    BY DEF CancelHook, HookCancel
  <1>2. cond \in BOOLEAN
    BY DEF NoCachedMin
  <1> HIDE DEF cond
  <1> QED BY <1>1, <1>2, SilentHookStep

LEMMA MarkAsDispatchedHookStep ==
  ASSUME IInv, NEW a \in Actors, MarkAsDispatchedHook(a)
  PROVE  IInv'
  <1> DEFINE cond == cachedMin.id = pend[a].id
  <1>1. HookOf(a, "MarkAsDispatched") /\ updateIf(cond, "MarkAsDispatched")
    BY DEF MarkAsDispatchedHook, HookMarkAsDispatched
  <1>2. cond \in BOOLEAN
    OBVIOUS
  <1> HIDE DEF cond
  <1> QED BY <1>1, <1>2, SilentHookStep

-----------------------------------------------------------------------------
(* The timer, the clock and the failing calls.                             *)

LEMMA StartTimerStep ==
  ASSUME IInv, NEW a \in Actors, StartTimer(a)
  PROVE  IInv'
  <1>1. /\ isTimerStarted' = TRUE /\ update(TRUE, "StartTimer")
        /\ UNCHANGED <<tasks, count, pend, now>>
    BY DEF StartTimer, TimerStart, repoVars
  <1>2. TimerTypeOK' /\ TimerAgrees' /\ Exact'
    BY <1>1, UpdateIsExact DEF IInv
  <1>3. NeverLate' /\ NothingForgotten'
    BY <1>2, ExactSuffices
  <1>4. TypeOK' /\ StoredOK' /\ PendOK'
    BY <1>1, <1>2 DEF IInv, TypeOK, RepositoryTypeOK, StoredOK, Stored, PendOK
  <1> QED BY <1>2, <1>3, <1>4 DEF IInv

LEMMA StopTimerStep ==
  ASSUME IInv, NEW a \in Actors, StopTimer(a)
  PROVE  IInv'
  <1>1. /\ timer' = None /\ timerReset' = FALSE /\ cachedMin' = NoTask
        /\ isTimerStarted' = FALSE
        /\ UNCHANGED <<lastErr, faults, tasks, count, pend, now>>
    BY DEF StopTimer, TimerStop, repoVars
  <1>2. TimerTypeOK'
    BY <1>1, NoTaskType DEF IInv, TypeOK, TimerTypeOK, Option
  <1>3. TimerAgrees' /\ NeverLate' /\ NothingForgotten'
    BY <1>1 DEF TimerAgrees, NoCachedMin, NoTask, NeverLate, NothingForgotten
  <1>4. TypeOK' /\ StoredOK' /\ PendOK'
    BY <1>1, <1>2 DEF IInv, TypeOK, RepositoryTypeOK, StoredOK, Stored, PendOK
  <1> QED BY <1>3, <1>4 DEF IInv

(* Steps that leave the repository, what is owed, and all of the timer but *)
(* its deadline as they are.                                               *)
LEMMA FrameStep ==
  ASSUME IInv,
         UNCHANGED <<repoVars, pend, cachedMin, timerReset, isTimerStarted,
                     lastErr>>,
         timer' \in {timer, None},
         faults' \in 0 .. MaxFaults, now' \in 0 .. MaxTime
  PROVE  IInv'
  <1>1. UNCHANGED <<tasks, count>> /\ Scheduled' = Scheduled
        /\ NoCachedMin' = NoCachedMin
    BY DEF repoVars, Scheduled, NoCachedMin
  <1>2. TypeOK'
    BY <1>1 DEF IInv, TypeOK, RepositoryTypeOK, TimerTypeOK, Option
  <1>3. StoredOK' /\ PendOK' /\ TimerAgrees'
    BY <1>1 DEF IInv, StoredOK, Stored, PendOK, TimerAgrees
  <1>4. NeverLate'
    BY <1>1 DEF IInv, NeverLate, Announced, Owes
  <1>5. NothingForgotten'
    BY <1>1 DEF IInv, NothingForgotten, Owes
  <1> QED BY <1>2, <1>3, <1>4, <1>5 DEF IInv

LEMMA ReceiveStep == ASSUME IInv, Receive PROVE IInv'
  BY FrameStep DEF Receive, TimerReceive, repoVars, IInv, TypeOK, TimerTypeOK

LEMMA TickStep == ASSUME IInv, Tick PROVE IInv'
  <1>1. now' \in 0 .. MaxTime
    BY TasksAssumption DEF Tick, IInv, TypeOK
  <1> QED BY <1>1, FrameStep
          DEF Tick, repoVars, timerVars, IInv, TypeOK, TimerTypeOK

LEMMA CallFailsStep ==
  ASSUME IInv, NEW site, CallFails(site)
  PROVE  IInv'
  <1>1. faults' \in 0 .. MaxFaults
    BY FaultsAssumption DEF CallFails, Fails, IInv, TypeOK, TimerTypeOK
  <1> QED BY <1>1, FrameStep DEF CallFails, repoVars, timerVars, IInv, TypeOK

-----------------------------------------------------------------------------
LEMMA InitIInv == Init => IInv
  <1> SUFFICES ASSUME Init PROVE IInv
    OBVIOUS
  <1> USE DEF Init, RepositoryInit, TimerInit
  <1>1. Stored = {} /\ Scheduled = {}
    BY DEF Stored, Scheduled, NoTask
  <1>2. TypeOK
    <2>1. count \in 0 .. MaxTasks /\ now \in 0 .. MaxTime
      BY TasksAssumption
    <2>2. tasks \in [Ids -> Task] /\ pend \in [Actors -> Pending]
      BY NoTaskType, IdleType
    <2>3. faults \in 0 .. MaxFaults
      BY FaultsAssumption
    <2>4. TimerTypeOK
      BY <2>3, NoTaskType DEF TimerTypeOK, Option
    <2> QED BY <2>1, <2>2, <2>4 DEF TypeOK, RepositoryTypeOK
  <1>3. StoredOK /\ PendOK
    BY <1>1 DEF StoredOK, PendOK, Idle
  <1>4. TimerAgrees /\ NeverLate /\ NothingForgotten
    BY DEF TimerAgrees, NoCachedMin, NoTask, NeverLate, NothingForgotten
  <1> QED BY <1>2, <1>3, <1>4 DEF IInv

LEMMA NextIInv == IInv /\ [Next]_vars => IInv'
  <1> SUFFICES ASSUME IInv, [Next]_vars PROVE IInv'
    OBVIOUS
  <1>1. ASSUME NEW a \in Actors, Operation(a) PROVE IInv'
    BY <1>1, AddTaskStep, AddTaskInsertStep, UpdateByIdStep, CancelStep,
       MarkAsDispatchedStep, MarkAsDoneStep, StartTimerStep, StopTimerStep
       DEF Operation
  <1>2. ASSUME NEW a \in Actors, Hook(a) PROVE IInv'
    BY <1>2, AddTaskHookStep, UpdateByIdHookStep, CancelHookStep,
       MarkAsDispatchedHookStep DEF Hook
  <1>3. CASE Receive \/ Tick
    BY <1>3, ReceiveStep, TickStep
  <1>4. ASSUME NEW site \in FaultSites, CallFails(site) PROVE IInv'
    BY <1>4, CallFailsStep
  <1>5. CASE UNCHANGED vars
    BY <1>5, FrameStep DEF vars, timerVars, IInv, TypeOK, TimerTypeOK
  <1> QED BY <1>1, <1>2, <1>3, <1>4, <1>5 DEF Next

LEMMA AlwaysIInv == Spec => []IInv
  BY InitIInv, NextIInv, PTL DEF Spec

(* Every variable keeps its type: no operation stores a task, a deadline   *)
(* or a pending call outside the values the code can hold.                 *)
THEOREM TypeCorrect == Spec => []TypeOK
  <1>1. IInv => TypeOK
    BY DEF IInv
  <1> QED BY <1>1, AlwaysIInv, PTL

(* NextScheduled, LastTimerUpdateError and the timer channel of            *)
(* MutationHookTimer never contradict one another.                         *)
THEOREM TimerConsistent == Spec => []TimerAgrees
  <1>1. IInv => TimerAgrees
    BY DEF IInv
  <1> QED BY <1>1, AlwaysIInv, PTL

(* The hooks of MutationHookTimer never leave the timer armed later than a *)
(* scheduled task whose own hook has run, however many goroutines mutate   *)
(* the repository.                                                         *)
THEOREM TimerNeverLate == Spec => []NeverLate
  <1>1. IInv => NeverLate
    BY DEF IInv
  <1> QED BY <1>1, AlwaysIInv, PTL

(* A running timer that has no task to be armed for and met no error knows *)
(* of every scheduled task but those whose AddTask is still to call its    *)
(* hook.                                                                   *)
THEOREM TimerForgetsNone == Spec => []NothingForgotten
  <1>1. IInv => NothingForgotten
    BY DEF IInv
  <1> QED BY <1>1, AlwaysIInv, PTL
=============================================================================
