------------------------- MODULE ObservableRepository -----------------------
(***************************************************************************)
(* repository.Repository: the wrapper that calls the core repository and   *)
(* then the hook of the MutationHookTimer.  The two calls take two         *)
(* different locks, one after the other, so between them any other actor   *)
(* (a goroutine that uses the repository) may run: an operation whose core *)
(* part is done and whose hook is still to be called is kept in pend.      *)
(***************************************************************************)
EXTENDS MutationHookTimer

CONSTANT
    Actors       (* the goroutines that use the repository                 *)

VARIABLES
    pend,        (* what each actor is in the middle of                    *)
    now          (* the clock                                              *)

repoVars == <<tasks, count>>
vars == <<repoVars, timerVars, faults, pend, now>>

(* "insert" is an AddTask that has stamped its task and waits for the lock *)
(* of the core; the others have done their core part and owe their hook.   *)
Ops == {"insert", "AddTask", "UpdateById", "Cancel", "MarkAsDispatched"}
Pending == [op : Ops \cup {"none"}, id : 0 .. MaxTasks, param : UpdateParam]
Idle == [op |-> "none", id |-> 0, param |-> NoParam]

IsIdle(a) == pend[a] = Idle
Owes(a, op) == pend[a].op = op

TypeOK ==
    /\ RepositoryTypeOK
    /\ TimerTypeOK
    /\ pend \in [Actors -> Pending]
    /\ now \in 0 .. MaxTime

Init ==
    /\ RepositoryInit
    /\ TimerInit
    /\ pend = [a \in Actors |-> Idle]
    /\ now = 0

-----------------------------------------------------------------------------
(* What an actor goes on to owe.                                           *)
Begin(a, op, i, p) ==
    pend' = [pend EXCEPT ![a] = [op |-> op, id |-> i, param |-> p]]

AddTask(a) ==
    /\ IsIdle(a)
    /\ Stamp
    /\ \E p \in AddParam : Begin(a, "insert", count + 1, p)
    /\ UNCHANGED <<timerVars, faults, now>>

AddTaskInsert(a) ==
    /\ Owes(a, "insert")
    /\ Insert(pend[a].id, pend[a].param)
    /\ Begin(a, "AddTask", pend[a].id, pend[a].param)
    /\ UNCHANGED <<timerVars, faults, now>>

UpdateById(a) ==
    /\ IsIdle(a)
    /\ \E i \in Ids, p \in UpdateParam :
          /\ CoreUpdateById(i, p)
          /\ Begin(a, "UpdateById", i, p)
    /\ UNCHANGED <<timerVars, faults, now>>

Cancel(a) ==
    /\ IsIdle(a)
    /\ \E i \in Ids : CoreCancel(i) /\ Begin(a, "Cancel", i, NoParam)
    /\ UNCHANGED <<timerVars, faults, now>>

MarkAsDispatched(a, i) ==
    /\ IsIdle(a)
    /\ CoreMarkAsDispatched(i)
    /\ Begin(a, "MarkAsDispatched", i, NoParam)
    /\ UNCHANGED <<timerVars, faults, now>>

(* MarkAsDone has no hook. *)
MarkAsDone(a, i, result) ==
    /\ IsIdle(a)
    /\ CoreMarkAsDone(i, result)
    /\ UNCHANGED <<timerVars, faults, pend, now>>

-----------------------------------------------------------------------------
(* The second half of every operation: the hook, then the return.          *)
HookOf(a, op) ==
    /\ Owes(a, op)
    /\ pend' = [pend EXCEPT ![a] = Idle]
    /\ UNCHANGED <<repoVars, now>>

AddTaskHook(a) ==
    HookOf(a, "AddTask") /\ HookAddTask(pend[a].param, "AddTask")

UpdateByIdHook(a) ==
    /\ HookOf(a, "UpdateById")
    /\ HookUpdateById(pend[a].id, pend[a].param, "UpdateById")

CancelHook(a) == HookOf(a, "Cancel") /\ HookCancel(pend[a].id, "Cancel")

MarkAsDispatchedHook(a) ==
    /\ HookOf(a, "MarkAsDispatched")
    /\ HookMarkAsDispatched(pend[a].id, "MarkAsDispatched")

StartTimer(a) ==
    /\ IsIdle(a)
    /\ TimerStart("StartTimer")
    /\ UNCHANGED <<repoVars, pend, now>>

StopTimer(a) ==
    /\ IsIdle(a)
    /\ TimerStop
    /\ UNCHANGED <<repoVars, pend, now>>

(* Whoever waits on TimerChannel receives.                                 *)
Receive ==
    /\ TimerReceive(now)
    /\ UNCHANGED <<repoVars, pend, now>>

(* Bound: the clock stops at MaxTime, after every time a task can have.    *)
Tick ==
    /\ now < MaxTime
    /\ now' = now + 1
    /\ UNCHANGED <<repoVars, timerVars, faults, pend>>

(* A call to the core repository that fails and changes nothing: the       *)
(* wrapper returns before the hook.                                        *)
CallFails(site) ==
    /\ Fails(site)
    /\ UNCHANGED <<repoVars, timerVars, pend, now>>

-----------------------------------------------------------------------------
Results == {"nil", "err"}

Hook(a) ==
    \/ AddTaskHook(a)
    \/ UpdateByIdHook(a)
    \/ CancelHook(a)
    \/ MarkAsDispatchedHook(a)

Operation(a) ==
    \/ AddTask(a)
    \/ AddTaskInsert(a)
    \/ UpdateById(a)
    \/ Cancel(a)
    \/ \E i \in Ids : MarkAsDispatched(a, i)
    \/ \E i \in Ids, result \in Results : MarkAsDone(a, i, result)
    \/ StartTimer(a)
    \/ StopTimer(a)

Next ==
    \/ \E a \in Actors : Operation(a) \/ Hook(a)
    \/ Receive
    \/ Tick
    \/ \E site \in FaultSites : CallFails(site)

Spec == Init /\ [][Next]_vars

-----------------------------------------------------------------------------
(* The announcements of task i still on their way to the timer: hooks that *)
(* will compare i's present scheduled time with cachedMin.                 *)
Announced(i) ==
    \E a \in Actors :
        /\ pend[a].param.sched = tasks[i].sched
        /\ \/ Owes(a, "AddTask")
           \/ Owes(a, "UpdateById") /\ pend[a].id = i

(* The timer is never armed too late: while it runs, no scheduled task is  *)
(* due before the task the timer was last armed for, except one whose own  *)
(* hook is still to be called.  This is what lets the hooks decide from    *)
(* cachedMin alone, however their core parts interleaved.                  *)
NeverLate ==
    isTimerStarted /\ ~NoCachedMin =>
        \A i \in Scheduled :
            tasks[i].sched < cachedMin.sched => Announced(i)

(* The timer without a task: when the running timer has none and its last  *)
(* update succeeded, every scheduled task is one whose AddTask has yet to  *)
(* call its hook (which then updates without comparing).                   *)
NothingForgotten ==
    isTimerStarted /\ NoCachedMin /\ ~lastErr =>
        \A i \in Scheduled :
            \E a \in Actors : Owes(a, "AddTask") /\ pend[a].id = i

(* NextScheduled, LastTimerUpdateError and the channel agree: the channel  *)
(* can emit only in the started state, without a pending error, and at the *)
(* time NextScheduled reports (def.Observer, StopTimer and TimerChannel).  *)
TimerAgrees ==
    /\ timerReset <=> ~NoCachedMin
    /\ timerReset => isTimerStarted /\ ~lastErr
    /\ timer # None => timerReset /\ timer = cachedMin.sched
=============================================================================
