------------------------------ MODULE Scheduler -----------------------------
(***************************************************************************)
(* scheduler.Scheduler over an ObservableRepository and a worker pool.     *)
(*                                                                         *)
(* One goroutine (Sched) loops over Step, as example/main.go does, and     *)
(* answers the states in RetryStates with Retry until it succeeds; stepMu  *)
(* makes several such goroutines one.                                      *)
(* The other actors are clients of the repository.  Every call Step makes  *)
(* into the repository is a step of its own: pc names the point reached.   *)
(*                                                                         *)
(* The fetcher that dispatchTask hands to the dispatcher runs on a worker, *)
(* but Dispatch waits for it, so its calls are steps of Sched.  Once it    *)
(* returns, the worker runs the work function on its own.                  *)
(***************************************************************************)
EXTENDS ObservableRepository, Sequences, FiniteSets

CONSTANTS
    Sched,          (* the actor that calls Step                           *)
    Workers,        (* the workers of the pool                             *)
    ClientOps,      (* the operations clients use                          *)
    RetryStates,    (* the states the caller answers with Retry, not Step  *)
    CtxEnds         (* the contexts passed to Step and Retry may end       *)

ASSUME SchedulerAssumption ==
    /\ Sched \in Actors
    /\ RetryStates \subseteq {"timerUpdateError", "dispatchErr", "taskDone"}
    /\ CtxEnds \in BOOLEAN

VARIABLES
    pc,          (* where Sched is: "idle" between two calls of Step       *)
    prev,        (* the last StepState, as far as Retry tells them apart   *)
    isRetry,     (* the call under way is Retry                            *)
    next,        (* the local variable `next' of Step and dispatchTask     *)
    lastTask,    (* Scheduler.lastTask: its id, 0 for nil                  *)
    getNextErr,  (* Scheduler.getNextErr # nil                             *)
    worker,      (* per worker: the task it has and whether its fn started *)
    results,     (* eventQueue and taskResultCh: results not received yet  *)
    ran,         (* history: times the work function of a task started     *)
    outcomes     (* history: what the workers reported of a task           *)

stepVars == <<pc, prev, isRetry, next, lastTask, getNextErr>>
workVars == <<worker, results, ran, outcomes>>
allVars == <<vars, stepVars, workVars>>

Clients == Actors \ {Sched}

(* A work function returns nil, an error, or context.Canceled.             *)
WorkResults == Results \cup {"canceled"}
Result == [id : Ids, result : WorkResults]

Free == [id |-> 0, running |-> FALSE]
Returned(s, i, result) == [s |-> s, id |-> i, result |-> result]
NoError == Returned("ok", 0, "nil")

Bound(n) == IF n > 2 THEN 2 ELSE n      (* bound: runs are counted up to 2 *)

SchedTypeOK ==
    /\ TypeOK
    /\ pc \in {"boot", "idle", "stopTimer", "startTimer", "checkTimer",
               "select", "getNext", "compare", "dispatch", "mark",
               "markHook", "fetch"}
    /\ prev \in [s : {"ok", "timerUpdateError", "dispatchErr", "taskDone"},
                 id : 0 .. MaxTasks, result : WorkResults]
    /\ isRetry \in BOOLEAN
    /\ next \in Task
    /\ lastTask \in 0 .. MaxTasks
    /\ getNextErr \in BOOLEAN
    /\ worker \in [Workers -> [id : 0 .. MaxTasks, running : BOOLEAN]]
    /\ results \in Seq(Result)
    /\ ran \in [Ids -> 0 .. 2]
    /\ outcomes \in [Ids -> SUBSET WorkResults]

SchedInit ==
    /\ Init
    /\ pc = "boot"
    /\ prev = NoError
    /\ isRetry = FALSE
    /\ next = NoTask
    /\ lastTask = 0
    /\ getNextErr = FALSE
    /\ worker = [w \in Workers |-> Free]
    /\ results = <<>>
    /\ ran = [i \in Ids |-> 0]
    /\ outcomes = [i \in Ids |-> {}]

-----------------------------------------------------------------------------
At(label) == pc = label
GoTo(label) == pc' = label

(* Step or Retry returns. *)
Return(state) ==
    /\ GoTo("idle")
    /\ prev' = state
    /\ isRetry' = FALSE
    /\ next' = NoTask

(* A call that fails, by itself or because its context has ended. *)
CallEnds(site) == CallFails(site) \/ (CtxEnds /\ UNCHANGED vars)

(* main starts the timer before it loops over Step. *)
Boot ==
    /\ At("boot")
    /\ GoTo("idle")
    /\ StartTimer(Sched)
    /\ UNCHANGED <<prev, isRetry, next, lastTask, getNextErr, workVars>>

-----------------------------------------------------------------------------
(* Step, from the timer recovery to the select or the dispatch.            *)
Proceed ==
    /\ getNextErr' = FALSE
    /\ lastTask' = 0
    /\ prev' = NoError
    /\ IF lastTask # 0
       THEN GoTo("dispatch") /\ next' = [NoTask EXCEPT !.id = lastTask]
       ELSE GoTo("select") /\ UNCHANGED next
    /\ UNCHANGED isRetry

StepWithoutRecovery ==
    /\ At("idle")
    /\ prev.s \notin RetryStates
    /\ Proceed
    /\ UNCHANGED <<vars, workVars>>

Step ==
    /\ At("idle")
    /\ prev.s \notin RetryStates
    /\ IF getNextErr \/ lastErr
       THEN /\ GoTo("stopTimer")
            /\ prev' = NoError
            /\ UNCHANGED <<isRetry, next, lastTask, getNextErr>>
       ELSE Proceed
    /\ UNCHANGED <<vars, workVars>>

StepStopTimer ==
    /\ At("stopTimer")
    /\ GoTo("startTimer")
    /\ StopTimer(Sched)
    /\ UNCHANGED <<prev, isRetry, next, lastTask, getNextErr, workVars>>

StepStartTimer ==
    /\ At("startTimer")
    /\ GoTo("checkTimer")
    /\ StartTimer(Sched)
    /\ UNCHANGED <<prev, isRetry, next, lastTask, getNextErr, workVars>>

StepCheckTimer ==
    /\ At("checkTimer")
    /\ IF lastErr
       THEN /\ Return(Returned("timerUpdateError", 0, "nil"))
            /\ UNCHANGED <<lastTask, getNextErr>>
       ELSE IF isRetry
       THEN Return(NoError) /\ UNCHANGED <<lastTask, getNextErr>>
       ELSE Proceed
    /\ UNCHANGED <<vars, workVars>>

-----------------------------------------------------------------------------
(* Step, the three cases of the select. *)
SelectCtxDone ==
    /\ At("select")
    /\ CtxEnds
    /\ Return(NoError)
    /\ UNCHANGED <<vars, lastTask, getNextErr, workVars>>

SelectTakesErrorForCancel ==
    /\ At("select")
    /\ results # <<>>
    /\ results' = Tail(results)
    /\ \/ Head(results).result = "nil" /\ MarkAsDone(Sched, Head(results).id, "nil")
       \/ Head(results).result # "nil" /\ UNCHANGED vars
    /\ Return(NoError)
    /\ UNCHANGED <<lastTask, getNextErr, worker, ran, outcomes>>

(* A result: the receive is merged with the MarkAsDone that follows, as    *)
(* nobody else receives.                                                   *)
SelectResult ==
    /\ At("select")
    /\ results # <<>>
    /\ results' = Tail(results)
    /\ LET res == Head(results)
           failed == Returned("taskDone", res.id, res.result)
       IN  \/ /\ res.result = "canceled"
              /\ Return(NoError)
              /\ UNCHANGED vars
           \/ /\ res.result # "canceled"
              /\ MarkAsDone(Sched, res.id, res.result)
              /\ Return(NoError)
           \/ /\ res.result # "canceled"
              /\ \/ MarkAsDoneErr(res.id) # "" /\ UNCHANGED vars
                 \/ CallEnds("MarkAsDone")
              /\ Return(failed)
    /\ UNCHANGED <<lastTask, getNextErr, worker, ran, outcomes>>

SelectTimer ==
    /\ At("select")
    /\ GoTo("getNext")
    /\ Receive
    /\ UNCHANGED <<prev, isRetry, next, lastTask, getNextErr, workVars>>

StepGetNext ==
    /\ At("getNext")
    /\ \/ \E i \in Firsts :
             /\ GoTo("compare")
             /\ next' = tasks[i]
             /\ UNCHANGED <<vars, prev, isRetry, lastTask, getNextErr>>
       \/ /\ \/ Scheduled = {} /\ UNCHANGED vars
             \/ CallFails("GetNext")
          /\ lastTask' = 0
          /\ getNextErr' = TRUE
          /\ Return(NoError)
    /\ UNCHANGED workVars

(* Keep the task if it is due when NextScheduled says the timer is; else   *)
(* ErrScheduleStoppedOrChanged.                                            *)
StepCompare ==
    /\ At("compare")
    /\ lastTask' = IF timerReset /\ cachedMin.sched = next.sched
                   THEN next.id ELSE lastTask
    /\ Return(NoError)
    /\ UNCHANGED <<vars, getNextErr, workVars>>

-----------------------------------------------------------------------------
(* dispatchTask. *)
DispatchFailed == Return(Returned("dispatchErr", next.id, "nil"))

DispatchCtxDone ==
    /\ At("dispatch")
    /\ CtxEnds
    /\ DispatchFailed
    /\ UNCHANGED <<vars, lastTask, getNextErr, workVars>>

(* A worker receives the work; MarkAsDispatched is for the first try only. *)
Dispatch ==
    /\ At("dispatch")
    /\ \E w \in Workers : worker[w] = Free
    /\ GoTo(IF isRetry THEN "fetch" ELSE "mark")
    /\ UNCHANGED <<vars, prev, isRetry, next, lastTask, getNextErr, workVars>>

DispatchIgnoresRefusal ==
    /\ At("mark")
    /\ \/ /\ GoTo("markHook")
          /\ MarkAsDispatched(Sched, next.id)
          /\ UNCHANGED <<prev, isRetry, next>>
       \/ /\ MutateErr(next.id) # "" /\ UNCHANGED vars
          /\ GoTo("fetch")
          /\ UNCHANGED <<prev, isRetry, next>>
    /\ UNCHANGED <<lastTask, getNextErr, workVars>>

DispatchMark ==
    /\ At("mark")
    /\ \/ /\ GoTo("markHook")
          /\ MarkAsDispatched(Sched, next.id)
          /\ UNCHANGED <<prev, isRetry, next>>
       \/ /\ \/ MutateErr(next.id) # "" /\ UNCHANGED vars
             \/ CallEnds("CoreMarkAsDispatched")
          /\ DispatchFailed
    /\ UNCHANGED <<lastTask, getNextErr, workVars>>

DispatchMarkHook ==
    /\ At("markHook")
    /\ GoTo("fetch")
    /\ MarkAsDispatchedHook(Sched)
    /\ UNCHANGED <<prev, isRetry, next, lastTask, getNextErr, workVars>>

DispatchFetch ==
    /\ At("fetch")
    /\ \/ /\ \E w \in Workers :
                /\ worker[w] = Free
                /\ worker' = [worker EXCEPT
                                ![w] = [id |-> next.id, running |-> FALSE]]
          /\ Return(NoError)
          /\ UNCHANGED vars
       \/ /\ CallEnds("GetById")
          /\ DispatchFailed
          /\ UNCHANGED worker
    /\ UNCHANGED <<lastTask, getNextErr, results, ran, outcomes>>

-----------------------------------------------------------------------------
(* Retry, on the three states that can carry an error it acts upon.        *)
RetryTimer ==
    /\ At("idle")
    /\ prev.s = "timerUpdateError" /\ prev.s \in RetryStates
    /\ GoTo("stopTimer")
    /\ isRetry' = TRUE
    /\ prev' = NoError
    /\ UNCHANGED <<vars, next, lastTask, getNextErr, workVars>>

(* GetById first; its task is not used unless it failed. *)
RetryDispatch ==
    /\ At("idle")
    /\ prev.s = "dispatchErr" /\ prev.s \in RetryStates
    /\ \/ /\ GoTo("dispatch")
          /\ isRetry' = TRUE
          /\ prev' = NoError
          /\ next' = [NoTask EXCEPT !.id = prev.id]
          /\ UNCHANGED vars
       \/ CallEnds("GetById") /\ Return(prev)
    /\ UNCHANGED <<lastTask, getNextErr, workVars>>

RetryTaskDoneGivesUp ==
    /\ At("idle")
    /\ prev.s = "taskDone" /\ prev.s \in RetryStates
    /\ Return(NoError)
    /\ UNCHANGED <<vars, lastTask, getNextErr, workVars>>

RetryTaskDone ==
    /\ At("idle")
    /\ prev.s = "taskDone" /\ prev.s \in RetryStates
    /\ \/ MarkAsDone(Sched, prev.id, prev.result) /\ Return(NoError)
       \/ /\ MarkAsDoneErr(prev.id) # ""
          /\ Return(IF MarkAsDoneErr(prev.id) = "already_done"
                    THEN NoError ELSE prev)
          /\ UNCHANGED vars
       \/ CallEnds("MarkAsDone") /\ Return(prev)
    /\ UNCHANGED <<lastTask, getNextErr, workVars>>

-----------------------------------------------------------------------------
(* executor.Exec after the fetch: the work function is looked up and run,  *)
(* unless it is not registered or the context is done.                     *)
ReportOnlySuccess(w, result) ==
    /\ worker' = [worker EXCEPT ![w] = Free]
    /\ results' = IF result = "nil"
                  THEN Append(results, [id |-> worker[w].id, result |-> result])
                  ELSE results
    /\ outcomes' = [outcomes EXCEPT ![worker[w].id] = @ \cup {result}]

Report(w, result) ==
    /\ worker' = [worker EXCEPT ![w] = Free]
    /\ results' = Append(results, [id |-> worker[w].id, result |-> result])
    /\ outcomes' = [outcomes EXCEPT ![worker[w].id] = @ \cup {result}]

WorkStart(w) ==
    /\ worker[w].id # 0 /\ ~worker[w].running
    /\ worker' = [worker EXCEPT ![w].running = TRUE]
    /\ ran' = [ran EXCEPT ![worker[w].id] = Bound(@ + 1)]
    /\ UNCHANGED <<vars, stepVars, results, outcomes>>

WorkRefused(w) ==
    /\ worker[w].id # 0 /\ ~worker[w].running
    /\ \E result \in {"err"} \cup IF CtxEnds THEN {"canceled"} ELSE {} :
          Report(w, result)
    /\ UNCHANGED <<vars, stepVars, ran>>

WorkEnd(w) ==
    /\ worker[w].running
    /\ \E result \in Results \cup IF CtxEnds THEN {"canceled"} ELSE {} :
          Report(w, result)
    /\ UNCHANGED <<vars, stepVars, ran>>

-----------------------------------------------------------------------------
ClientBegins(a) ==
    \/ "AddTask" \in ClientOps /\ AddTask(a)
    \/ "UpdateById" \in ClientOps /\ UpdateById(a)
    \/ "Cancel" \in ClientOps /\ Cancel(a)
    \/ "StartTimer" \in ClientOps /\ StartTimer(a)
    \/ "StopTimer" \in ClientOps /\ StopTimer(a)

ClientEnds(a) ==
    \/ AddTaskInsert(a)
    \/ AddTaskHook(a)
    \/ UpdateByIdHook(a)
    \/ CancelHook(a)

Client(a) == ClientBegins(a) \/ ClientEnds(a)

Stepper ==
    \/ Boot \/ Step \/ StepStopTimer \/ StepStartTimer \/ StepCheckTimer
    \/ SelectCtxDone \/ SelectResult \/ SelectTimer
    \/ StepGetNext \/ StepCompare
    \/ DispatchCtxDone \/ Dispatch \/ DispatchMark \/ DispatchMarkHook
    \/ DispatchFetch
    \/ RetryTimer \/ RetryDispatch \/ RetryTaskDone

Work(w) == WorkStart(w) \/ WorkRefused(w) \/ WorkEnd(w)

SchedNext ==
    \/ Stepper
    \/ \E w \in Workers : Work(w)
    \/ (\E a \in Clients : Client(a)) /\ UNCHANGED <<stepVars, workVars>>
    \/ Tick /\ UNCHANGED <<stepVars, workVars>>

SchedSpec == SchedInit /\ [][SchedNext]_allVars

-----------------------------------------------------------------------------
(* A work function runs at most once per task (unless dispatchErr states   *)
(* are retried): MarkAsDispatched lets one fetcher through, whatever the   *)
(* clients, the failures and the ends of contexts in between.              *)
AtMostOnce == \A i \in Ids : ran[i] <= 1

(* What the pool works on is dispatched in the repository, and still is    *)
(* while its result waits to be recorded: a task whose Cancel returned nil *)
(* never runs, and nothing is recorded of a task before its work is over.  *)
RunsOnlyDispatched ==
    \A w \in Workers :
        worker[w].id # 0 => tasks[worker[w].id].state = "dispatched"

(* done and err in the repository are what a worker reported of the task.  *)
RecordedOutcome ==
    \A i \in Ids :
        /\ tasks[i].state = "done" => "nil" \in outcomes[i]
        /\ tasks[i].state = "err" => "err" \in outcomes[i]

(* A dispatched task is in exactly one pair of hands: on its way from the  *)
(* fetcher to a worker, on a worker, among the results, or with the caller *)
(* that is about to retry a MarkAsDone that failed.                        *)
Handling(i) ==
    (IF (At("markHook") \/ At("fetch")) /\ next.id = i THEN 1 ELSE 0)
    + Cardinality({w \in Workers : worker[w].id = i})
    + Cardinality({k \in DOMAIN results : results[k].id = i})
    + (IF prev.s = "taskDone" /\ prev.id = i THEN 1 ELSE 0)

NeverLost ==
    \A i \in Ids :
        Handling(i) = IF tasks[i].state = "dispatched" THEN 1 ELSE 0

(* No task is worked on before it is due. *)
NotEarly ==
    \A w \in Workers :
        worker[w].id # 0 => tasks[worker[w].id].sched <= now

(* Step does not wait for a timer nobody will arm: when it waits, no client *)
(* is inside a call and the last update of the running timer succeeded, a  *)
(* scheduled task means an armed timer.                                    *)
NoLostWakeup ==
    /\ At("select") /\ isTimerStarted /\ ~lastErr
    /\ \A a \in Clients : IsIdle(a)
    => (Scheduled # {} => timer # None)

(* A task whose work was started is in somebody's hands until the          *)
(* repository has its completion.                                          *)
CompletionRecorded ==
    \A i \in Ids :
        ran[i] > 0 /\ Handling(i) = 0 => tasks[i].state \in {"done", "err"}

-----------------------------------------------------------------------------
(* The caller keeps calling Step, the workers keep working, the clients    *)
(* that began a call finish it, and the clock moves.  select picks at      *)
(* random among its ready cases, so a result that keeps being ready is     *)
(* received however often the timer is ready too.                          *)
Fairness ==
    /\ WF_allVars(Stepper)
    /\ SF_allVars(SelectResult)
    /\ \A w \in Workers : WF_allVars(Work(w))
    /\ \A a \in Clients :
          WF_allVars(ClientEnds(a) /\ UNCHANGED <<stepVars, workVars>>)
    /\ WF_allVars(Tick /\ UNCHANGED <<stepVars, workVars>>)

FairSpec == SchedSpec /\ Fairness

(* Every task leaves the scheduled state: it is dispatched or cancelled.   *)
EventuallyDispatched ==
    \A i \in Ids : (i \in Scheduled) ~> (i \notin Scheduled)

(* Every dispatched task is eventually recorded as done or failed.         *)
EventuallyRecorded ==
    \A i \in Ids : (tasks[i].state = "dispatched")
                        ~> (tasks[i].state \in {"done", "err"})
=============================================================================
