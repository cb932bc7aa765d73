-------------------------- MODULE MutationHookTimer -------------------------
(***************************************************************************)
(* repository.MutationHookTimer: one timer armed for the next scheduled    *)
(* task of a repository.  It learns of the repository's mutations through  *)
(* hooks that are called after the mutation, under a mutex of its own, so  *)
(* that what a hook compares against cachedMin may be out of date.         *)
(*                                                                         *)
(* Each operator is one critical section of MutationHookTimer.mu.  A hook  *)
(* reads the repository (GetNext) in the state it finds it in.             *)
(*                                                                         *)
(* mockable.ClockReal is a time.Timer of Go 1.23: Stop and Reset discard a *)
(* tick that was not received yet, so the timer is one variable.           *)
(***************************************************************************)
EXTENDS Repository

CONSTANTS
    FaultSites,  (* the callers whose GetNext may fail                     *)
    MaxFaults    (* bound: how many repository calls fail in a behaviour   *)

ASSUME FaultsAssumption == MaxFaults \in Nat

VARIABLES
    cachedMin,       (* the task the timer was last armed for              *)
    timerReset,      (* the ok of NextScheduled                            *)
    isTimerStarted,
    lastErr,         (* lastErr # nil                                      *)
    timer,           (* None, or the deadline the timer is armed for       *)
    faults           (* failures left                                      *)

timerVars == <<cachedMin, timerReset, isTimerStarted, lastErr, timer>>

TimerTypeOK ==
    /\ cachedMin \in Task
    /\ timerReset \in BOOLEAN
    /\ isTimerStarted \in BOOLEAN
    /\ lastErr \in BOOLEAN
    /\ timer \in Option(Times)
    /\ faults \in 0 .. MaxFaults

TimerInit ==
    /\ cachedMin = NoTask
    /\ timerReset = FALSE
    /\ isTimerStarted = FALSE
    /\ lastErr = FALSE
    /\ timer = None
    /\ faults = MaxFaults

Fails(site) ==
    /\ site \in FaultSites
    /\ faults > 0
    /\ faults' = faults - 1

-----------------------------------------------------------------------------
(* The three outcomes of _update once the timer runs.                      *)
ResetSwapsOperands ==
    \E i \in Firsts :
        /\ cachedMin' = tasks[i]
        /\ timerReset' = TRUE
        /\ timer' = ZeroTime
        /\ lastErr' = FALSE
        /\ UNCHANGED faults

ArmForNext ==
    \E i \in Firsts :
        /\ cachedMin' = tasks[i]
        /\ timerReset' = TRUE
        /\ timer' = tasks[i].sched
        /\ lastErr' = FALSE
        /\ UNCHANGED faults

DisarmExhausted ==
    /\ Scheduled = {}
    /\ cachedMin' = NoTask
    /\ timerReset' = FALSE
    /\ timer' = None
    /\ lastErr' = FALSE
    /\ UNCHANGED faults

DisarmOnError(site) ==
    /\ Fails(site)
    /\ cachedMin' = NoTask
    /\ timerReset' = FALSE
    /\ timer' = None
    /\ lastErr' = TRUE

(* update and _update; `started' is the flag they read.                    *)
update(started, site) ==
    \/ /\ ~started
       /\ lastErr' = FALSE
       /\ UNCHANGED <<cachedMin, timerReset, timer, faults>>
    \/ /\ started
       /\ ArmForNext \/ DisarmExhausted \/ DisarmOnError(site)

NoUpdate == UNCHANGED <<timerVars, faults>>

updateIf(cond, site) ==
    IF cond THEN update(isTimerStarted, site) /\ UNCHANGED isTimerStarted
            ELSE NoUpdate

NoCachedMin == cachedMin.id = 0

-----------------------------------------------------------------------------
HookAddTaskKeepsMin(p, site) ==
    updateIf(Less(ToTask(p, 0, FarFuture), cachedMin), site)

HookAddTask(p, site) ==
    updateIf(NoCachedMin \/ Less(ToTask(p, 0, FarFuture), cachedMin), site)

HookUpdateOfMinOnly(i, p, site) ==
    updateIf(NoCachedMin \/ cachedMin.id = i, site)

(* UpdateById: for the task the timer is armed for, the fields the update  *)
(* leaves alone are filled in from the cached copy first.                  *)
HookUpdateById(i, p, site) ==
    LET isMin == i = cachedMin.id
        q == IF isMin
             THEN [sched |-> OrElse(p.sched, cachedMin.sched),
                   prio  |-> OrElse(p.prio, cachedMin.prio)]
             ELSE p
        movedUp == isMin /\ Less(ToTask(q, 0, ZeroTime), cachedMin)
        updatedToBefore == q.sched # None /\ q.sched < cachedMin.sched
        updatedToHigherPriority ==
            q.prio # None /\ q.sched = None /\ q.prio > cachedMin.prio
    IN  updateIf(\/ NoCachedMin
                 \/ /\ ~(isMin /\ p = NoParam)
                    /\ movedUp \/ updatedToBefore \/ updatedToHigherPriority,
                 site)

HookCancel(i, site) == updateIf(NoCachedMin \/ cachedMin.id = i, site)

DispatchKeepsTimer(i, site) == NoUpdate

HookMarkAsDispatched(i, site) == updateIf(cachedMin.id = i, site)

TimerStart(site) ==
    /\ isTimerStarted' = TRUE
    /\ update(TRUE, site)

StopLeavesTimer ==
    /\ timerReset' = FALSE
    /\ cachedMin' = NoTask
    /\ isTimerStarted' = FALSE
    /\ UNCHANGED <<timer, lastErr, faults>>

TimerStop ==
    /\ timer' = None
    /\ timerReset' = FALSE
    /\ cachedMin' = NoTask
    /\ isTimerStarted' = FALSE
    /\ UNCHANGED <<lastErr, faults>>

(* The timer channel has a value to receive.                               *)
Expired(now) == timer # None /\ timer <= now

(* A receive from TimerChannel().                                          *)
TimerReceive(now) ==
    /\ Expired(now)
    /\ timer' = None
    /\ UNCHANGED <<cachedMin, timerReset, isTimerStarted, lastErr, faults>>
=============================================================================
