------------------------ MODULE WorkerPoolDispatcher ------------------------
(***************************************************************************)
(* dispatcher/workerpool: the goroutines of Dispatch, of the workers that  *)
(* run Exec and of the watcher each Exec starts, and the two channels of   *)
(* capacity one that connect a call with the worker that took it.          *)
(*                                                                         *)
(* A fetcher is modelled by its outcome (Scheduler has its steps), a work  *)
(* function by its result.  A deadline only makes the work return earlier, *)
(* with an error.  The pool itself is ngicks/workerpool: workers come and  *)
(* go, and Kill ends the context it passes to Exec.                        *)
(***************************************************************************)

CONSTANTS
    Calls,      (* the calls of Dispatch, each with a context of its own   *)
    Workers,    (* bound: the workers there can be                         *)
    Abnormal,   (* fetchers and work functions may end abnormally          *)
    None

ASSUME PoolAssumption ==
    /\ Abnormal \in BOOLEAN
    /\ None \notin {"nil", "err", "canceled"}

VARIABLES
    caller,     (* per call: where Dispatch is                             *)
    ret,        (* per call: what Dispatch returned                        *)
    ctxDone,    (* per call: the context given to Dispatch is done         *)
    exec,       (* per call: where Exec is                                 *)
    by,         (* per call: the worker that runs its Exec                 *)
    combined,   (* per call: the context `combined' is done                *)
    watcher,    (* per call: the goroutine that waits to cancel `combined' *)
    fetchErr,   (* per call: workFn.fetchErr                               *)
    workErr,    (* per call: workFn.workErr                                *)
    got,        (* per call: what the reader of workErr received           *)
    worker,     (* per worker: what it does                                *)
    killed,     (* the context of the workers is done                      *)
    result      (* history, per call: what the work returned               *)

callerVars == <<caller, ret>>
chanVars == <<fetchErr, workErr>>
execVars == <<exec, by, worker, result>>
ctxVars == <<ctxDone, combined, watcher, killed>>
vars == <<callerVars, chanVars, execVars, ctxVars, got>>

Values == {"nil", "err", "canceled"}
Chan == [buf : Values \cup {None}, closed : BOOLEAN]

(* Types, and that a channel is closed exactly when its Exec is over.       *)
TypeOK ==
    /\ caller \in [Calls -> {"start", "send", "wait", "returned"}]
    /\ ret \in [Calls -> {"none", "ctxErr", "fetchErr", "errCh"}]
    /\ exec \in [Calls -> {"none", "fetch", "lookup", "check", "work",
                           "cancel", "close", "done"}]
    /\ by \in [Calls -> Workers \cup {None}]
    /\ watcher \in [Calls -> {"none", "waiting", "ended"}]
    /\ ctxDone \in [Calls -> BOOLEAN]
    /\ combined \in [Calls -> BOOLEAN]
    /\ fetchErr \in [Calls -> Chan]
    /\ workErr \in [Calls -> Chan]
    /\ got \in [Calls -> Values \cup {None}]
    /\ worker \in [Workers -> {"idle", "busy", "gone"}]
    /\ killed \in BOOLEAN
    /\ result \in [Calls -> Values \cup {None}]
    /\ \A c \in Calls :
          {fetchErr[c].closed, workErr[c].closed} = {exec[c] = "done"}

EmptyChan == [buf |-> None, closed |-> FALSE]

Init ==
    /\ caller = [c \in Calls |-> "start"]
    /\ ret = [c \in Calls |-> "none"]
    /\ exec = [c \in Calls |-> "none"]
    /\ by = [c \in Calls |-> None]
    /\ watcher = [c \in Calls |-> "none"]
    /\ ctxDone = [c \in Calls |-> FALSE]
    /\ combined = [c \in Calls |-> FALSE]
    /\ fetchErr = [c \in Calls |-> EmptyChan]
    /\ workErr = [c \in Calls |-> EmptyChan]
    /\ got = [c \in Calls |-> None]
    /\ worker = [w \in Workers |-> "gone"]
    /\ killed = FALSE
    /\ result = [c \in Calls |-> None]

-----------------------------------------------------------------------------
(* Channels.  A receive from a closed and empty one yields nil.            *)
Ready(chan) == chan.buf # None \/ chan.closed
Received(chan) == IF chan.buf # None THEN chan.buf ELSE "nil"

PutFetchErr(c, v) == fetchErr' = [fetchErr EXCEPT ![c].buf = v]
PutWorkErr(c, v) == workErr' = [workErr EXCEPT ![c].buf = v]

-----------------------------------------------------------------------------
(* Dispatch. *)
Returns(c, what) ==
    /\ caller' = [caller EXCEPT ![c] = "returned"]
    /\ ret' = [ret EXCEPT ![c] = what]

CheckCtx(c) ==
    /\ caller[c] = "start"
    /\ IF ctxDone[c] THEN Returns(c, "ctxErr")
       ELSE caller' = [caller EXCEPT ![c] = "send"] /\ UNCHANGED ret
    /\ UNCHANGED <<chanVars, execVars, ctxVars, got>>

(* The work goes to an idle worker, which enters Exec, derives `combined'  *)
(* and starts the watcher.                                                 *)
Send(c, w) ==
    /\ caller[c] = "send"
    /\ worker[w] = "idle"
    /\ caller' = [caller EXCEPT ![c] = "wait"]
    /\ worker' = [worker EXCEPT ![w] = "busy"]
    /\ exec' = [exec EXCEPT ![c] = "fetch"]
    /\ by' = [by EXCEPT ![c] = w]
    /\ combined' = [combined EXCEPT ![c] = ctxDone[c]]
    /\ watcher' = [watcher EXCEPT ![c] = "waiting"]
    /\ UNCHANGED <<ret, chanVars, result, ctxDone, killed, got>>

SendCtxDone(c) ==
    /\ caller[c] = "send" /\ ctxDone[c]
    /\ Returns(c, "ctxErr")
    /\ UNCHANGED <<chanVars, execVars, ctxVars, got>>

ReceiveOrCtxDone(c) ==
    /\ caller[c] = "wait"
    /\ \/ ctxDone[c] /\ Returns(c, "ctxErr")
       \/ /\ Ready(fetchErr[c])
          /\ Returns(c, IF Received(fetchErr[c]) = "nil" THEN "errCh"
                        ELSE "fetchErr")
    /\ UNCHANGED <<chanVars, execVars, ctxVars, got>>

ReceiveFetchErr(c) ==
    /\ caller[c] = "wait"
    /\ Ready(fetchErr[c])
    /\ Returns(c, IF Received(fetchErr[c]) = "nil" THEN "errCh"
                  ELSE "fetchErr")
    /\ UNCHANGED <<chanVars, execVars, ctxVars, got>>

(* Whoever got the channel reads it (Scheduler: the reserved function).    *)
Read(c) ==
    /\ ret[c] = "errCh" /\ got[c] = None
    /\ Ready(workErr[c])
    /\ got' = [got EXCEPT ![c] = Received(workErr[c])]
    /\ UNCHANGED <<callerVars, chanVars, execVars, ctxVars>>

-----------------------------------------------------------------------------
(* Exec. *)
Goes(c, from, to) ==
    /\ exec[c] = from
    /\ exec' = [exec EXCEPT ![c] = to]
    /\ UNCHANGED <<callerVars, ctxVars, by, worker, got>>

FetchOk(c) ==
    /\ Goes(c, "fetch", "lookup")
    /\ PutFetchErr(c, "nil")
    /\ UNCHANGED <<workErr, result>>

FetchFails(c) ==
    /\ Goes(c, "fetch", "cancel")
    /\ PutFetchErr(c, "err")
    /\ UNCHANGED <<workErr, result>>

(* The work id is registered, or it is not: ErrWorkIdNotFound.             *)
Lookup(c) ==
    \/ Goes(c, "lookup", "check") /\ UNCHANGED <<chanVars, result>>
    \/ /\ Goes(c, "lookup", "cancel")
       /\ PutWorkErr(c, "err")
       /\ result' = [result EXCEPT ![c] = "err"]
       /\ UNCHANGED fetchErr

CheckCombined(c) ==
    \/ ~combined[c] /\ Goes(c, "check", "work") /\ UNCHANGED <<chanVars, result>>
    \/ /\ combined[c]
       /\ Goes(c, "check", "cancel")
       /\ PutWorkErr(c, "canceled")
       /\ result' = [result EXCEPT ![c] = "canceled"]
       /\ UNCHANGED fetchErr

(* The work function returns; it says canceled only if its context is.     *)
WorkReturns(c) ==
    /\ Goes(c, "work", "cancel")
    /\ \E v \in Values :
          /\ v = "canceled" => combined[c]
          /\ PutWorkErr(c, v)
          /\ result' = [result EXCEPT ![c] = v]
    /\ UNCHANGED fetchErr

(* A panic or Goexit in the fetcher or the work function leaves Exec       *)
(* through the deferred calls only.                                        *)
ExitsAbnormally(c) ==
    /\ Abnormal
    /\ Goes(c, "fetch", "cancel") \/ Goes(c, "work", "cancel")
    /\ UNCHANGED <<chanVars, result>>

SkipCancel(c) ==
    Goes(c, "cancel", "close") /\ UNCHANGED <<chanVars, result>>

(* The deferred cancel(), which runs first. *)
DeferredCancel(c) ==
    /\ exec[c] = "cancel"
    /\ exec' = [exec EXCEPT ![c] = "close"]
    /\ combined' = [combined EXCEPT ![c] = TRUE]
    /\ UNCHANGED <<callerVars, chanVars, by, worker, result, ctxDone, watcher,
                   killed, got>>

CloseOnly(c, chans) ==
    /\ exec[c] = "close"
    /\ exec' = [exec EXCEPT ![c] = "done"]
    /\ fetchErr' = [fetchErr EXCEPT ![c].closed = "fetchErr" \in chans]
    /\ workErr' = [workErr EXCEPT ![c].closed = "workErr" \in chans]
    /\ \E then \in {"idle"} \cup IF result[c] = None /\ Abnormal
                                 THEN {"gone"} ELSE {} :
          worker' = [worker EXCEPT ![by[c]] = then]
    /\ UNCHANGED <<callerVars, ctxVars, by, result, got>>

CloseWorkErr(c) == CloseOnly(c, {"workErr"})
(* The deferred param.close(); the worker is idle again, or its goroutine  *)
(* ends, as it may after an abnormal exit.                                 *)
DeferredClose(c) ==
    /\ exec[c] = "close"
    /\ exec' = [exec EXCEPT ![c] = "done"]
    /\ fetchErr' = [fetchErr EXCEPT ![c].closed = TRUE]
    /\ workErr' = [workErr EXCEPT ![c].closed = TRUE]
    /\ \E then \in {"idle"} \cup IF result[c] = None /\ Abnormal
                                 THEN {"gone"} ELSE {} :
          worker' = [worker EXCEPT ![by[c]] = then]
    /\ UNCHANGED <<callerVars, ctxVars, by, result, got>>

(* The goroutine Exec starts. *)
Watch(c) ==
    /\ watcher[c] = "waiting"
    /\ combined[c] \/ ctxDone[c] \/ killed
    /\ watcher' = [watcher EXCEPT ![c] = "ended"]
    /\ combined' = [combined EXCEPT ![c] = TRUE]
    /\ UNCHANGED <<callerVars, chanVars, execVars, ctxDone, killed, got>>

-----------------------------------------------------------------------------
(* The context of a call ends, and with it `combined', which is derived    *)
(* from it.                                                                *)
CtxEnds(c) ==
    /\ ~ctxDone[c]
    /\ ctxDone' = [ctxDone EXCEPT ![c] = TRUE]
    /\ combined' = [combined EXCEPT ![c] = @ \/ exec[c] # "none"]
    /\ UNCHANGED <<callerVars, chanVars, execVars, watcher, killed, got>>

(* WorkerPool.Add, Remove and Kill.  A busy worker leaves when it is idle. *)
Add(w) ==
    /\ worker[w] = "gone" /\ ~killed
    /\ worker' = [worker EXCEPT ![w] = "idle"]
    /\ UNCHANGED <<callerVars, chanVars, exec, by, result, ctxVars, got>>

Leave(w) ==
    /\ worker[w] = "idle"
    /\ worker' = [worker EXCEPT ![w] = "gone"]
    /\ UNCHANGED <<callerVars, chanVars, exec, by, result, ctxVars, got>>

Kill ==
    /\ ~killed
    /\ killed' = TRUE
    /\ UNCHANGED <<callerVars, chanVars, execVars, ctxDone, combined, watcher,
                   got>>

-----------------------------------------------------------------------------
DispatchStep(c) ==
    \/ CheckCtx(c) \/ (\E w \in Workers : Send(c, w)) \/ SendCtxDone(c)
    \/ ReceiveFetchErr(c)

ExecProceeds(c) ==
    \/ FetchOk(c) \/ FetchFails(c) \/ Lookup(c) \/ CheckCombined(c)
    \/ DeferredCancel(c) \/ DeferredClose(c)

ExecStep(c) == ExecProceeds(c) \/ WorkReturns(c) \/ ExitsAbnormally(c)

Next ==
    \/ \E c \in Calls :
          DispatchStep(c) \/ ExecStep(c) \/ Read(c) \/ Watch(c) \/ CtxEnds(c)
    \/ \E w \in Workers : Add(w) \/ Leave(w)
    \/ Kill

(* Goroutines that can run do run, fetchers return, and a work function    *)
(* returns once its context is done; it may run for ever before that.      *)
(* Nothing makes contexts end, or workers come or go.                      *)
Fairness ==
    \A c \in Calls :
        /\ WF_vars(DispatchStep(c))
        /\ WF_vars(ExecProceeds(c))
        /\ WF_vars(combined[c] /\ WorkReturns(c))
        /\ WF_vars(Read(c))
        /\ WF_vars(Watch(c))

Spec == Init /\ [][Next]_vars /\ Fairness

-----------------------------------------------------------------------------
(* Dispatch does not outlive its context while it waits for a worker, and  *)
(* once one has taken the work it returns without looking at its context   *)
(* any more: every path through Exec, abnormal ones included, must make    *)
(* fetchErr readable.                                                      *)
DispatchReturns ==
    \A c \in Calls :
        (caller[c] = "wait" \/ (caller[c] = "send" /\ ctxDone[c]))
            ~> (caller[c] = "returned")

(* Every channel Dispatch hands out is answered once the context of the    *)
(* work is done, as it is when Exec leaves on any path: who reads it is    *)
(* not stuck (Scheduler's eventQueue would never report the task).         *)
ReaderIsAnswered ==
    \A c \in Calls : (ret[c] = "errCh" /\ combined[c]) ~> (got[c] # None)

(* The watcher of every Exec ends, also when no context ever does.         *)
WatcherEnds == \A c \in Calls : (exec[c] = "done") ~> (watcher[c] = "ended")

(* Kill reaches work that runs or has not started: its context ends, even  *)
(* if the work waits for nothing else.                                     *)
KillReachesWork ==
    \A c \in Calls : (killed /\ exec[c] # "none") ~> combined[c]

(* The four together: whoever waits inside the pool, or for it, stops      *)
(* waiting, whatever ends first.                                           *)
NobodyWaitsForEver ==
    DispatchReturns /\ ReaderIsAnswered /\ WatcherEnds /\ KillReachesWork

-----------------------------------------------------------------------------
(* How far a call has come, from the position of Exec and what it has put  *)
(* into the channels.                                                      *)
PhaseOf(c) ==
    CASE exec[c] = "none" -> "asked"
      [] exec[c] = "fetch" -> "fetching"
      [] exec[c] \in {"lookup", "check", "work"} -> "working"
      [] OTHER -> IF fetchErr[c].buf = "err" THEN "failed" ELSE "over"

OutcomeOf(c) ==
    IF PhaseOf(c) # "over" THEN None
    ELSE IF workErr[c].buf # None THEN workErr[c].buf ELSE "nil"

Told == [none |-> "nothing", ctxErr |-> "refused",
         fetchErr |-> "refused", errCh |-> "accepted"]

Contract == INSTANCE Dispatcher WITH
    phase <- [c \in Calls |-> PhaseOf(c)],
    outcome <- [c \in Calls |-> OutcomeOf(c)],
    told <- [c \in Calls |-> Told[ret[c]]],
    heard <- got

(* The worker pool provides what the scheduler relies on.                  *)
ImplementsDispatcher == Contract!DispatcherSpec
=============================================================================
