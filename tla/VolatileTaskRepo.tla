--------------------------- MODULE VolatileTaskRepo -------------------------
(***************************************************************************)
(* scheduler.volatileTaskRepo over a CronStore, which UpdateTasks may      *)
(* replace by another, and a goroutine that calls Scheduler.Step on it, as *)
(* the second loop of example/main.go does, and Retry when Step could not  *)
(* dispatch.                                                               *)
(*                                                                         *)
(* volatileTaskRepo.mu is held over a whole call, but not the mutex of the *)
(* store: EditTask may come between the Peek and the Pop of one            *)
(* MarkAsDispatched.  UpdateTasks takes the mutex, but TimerChannel does    *)
(* not: a Step that waits goes on waiting for the store it began with.  Of *)
(* Step this module keeps the calls into the repository and their order;   *)
(* Scheduler has it in full.                                               *)
(***************************************************************************)
EXTENDS CronStore

CONSTANT Replacement   (* the entries of the store UpdateTasks is called with; *)
                       (* bound: it is called once                             *)

ASSUME ReplacementAssumption ==
    /\ Replacement \subseteq Entries \ Bad
    /\ IsFiniteSet(Replacement)
    /\ \A e, f \in Replacement : Key[e] = Key[f] => e = f

(* def.Task{}, which GetById answers with when it fails.                   *)
ZeroTask == [id |-> 0]

ASSUME NoneAssumption ==
    None \notin Task \cup {ZeroTask} /\ None \notin {"edit", "retry"}

VARIABLES
    record,      (* volatileTaskRepo.record, as the set of its tasks       *)
    pc,          (* where Step is                                          *)
    next,        (* the task Step or dispatchTask works on                 *)
    lastTask,    (* Scheduler.lastTask                                     *)
    getNextErr,  (* Scheduler.getNextErr # nil                             *)
    working,     (* the tasks handed to workers, not reported yet          *)
    failed,      (* the task of the DispatchErr last returned, or None     *)
    replaced,    (* <<>>, or the timer of the replaced store, while Step   *)
                 (* waits for it                                           *)
    handedOut,   (* history: the tasks handed to workers from this store,  *)
                 (* those of a disturbed one once                          *)
    store,       (* history: the entries this store began with, where they *)
                 (* stood, the tasks made before it, and the one that was  *)
                 (* already popped                                         *)
    disturbed    (* history: what has come between, an edit of this store, *)
                 (* a retried dispatch, or None                            *)

stepVars == <<pc, next, lastTask, getNextErr, failed, replaced>>
workVars == <<working, handedOut>>
history == <<store, disturbed>>
vars == <<cronVars, record, stepVars, workVars, history>>

Option(S) == S \cup {None}
Recorded(t) == \E r \in record : r.id = t.id

TypeOK ==
    /\ CronTypeOK
    /\ record \subseteq Task
    /\ pc \in {"boot", "idle", "startTimer", "select", "getNext", "compare",
               "dispatch", "pop", "fetch", "redispatch"}
    /\ next \in Option(Task \cup {ZeroTask})
    /\ next # None <=> pc \in {"compare", "dispatch", "pop", "fetch", "redispatch"}
    /\ lastTask \in Option(Task)
    /\ getNextErr \in BOOLEAN
    /\ failed \in Option(Task \cup {ZeroTask})
    /\ replaced # <<>> => pc = "select" /\ replaced[1] \in Int \cup {None}
    /\ working \subseteq Task
    /\ handedOut \in Seq(Task)
    /\ store \in [of : SUBSET Entries, from : [Entries -> Nat], base : Nat,
                  due : Option(Task)]
    /\ disturbed \in {"edit", "retry", None}

Init ==
    /\ CronInit
    /\ record = {}
    /\ pc = "boot"
    /\ next = None
    /\ lastTask = None
    /\ getNextErr = FALSE
    /\ failed = None
    /\ replaced = <<>>
    /\ working = {}
    /\ handedOut = <<>>
    /\ store = [of |-> Initial, from |-> [e \in Entries |-> 0], base |-> 0,
                due |-> None]
    /\ disturbed = None

-----------------------------------------------------------------------------
Goes(from, to) == pc = from /\ pc' = to

Returns(from) ==
    /\ Goes(from, "idle")
    /\ next' = None
    /\ UNCHANGED failed

(* Step or Retry returns a DispatchErr, with the task it is about.         *)
ReturnsDispatchErr(from) ==
    /\ Goes(from, "idle")
    /\ next' = None
    /\ failed' = next

Boot ==
    /\ Goes("boot", "idle")
    /\ StartTimer
    /\ UNCHANGED <<record, next, lastTask, getNextErr, failed, replaced,
                   workVars, history>>

(* Step: the timer recovery, or what lastTask holds, or the select.        *)
Proceed(from) ==
    /\ getNextErr' = FALSE
    /\ lastTask' = None
    /\ failed' = None
    /\ next' = lastTask
    /\ Goes(from, IF lastTask = None THEN "select" ELSE "dispatch")
    /\ UNCHANGED <<record, replaced, workVars, history>>

Step == pc = "idle" /\ ~getNextErr /\ Proceed("idle") /\ UNCHANGED cronVars

StepStopTimer ==
    /\ getNextErr
    /\ Goes("idle", "startTimer")
    /\ StopTimer
    /\ failed' = None
    /\ UNCHANGED <<record, next, lastTask, getNextErr, replaced, workVars,
                   history>>

(* LastTimerUpdateError of a CronStore is always nil. *)
StepStartTimer == StartTimer /\ Proceed("startTimer")

(* Step leaves the select, and no longer waits for a replaced store.       *)
Wakes == pc = "select" /\ replaced' = <<>>

SelectCtxDone ==
    /\ Wakes /\ Returns("select")
    /\ UNCHANGED <<cronVars, record, lastTask, getNextErr, workVars, history>>

(* A result: MarkAsDone forgets the record, except for context.Canceled,   *)
(* when a Retry of TaskDone does.                                          *)
SelectResult ==
    /\ Wakes /\ Returns("select")
    /\ \E t \in working :
          /\ working' = working \ {t}
          /\ \/ record' = {r \in record : r.id # t.id}
             \/ UNCHANGED record
    /\ UNCHANGED <<cronVars, lastTask, getNextErr, handedOut, history>>

SelectTimer ==
    /\ Wakes /\ Goes("select", "getNext")
    /\ \/ replaced = <<>> /\ Receive
       \/ /\ replaced # <<>> /\ replaced[1] # None /\ replaced[1] <= now
          /\ UNCHANGED cronVars
    /\ UNCHANGED <<record, next, lastTask, getNextErr, failed, workVars,
                   history>>

GetNextUnrecorded ==
    /\ pc = "getNext"
    /\ \/ /\ schedule # {}
          /\ Goes("getNext", "compare")
          /\ next' = First
          /\ UNCHANGED <<record, getNextErr, failed>>
       \/ /\ schedule = {}
          /\ Returns("getNext")
          /\ getNextErr' = TRUE
          /\ UNCHANGED record
    /\ UNCHANGED <<cronVars, lastTask, replaced, workVars, history>>

GetNextUnchecked ==
    /\ Goes("getNext", "compare")
    /\ next' = IF schedule = {} THEN None ELSE First
    /\ record' = record \cup (IF schedule = {} THEN {} ELSE {First})
    /\ UNCHANGED <<cronVars, getNextErr, lastTask, failed, replaced, workVars,
                   history>>

(* GetNext: Peek, and the record. *)
GetNext ==
    /\ pc = "getNext"
    /\ \/ /\ schedule # {}
          /\ Goes("getNext", "compare")
          /\ next' = First
          /\ record' = record \cup {First}
          /\ UNCHANGED <<getNextErr, failed>>
       \/ /\ schedule = {}
          /\ Returns("getNext")
          /\ getNextErr' = TRUE
          /\ UNCHANGED record
    /\ UNCHANGED <<cronVars, lastTask, replaced, workVars, history>>

(* NextScheduled of a CronStore is the time of its first task.             *)
StepCompare ==
    /\ Returns("compare")
    /\ lastTask' = IF schedule # {} /\ First.sched = next.sched
                   THEN next ELSE lastTask
    /\ UNCHANGED <<cronVars, record, getNextErr, replaced, workVars, history>>

-----------------------------------------------------------------------------
(* Dispatch finds its context done before a worker takes the task. *)
DispatchCtxDone ==
    /\ \E from \in {"dispatch", "redispatch"} : ReturnsDispatchErr(from)
    /\ UNCHANGED <<cronVars, record, lastTask, getNextErr, replaced, workVars,
                   history>>

(* MarkAsDispatched up to the Pop: the task is first, or it is answered    *)
(* AlreadyCancelled, or, without a record, nil.                            *)
MarkAsDispatched ==
    /\ pc = "dispatch"
    /\ \/ /\ schedule # {} /\ First.id = next.id
          /\ Goes("dispatch", "pop")
          /\ UNCHANGED <<next, failed, record>>
       \/ /\ schedule = {}
          /\ ReturnsDispatchErr("dispatch")
          /\ UNCHANGED record
       \/ /\ schedule # {} /\ First.id # next.id /\ Recorded(next)
          /\ ReturnsDispatchErr("dispatch")
          /\ record' = {r \in record : r.id # next.id}
       \/ /\ schedule # {} /\ First.id # next.id /\ ~Recorded(next)
          /\ Goes("dispatch", "fetch")
          /\ UNCHANGED <<next, failed, record>>
    /\ UNCHANGED <<cronVars, lastTask, getNextErr, replaced, workVars, history>>

MarkAsDispatchedPop ==
    /\ pc = "pop"
    /\ \/ Pop /\ Goes("pop", "fetch") /\ UNCHANGED <<next, failed>>
       \/ schedule = {} /\ ReturnsDispatchErr("pop") /\ UNCHANGED cronVars
    /\ UNCHANGED <<record, lastTask, getNextErr, replaced, workVars, history>>

(* GetById, and the task goes to the worker. *)
DispatchFetch ==
    /\ \E from \in {"fetch", "redispatch"} :
          \/ /\ Returns(from)
             /\ Recorded(next)
             /\ working' = working \cup {next}
             /\ disturbed' = IF from = "redispatch" THEN "retry" ELSE disturbed
             /\ handedOut' = IF disturbed' # None /\ next \in ToSet(handedOut)
                             THEN handedOut ELSE Append(handedOut, next)
          \/ /\ ReturnsDispatchErr(from)
             /\ ~Recorded(next)
             /\ UNCHANGED <<workVars, disturbed>>
    /\ UNCHANGED <<cronVars, record, lastTask, getNextErr, replaced, store>>

(* Retry of a DispatchErr: GetById, whose answer replaces the task only if *)
(* it is an error, and dispatchTask, which does not mark it again.  Bound: *)
(* a task on record is retried in an undisturbed store only.               *)
RetryDispatch ==
    /\ failed # None /\ (disturbed = None \/ ~Recorded(failed))
    /\ Goes("idle", "redispatch")
    /\ next' = IF Recorded(failed) THEN failed ELSE ZeroTask
    /\ failed' = None
    /\ UNCHANGED <<cronVars, record, lastTask, getNextErr, replaced, workVars,
                   history>>

-----------------------------------------------------------------------------
(* UpdateTasks, with a store made by NewCronStore.  volatileTaskRepo.mu is *)
(* held from the Peek to the Pop of one call.                              *)
UpdateTasks ==
    /\ pc \notin {"boot", "pop"}
    /\ store.base = 0 /\ Replacement \cap Present = {}
    /\ issued + Cardinality(Replacement) <= MaxIssued
    /\ LET at == [e \in Entries |->
                    prev[e] + IF e \in Replacement THEN Period[e] ELSE 0]
       IN  /\ prev' = at
           /\ schedule' \in NewSchedules(Replacement, at, issued)
    /\ entries' = StoreOf(Replacement)
    /\ issued' = issued + Cardinality(Replacement)
    /\ started' = FALSE
    /\ timer' = None
    /\ replaced' = IF pc = "select" THEN <<timer>> ELSE <<>>
    /\ handedOut' = <<>>
    /\ store' = [of |-> Replacement, from |-> prev, base |-> issued,
                 due |-> IF pc = "fetch" THEN next ELSE None]
    /\ disturbed' = None
    /\ UNCHANGED <<now, record, pc, next, lastTask, getNextErr, failed, working>>

(* Whoever replaced the store starts it, at any time.                      *)
StartReplacement ==
    /\ store.base > 0 /\ ~started
    /\ StartTimer
    /\ UNCHANGED <<record, stepVars, workVars, history>>

(* Bound: the store UpdateTasks puts in is not edited, nor is one after a  *)
(* retried dispatch.                                                       *)
Edit ==
    /\ store.base = 0 /\ disturbed # "retry"
    /\ EditTask
    /\ disturbed' = "edit"
    /\ UNCHANGED <<record, stepVars, workVars, store>>

Tick == CronTick /\ UNCHANGED <<record, stepVars, workVars, history>>

Next ==
    \/ Boot \/ Step \/ StepStopTimer \/ StepStartTimer
    \/ SelectCtxDone \/ SelectResult \/ SelectTimer
    \/ GetNext \/ StepCompare
    \/ DispatchCtxDone \/ MarkAsDispatched \/ MarkAsDispatchedPop
    \/ DispatchFetch \/ RetryDispatch
    \/ UpdateTasks \/ StartReplacement \/ Edit \/ Tick

Spec == Init /\ [][Next]_vars

-----------------------------------------------------------------------------
(* The task Step has decided to dispatch is on record until its work is    *)
(* reported, although GetNext, the decision, MarkAsDispatched and GetById  *)
(* are separate calls and the store may be replaced in between: GetById of *)
(* the fetcher cannot miss, but for the zero task of a Retry.              *)
DispatchedIsRecorded ==
    /\ lastTask # None => Recorded(lastTask)
    /\ pc \in {"dispatch", "pop", "fetch"} => Recorded(next)
    /\ pc = "redispatch" => next = ZeroTask \/ Recorded(next)

(* The places in handedOut of the runs of an entry of this store.          *)
Runs(e) == {k \in DOMAIN handedOut : /\ handedOut[k].key = Key[e]
                                     /\ handedOut[k].id > store.base}

(* The last of these runs was for the occurrence before occ; if there is   *)
(* none, occ is the first after where the entry stood.                     *)
Follows(e, runs, occ) ==
    \/ runs = {} /\ occ = store.from[e] + Period[e]
    \/ \E last \in runs : /\ \A k \in runs : k <= last
                           /\ occ = handedOut[last].occ + Period[e]

(* Until somebody edits the store or retries a dispatch, the tasks handed  *)
(* out are, entry by entry, the consecutive occurrences from where the     *)
(* entry stood when the store was put in place: none twice, none left out, *)
(* in order, whatever the mutators add to their times and whenever         *)
(* contexts end.  Of a replaced store only a task it had already popped is *)
(* still handed out, whatever Step had chosen by then.                     *)
NoneLostNoneTwice ==
    disturbed = None =>
        /\ \A e \in store.of : \A k \in Runs(e) :
              Follows(e, {j \in Runs(e) : j < k}, handedOut[k].occ)
        /\ \A t \in ToSet(handedOut) : t.id > store.base \/ t = store.due

(* While Step waits on a started timer, it is armed for the first task,    *)
(* unless an earlier Step took that task up already and left it: its       *)
(* Dispatch was cut short by its context, or an edit had MarkAsDispatched  *)
(* pop another.  A Step that waits for a replaced store is excepted.       *)
TakenUp(t) == Recorded(t) \/ t \in ToSet(handedOut)

KeepsTicking ==
    pc = "select" /\ replaced = <<>> /\ started /\ schedule # {}
        => timer = First.sched \/ (timer = None /\ TakenUp(First))
=============================================================================
