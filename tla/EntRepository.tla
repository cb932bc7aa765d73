---------------------------- MODULE EntRepository ---------------------------
(***************************************************************************)
(* repository/ent over an SQL table, with a process that may crash and     *)
(* restart.  Each statement is atomic, an operation is not: a conditional  *)
(* UPDATE that matches no row is explained by a SELECT after it, and the   *)
(* row may have changed in between.                                        *)
(*                                                                         *)
(* Dispatchers take the next task, mark it, run it and mark it done, as    *)
(* Scheduler does; clients use the other operations.  Any statement of a   *)
(* dispatcher may fail and a result may be context.Canceled, which Step    *)
(* does not record: a marked task is then given up and stays dispatched.   *)
(* Retry of a failed dispatch is in Scheduler, not here.  The table        *)
(* survives a crash, all else is lost.  On start the process repairs the   *)
(* table as def.DispatchedReverter suggests.                               *)
(***************************************************************************)
EXTENDS Tasks, FiniteSets

CONSTANTS
    Dispatchers, Clients,
    ClientCalls,   (* the operations clients use                           *)
    Recovery,      (* the repairs a process may make on start              *)
    MaxCrashes     (* bound: crashes of a behaviour                        *)

ASSUME EntAssumption ==
    /\ Dispatchers \cap Clients = {}
    /\ Recovery \subseteq {"RevertDispatched", "CancelDispatched"}
    /\ Recovery # {}
    /\ MaxCrashes \in Nat

VARIABLES
    rows,        (* the table: state "absent" is no row                    *)
    added,       (* how many ids were given out                            *)
    pend,        (* per actor: the operation whose UPDATE matched no row   *)
    job,         (* per dispatcher: the task it has and how far it is      *)
    answer,      (* per actor: what the last operation answered            *)
    up,          (* the process runs                                       *)
    crashes,     (* how often it crashed                                   *)
    reverts,     (* history: how often it was repaired by RevertDispatched *)
    ran,         (* history: how often the work of a task was started      *)
    givenUp      (* history: the marked tasks the process that is up will  *)
                 (* not record: their fetch or their MarkAsDone failed, or *)
                 (* their result was context.Canceled                      *)

vars == <<rows, added, pend, job, answer, up, crashes, reverts, ran, givenUp>>

Actors == Dispatchers \cup Clients

Operation == {"UpdateById", "Cancel", "MarkAsDispatched", "MarkAsDone"}
Idle == [op |-> "none", id |-> 0]
NoJob == [id |-> 0, at |-> "none"]

(* matched: the UPDATE had an effect; err: the answer, "" for nil.         *)
NoAnswer == [matched |-> TRUE, err |-> ""]

TypeOK ==
    /\ rows \in [Ids -> Task]
    /\ added \in 0 .. MaxTasks
    /\ pend \in [Actors -> [op : Operation \cup {"none"}, id : 0 .. MaxTasks]]
    /\ job \in [Dispatchers -> [id : 0 .. MaxTasks,
                    at : {"none", "mark", "start", "run", "done"}]]
    /\ answer \in [Actors -> [matched : BOOLEAN,
                    err : {"", "id_not_found", "already_done",
                           "already_cancelled", "already_dispatched",
                           "not_dispatched"}]]
    /\ up \in BOOLEAN
    /\ crashes \in 0 .. MaxCrashes
    /\ reverts \in 0 .. crashes
    /\ ran \in [Ids -> 0 .. MaxCrashes + 2]
    /\ givenUp \in SUBSET Ids

Init ==
    /\ rows = [i \in Ids |-> NoTask]
    /\ added = 0
    /\ pend = [a \in Actors |-> Idle]
    /\ job = [d \in Dispatchers |-> NoJob]
    /\ answer = [a \in Actors |-> NoAnswer]
    /\ up = TRUE
    /\ crashes = 0
    /\ reverts = 0
    /\ ran = [i \in Ids |-> 0]
    /\ givenUp = {}

InState(s) == {i \in Ids : rows[i].state = s}
Ended == InState("cancelled") \cup InState("done") \cup InState("err")

-----------------------------------------------------------------------------
(* The statements. *)
(* UPDATE ... WHERE id = i AND state = s: the row becomes t, or no row     *)
(* matches and the explanation is still to come.                           *)
UpdateOne(a, op, i, s, t) ==
    /\ up /\ pend[a] = Idle
    /\ IF rows[i].state = s
       THEN /\ rows' = [rows EXCEPT ![i] = t]
            /\ answer' = [answer EXCEPT ![a] = [matched |-> TRUE, err |-> ""]]
            /\ UNCHANGED pend
       ELSE /\ pend' = [pend EXCEPT ![a] = [op |-> op, id |-> i]]
            /\ UNCHANGED <<rows, answer>>
    /\ UNCHANGED <<added, up, crashes, reverts, givenUp>>

ErrKindByState(op, t) ==
    IF t.state = "absent" THEN "id_not_found"
    ELSE IF t.state = "cancelled" THEN "already_cancelled"
    ELSE IF t.state \in {"done", "err"} THEN "already_done" ELSE ""

ErrKindOf(op, t) ==
    IF t.state = "absent" THEN "id_not_found"
    ELSE IF op = "MarkAsDone" THEN ErrKindMarkAsDone(t) ELSE ErrKindUpdate(t)

(* The SELECT of GetById and the error kind read off the row it finds.     *)
Explain(a) ==
    /\ up /\ pend[a] # Idle
    /\ answer' = [answer EXCEPT ![a] =
                    [matched |-> FALSE,
                     err |-> ErrKindOf(pend[a].op, rows[pend[a].id])]]
    /\ pend' = [pend EXCEPT ![a] = Idle]
    /\ UNCHANGED <<rows, added, up, crashes, reverts, givenUp>>

(* Tasks added within one tick have the same CreatedAt, and the database   *)
(* may answer any of them first.                                           *)
AddTask(c) ==
    /\ up /\ pend[c] = Idle
    /\ added < MaxTasks
    /\ added' = added + 1
    /\ \E p \in AddParam, created \in 1 .. added' :
          /\ \A i \in Ids : rows[i].created <= created
          /\ rows' = [rows EXCEPT ![added'] = ToTask(p, added', created)]
    /\ UNCHANGED <<pend, job, answer, up, crashes, reverts, ran, givenUp>>

(* UpdateById refuses what IsValid refuses, before any statement.          *)
UpdateById(c, i, p) ==
    UpdateOne(c, "UpdateById", i, "scheduled", Update(rows[i], p))

Cancelled(t) == [t EXCEPT !.state = "cancelled", !.cancelledAt = TRUE]

Cancel(c, i) == UpdateOne(c, "Cancel", i, "scheduled", Cancelled(rows[i]))

MarkInAnyState(a, i) ==
    UpdateOne(a, "MarkAsDispatched", i, rows[i].state,
              [rows[i] EXCEPT !.state = "dispatched", !.dispatchedAt = TRUE])

MarkAsDispatched(a, i) ==
    UpdateOne(a, "MarkAsDispatched", i, "scheduled",
              [rows[i] EXCEPT !.state = "dispatched", !.dispatchedAt = TRUE])

MarkAsDone(a, i, result) ==
    UpdateOne(a, "MarkAsDone", i, "dispatched",
              [rows[i] EXCEPT
                 !.state = IF result = "nil" THEN "done" ELSE "err",
                 !.doneAt = TRUE])

DeleteEnded(c) ==
    /\ up /\ pend[c] = Idle
    /\ rows' = [i \in Ids |-> IF i \in Ended THEN NoTask ELSE rows[i]]
    /\ UNCHANGED <<added, pend, job, answer, up, crashes, reverts, ran, givenUp>>

RowsKept == UNCHANGED rows

RevertDispatched ==
    rows' = [i \in Ids |->
               IF i \in InState("dispatched")
               THEN [rows[i] EXCEPT !.state = "scheduled"] ELSE rows[i]]

CancelDispatched ==
    rows' = [i \in Ids |->
               IF i \in InState("dispatched") THEN Cancelled(rows[i])
               ELSE rows[i]]

(* ORDER BY scheduled_at, priority DESC, created_at *)
Firsts == {i \in InState("scheduled") :
              \A j \in InState("scheduled") : ~Less(rows[j], rows[i])}

-----------------------------------------------------------------------------
(* A dispatcher. *)
JobGoes(d, i, at) == job' = [job EXCEPT ![d] = [id |-> i, at |-> at]]

GetNext(d) ==
    /\ up /\ job[d] = NoJob
    /\ \E i \in Firsts : JobGoes(d, i, "mark")
    /\ UNCHANGED <<rows, added, pend, answer, up, crashes, reverts, ran, givenUp>>

(* An answer of nil lets the work start, an error drops the task.          *)
Mark(d) ==
    /\ job[d].at = "mark"
    /\ MarkAsDispatched(d, job[d].id)
    /\ IF pend'[d] = Idle THEN JobGoes(d, job[d].id, "start")
                          ELSE UNCHANGED job
    /\ UNCHANGED ran

(* MarkAsDispatched fails without effect: the dispatch ends in an error.   *)
(* One that fails after its effect is a Mark whose fetch fails.            *)
MarkFails(d) ==
    /\ up /\ job[d].at = "mark" /\ pend[d] = Idle
    /\ job' = [job EXCEPT ![d] = NoJob]
    /\ UNCHANGED <<rows, added, pend, answer, up, crashes, reverts, ran, givenUp>>

(* The dispatcher is through with a task that stays dispatched.            *)
GiveUp(d) ==
    /\ job' = [job EXCEPT ![d] = NoJob]
    /\ givenUp' = givenUp \cup {job[d].id}
    /\ UNCHANGED <<rows, added, pend, answer, up, crashes, reverts, ran>>

(* After the mark GetById reads the task anew.  When it fails, or the      *)
(* context has ended, the fetcher returns the error and nothing is started.*)
Run(d) ==
    /\ up /\ job[d].at = "start"
    /\ \/ /\ JobGoes(d, job[d].id, "run")
          /\ ran' = [ran EXCEPT ![job[d].id] =
                        IF @ > MaxCrashes + 1 THEN @ ELSE @ + 1]
          /\ UNCHANGED <<rows, added, pend, answer, up, crashes, reverts, givenUp>>
       \/ GiveUp(d)

Record(d, result) ==
    /\ MarkAsDone(d, job[d].id, result)
    /\ IF pend'[d] = Idle THEN job' = [job EXCEPT ![d] = NoJob]
                          ELSE JobGoes(d, job[d].id, "done")
    /\ UNCHANGED ran

(* Step records a result of nil or an error, and not context.Canceled.     *)
(* Of that, and of a MarkAsDone that fails, the caller is told: it repeats *)
(* the MarkAsDone with Retry and is still at "run", or gives the task up.  *)
Finish(d) ==
    /\ up /\ job[d].at = "run"
    /\ \E result \in {"nil", "err", "canceled"} :
          \/ result # "canceled" /\ Record(d, result)
          \/ GiveUp(d)

(* An explanation that finds nothing wrong lets the work start as well.    *)
Explained(d) ==
    /\ Explain(d)
    /\ IF job[d].at = "mark" /\ answer'[d].err = ""
       THEN JobGoes(d, job[d].id, "start")
       ELSE job' = [job EXCEPT ![d] = NoJob]
    /\ UNCHANGED ran

(* A client. *)
ClientBegins(c) ==
    \/ "AddTask" \in ClientCalls /\ AddTask(c)
    \/ "DeleteEnded" \in ClientCalls /\ DeleteEnded(c)
    \/ /\ \E i \in 1 .. added :
             \/ /\ "UpdateById" \in ClientCalls
                /\ \E p \in UpdateParam \ {NoParam} : UpdateById(c, i, p)
             \/ "Cancel" \in ClientCalls /\ Cancel(c, i)
       /\ UNCHANGED <<job, ran>>

ClientExplained(c) == Explain(c) /\ UNCHANGED <<job, ran>>

-----------------------------------------------------------------------------
Crash ==
    /\ up /\ crashes < MaxCrashes
    /\ up' = FALSE
    /\ crashes' = crashes + 1
    /\ pend' = [a \in Actors |-> Idle]
    /\ job' = [d \in Dispatchers |-> NoJob]
    /\ answer' = [a \in Actors |-> NoAnswer]
    /\ givenUp' = {}
    /\ UNCHANGED <<rows, added, reverts, ran>>

Restart ==
    /\ ~up
    /\ up' = TRUE
    /\ \/ /\ "RevertDispatched" \in Recovery
          /\ RevertDispatched
          /\ reverts' = reverts + 1
       \/ /\ "CancelDispatched" \in Recovery
          /\ CancelDispatched
          /\ UNCHANGED reverts
    /\ UNCHANGED <<added, pend, job, answer, crashes, ran, givenUp>>

Dispatcher(d) ==
    \/ GetNext(d) \/ Mark(d) \/ MarkFails(d) \/ Explained(d)
    \/ Run(d) \/ Finish(d)

Next ==
    \/ \E d \in Dispatchers : Dispatcher(d)
    \/ \E c \in Clients : ClientBegins(c) \/ ClientExplained(c)
    \/ Crash
    \/ Restart

Spec == Init /\ [][Next]_vars

(* Dispatchers go on, clients finish what they began, and a process that   *)
(* crashed is started again.  A dispatcher that tries again and again to   *)
(* mark a task is not refused by the database every time.                  *)
FairSpec ==
    /\ Spec
    /\ WF_vars(Restart)
    /\ \A d \in Dispatchers : WF_vars(Dispatcher(d)) /\ SF_vars(Mark(d))
    /\ \A c \in Clients : WF_vars(ClientExplained(c))

-----------------------------------------------------------------------------
(* nil from an operation means it had its effect, although the UPDATE that *)
(* had none and the SELECT that explains it are two statements: no         *)
(* interleaving leaves the error kind empty.                               *)
NilMeansDone == \A a \in Actors : answer[a].err = "" => answer[a].matched

(* Two dispatchers never run one task, except after a crash: every run but *)
(* the first costs one that was repaired by RevertDispatched; one repaired *)
(* by CancelDispatched costs none.                                         *)
RunsCostCrashes == \A i \in Ids : ran[i] <= 1 + reverts

(* Whatever runs is dispatched in the table, so DeleteEnded cannot take    *)
(* its row away and its MarkAsDone will find it.                           *)
RunningIsDispatched ==
    \A d \in Dispatchers :
        job[d].at \in {"start", "run"} => rows[job[d].id].state = "dispatched"

(* No task is abandoned silently: with the process up, a dispatched task   *)
(* is in the hands of one dispatcher, or of none and then this process     *)
(* gave it up after its mark, by a failed fetch, a failed MarkAsDone or a  *)
(* result of context.Canceled.  What a crash or an earlier process left    *)
(* behind is not among them, and nothing but a restart gets at what was    *)
(* given up.                                                               *)
NoneAbandoned ==
    /\ givenUp \subseteq InState("dispatched")
    /\ up => \A i \in InState("dispatched") :
                Cardinality({d \in Dispatchers : job[d].id = i
                                /\ job[d].at \in {"start", "run"}})
                  = IF i \in givenUp THEN 0 ELSE 1

(* Whoever calls what, in whatever order: a task that ended is not revived, *)
(* only DeleteEnded takes it away.                                         *)
EndedIsFinal ==
    [][\A i \in Ended : rows'[i] \in {rows[i], NoTask}]_vars

=============================================================================
