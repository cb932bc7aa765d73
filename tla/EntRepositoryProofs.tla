------------------------- MODULE EntRepositoryProofs ------------------------
(***************************************************************************)
(* Proofs about EntRepository, for any number of dispatchers, clients,     *)
(* tasks, crashes and for either repair.                                   *)
(*                                                                         *)
(* The inductive invariant IInv says, besides types: the times of a row    *)
(* agree with its state; a row that an UPDATE did not match is not         *)
(* scheduled and does not become scheduled before the SELECT, for only a   *)
(* restart schedules a row again and it finds no call pending; what a      *)
(* dispatcher works on is dispatched and is its own; a dispatched row      *)
(* nobody works on was given up, and nobody works on one that was; and a   *)
(* row goes back to scheduled only when a restart has counted it.          *)
(***************************************************************************)
EXTENDS EntRepository, TasksProofs, FiniteSetTheorems

Working(d) == job[d].at \in {"start", "run"}

(* The three times ErrKind reads and the state the guards read.            *)
RowOK(t) ==
    /\ t.state = "absent" => t = NoTask
    /\ t.doneAt <=> (t.state \in {"done", "err"})
    /\ t.cancelledAt <=> (t.state = "cancelled")
    /\ t.state = "dispatched" => t.dispatchedAt

RowsOK == \A i \in Ids : RowOK(rows[i])

UnusedOK == \A i \in Ids : i > added => rows[i] = NoTask /\ ran[i] = 0

(* No MarkAsDone is ever pending: it always finds its row.                 *)
PendOK ==
    \A a \in Actors :
        \/ pend[a] = Idle
        \/ /\ pend[a].op \in {"UpdateById", "Cancel", "MarkAsDispatched"}
           /\ pend[a].id \in 1 .. added
           /\ rows[pend[a].id].state # "scheduled"

JobOK ==
    \A d \in Dispatchers :
        \/ job[d] = NoJob /\ pend[d] = Idle
        \/ job[d].at = "mark" /\ job[d].id \in 1 .. added
        \/ /\ Working(d) /\ job[d].id \in 1 .. added /\ pend[d] = Idle
           /\ rows[job[d].id].state = "dispatched"

OneWorks ==
    \A d, e \in Dispatchers :
        Working(d) /\ Working(e) /\ job[d].id = job[e].id => d = e

SomeoneWorks ==
    up => \A i \in InState("dispatched") :
             i \in givenUp \/ \E d \in Dispatchers : Working(d) /\ job[d].id = i

(* What was given up stays dispatched and comes into nobody's hands.       *)
GivenUpOK ==
    \A i \in givenUp :
        /\ i \in Ids /\ rows[i].state = "dispatched"
        /\ \A d \in Dispatchers : Working(d) => job[d].id # i

DownOK ==
    ~up => /\ \A a \in Actors : pend[a] = Idle
           /\ \A d \in Dispatchers : job[d] = NoJob
           /\ reverts < crashes
           /\ givenUp = {}

RunsOK ==
    /\ \A i \in Ids : /\ ran[i] <= 1 + reverts
                      /\ rows[i].state = "scheduled" => ran[i] <= reverts
    /\ \A d \in Dispatchers : job[d].at = "start" => ran[job[d].id] <= reverts

IInv ==
    /\ TypeOK
    /\ RowsOK
    /\ UnusedOK
    /\ PendOK
    /\ JobOK
    /\ OneWorks
    /\ SomeoneWorks
    /\ GivenUpOK
    /\ DownOK
    /\ RunsOK
    /\ NilMeansDone

-----------------------------------------------------------------------------
(* Lemmas about rows and calls. *)

LEMMA Bounds ==
  ASSUME TypeOK
  PROVE  /\ added \in Nat /\ added <= MaxTasks /\ MaxTasks \in Nat
         /\ 1 .. added \subseteq Ids
         /\ reverts \in Nat /\ crashes \in Nat /\ reverts <= crashes
         /\ crashes <= MaxCrashes /\ MaxCrashes \in Nat
         /\ \A i \in Ids : ran[i] \in Nat
  <1>1. /\ added \in 0 .. MaxTasks /\ crashes \in 0 .. MaxCrashes
        /\ reverts \in 0 .. crashes /\ ran \in [Ids -> 0 .. MaxCrashes + 2]
    BY DEF TypeOK
  <1>2. MaxTasks \in Nat /\ MaxCrashes \in Nat
    BY TasksAssumption, EntAssumption
  <1>3. \A i \in Ids : ran[i] \in Nat
    BY <1>1, <1>2
  <1>4. 1 .. added \subseteq Ids
    BY <1>1, <1>2 DEF Ids
  <1> QED BY <1>1, <1>2, <1>3, <1>4

(* The rows the statements write are as good as those they find.           *)
LEMMA UpdatedRow ==
  ASSUME NEW t \in Task, RowOK(t), t.state = "scheduled", NEW p \in UpdateParam
  PROVE  /\ Update(t, p) \in Task /\ RowOK(Update(t, p))
         /\ Update(t, p).state = "scheduled"
  BY UpdateType DEF RowOK

LEMMA CancelledRow ==
  ASSUME NEW t \in Task, RowOK(t), t.state \in {"scheduled", "dispatched"}
  PROVE  /\ Cancelled(t) \in Task /\ RowOK(Cancelled(t))
         /\ Cancelled(t).state = "cancelled"
  BY DEF Cancelled, RowOK, Task, States

LEMMA DispatchedRow ==
  ASSUME NEW t \in Task, RowOK(t), t.state = "scheduled"
  PROVE  LET u == [t EXCEPT !.state = "dispatched", !.dispatchedAt = TRUE]
         IN  u \in Task /\ RowOK(u) /\ u.state = "dispatched"
  BY DEF RowOK, Task, States

LEMMA RevertedRow ==
  ASSUME NEW t \in Task, RowOK(t), t.state = "dispatched"
  PROVE  LET u == [t EXCEPT !.state = "scheduled"]
         IN  u \in Task /\ RowOK(u) /\ u.state = "scheduled"
  BY DEF RowOK, Task, States

LEMMA DoneRow ==
  ASSUME NEW t \in Task, RowOK(t), t.state = "dispatched",
         NEW s \in {"done", "err"}
  PROVE  LET u == [t EXCEPT !.state = s, !.doneAt = TRUE]
         IN  u \in Task /\ RowOK(u) /\ u.state = s
  BY DEF RowOK, Task, States

LEMMA NewRow ==
  ASSUME NEW p \in AddParam, NEW i \in Ids, NEW c \in 1 .. MaxTasks
  PROVE  /\ ToTask(p, i, c) \in Task /\ RowOK(ToTask(p, i, c))
         /\ ToTask(p, i, c).state = "scheduled"
  <1>1. p \in UpdateParam
    BY DEF AddParam
  <1>2. i \in 0 .. MaxTasks /\ c \in 0 .. FarFuture
    BY TasksAssumption DEF Ids, FarFuture
  <1> QED BY <1>1, <1>2, ToTaskType DEF RowOK

(* An error kind that is read off a row in order is one of the six.        *)
LEMMA ErrKindType ==
  ASSUME NEW op, NEW t
  PROVE  ErrKindOf(op, t) \in {"", "id_not_found", "already_done",
                               "already_cancelled", "already_dispatched",
                               "not_dispatched"}
  BY DEF ErrKindOf, ErrKindMarkAsDone, ErrKindUpdate, ErrKind

(* Of a row that is not scheduled, the operations that need a scheduled    *)
(* one report an error.                                                    *)
LEMMA RefusedWithReason ==
  ASSUME NEW t \in Task, RowOK(t), t.state # "scheduled",
         NEW op \in {"UpdateById", "Cancel", "MarkAsDispatched"}
  PROVE  ErrKindOf(op, t) # ""
  <1>1. t.state \in {"absent", "dispatched", "cancelled", "done", "err"}
    BY DEF Task, States
  <1> QED BY <1>1 DEF ErrKindOf, ErrKindUpdate, ErrKind, RowOK

-----------------------------------------------------------------------------
(* Clients. *)

(* A client changes no job.  What it does to the rows is harmless: it      *)
(* keeps them in order, touches no dispatched row, makes none dispatched   *)
(* and schedules only a new one.                                           *)
RowsHarmless ==
    /\ rows' \in [Ids -> Task]
    /\ RowsOK'
    /\ UnusedOK'
    /\ \A i \in Ids :
          (rows[i].state = "dispatched") <=> (rows'[i].state = "dispatched")
    /\ \A i \in 1 .. added :
          rows'[i].state = "scheduled" => rows[i].state = "scheduled"

PendHarmless(c) ==
    /\ pend' \in [Actors -> [op : Operation \cup {"none"}, id : 0 .. MaxTasks]]
    /\ \A a \in Actors \ {c} : pend'[a] = pend[a]
    /\ \/ pend'[c] = Idle
       \/ /\ pend'[c].op \in {"UpdateById", "Cancel", "MarkAsDispatched"}
          /\ pend'[c].id \in 1 .. added
          /\ rows'[pend'[c].id].state # "scheduled"

AnswerOK ==
    /\ answer \in [Actors -> [matched : BOOLEAN,
                    err : {"", "id_not_found", "already_done",
                           "already_cancelled", "already_dispatched",
                           "not_dispatched"}]]
    /\ NilMeansDone

ClientChanges(c) ==
    /\ UNCHANGED <<job, up, crashes, reverts, ran, givenUp>>
    /\ up
    /\ added' \in added .. MaxTasks
    /\ RowsHarmless
    /\ PendHarmless(c)
    /\ AnswerOK'

LEMMA ClientStep ==
  ASSUME IInv, NEW c \in Clients, ClientChanges(c)
  PROVE  IInv'
  <1>1. /\ MaxTasks \in Nat /\ added \in Nat /\ 1 .. added \subseteq Ids
        /\ added <= MaxTasks /\ reverts \in Nat
    BY Bounds DEF IInv
  <1>2. added' \in added .. MaxTasks
    BY DEF ClientChanges
  <1>3. /\ added' \in Nat /\ 1 .. added \subseteq 1 .. added'
        /\ added' \in 0 .. MaxTasks
    BY <1>1, <1>2
  <1>4. \A i \in Ids : i > added \/ i \in 1 .. added
    BY <1>1 DEF Ids
  <1>5. Dispatchers \subseteq Actors \ {c} /\ c \in Actors
    BY EntAssumption DEF Actors
  <1>6. TypeOK'
    BY <1>3 DEF ClientChanges, RowsHarmless, PendHarmless, AnswerOK, IInv, TypeOK
  <1>7. RowsOK' /\ UnusedOK' /\ NilMeansDone'
    BY DEF ClientChanges, RowsHarmless, AnswerOK
  <1>8. PendOK'
    <2> SUFFICES ASSUME NEW a \in Actors, pend'[a] # Idle
                 PROVE  /\ pend'[a].op \in {"UpdateById", "Cancel",
                                            "MarkAsDispatched"}
                        /\ pend'[a].id \in 1 .. added'
                        /\ rows'[pend'[a].id].state # "scheduled"
      BY DEF PendOK
    <2>1. CASE a = c
      BY <2>1, <1>3 DEF ClientChanges, PendHarmless
    <2>2. CASE a # c
      <3>1. pend'[a] = pend[a]
        BY <2>2 DEF ClientChanges, PendHarmless
      <3>2. /\ pend[a].op \in {"UpdateById", "Cancel", "MarkAsDispatched"}
            /\ pend[a].id \in 1 .. added
            /\ rows[pend[a].id].state # "scheduled"
        BY <3>1 DEF IInv, PendOK
      <3>3. rows'[pend[a].id].state # "scheduled"
        BY <3>2 DEF ClientChanges, RowsHarmless
      <3> QED BY <3>1, <3>2, <3>3, <1>3
    <2> QED BY <2>1, <2>2
  <1>9. JobOK'
    BY <1>1, <1>3, <1>5
       DEF IInv, JobOK, Working, ClientChanges, RowsHarmless, PendHarmless
  <1>10. OneWorks' /\ SomeoneWorks' /\ GivenUpOK'
    BY DEF IInv, OneWorks, SomeoneWorks, GivenUpOK, Working, InState,
           ClientChanges, RowsHarmless
  <1>11. DownOK'
    BY DEF DownOK, ClientChanges
  <1>12. RunsOK'
    <2>1. ran' = ran /\ reverts' = reverts /\ job' = job
      BY DEF ClientChanges
    <2>2. ASSUME NEW i \in Ids, rows'[i].state = "scheduled"
          PROVE  ran[i] <= reverts
      <3>1. CASE i > added
        <4>1. ran[i] = 0
          BY <3>1 DEF IInv, UnusedOK
        <4> QED BY <4>1, <1>1
      <3>2. CASE i \in 1 .. added
        <4>1. rows[i].state = "scheduled"
          BY <3>2, <2>2 DEF ClientChanges, RowsHarmless
        <4> QED BY <4>1 DEF IInv, RunsOK
      <3> QED BY <1>4, <3>1, <3>2
    <2> QED BY <2>1, <2>2 DEF IInv, RunsOK
  <1> QED BY <1>6, <1>7, <1>8, <1>9, <1>10, <1>11, <1>12 DEF IInv

(* One row in use is replaced by another row in order.                     *)
LEMMA RowReplaced ==
  ASSUME IInv, NEW i \in 1 .. added, NEW t \in Task, RowOK(t),
         rows' = [rows EXCEPT ![i] = t], UNCHANGED <<added, ran>>
  PROVE  rows' \in [Ids -> Task] /\ RowsOK' /\ UnusedOK'
  <1>1. i \in Ids /\ added \in Nat
    BY Bounds DEF IInv
  <1>2. rows \in [Ids -> Task]
    BY DEF IInv, TypeOK
  <1>3. rows' \in [Ids -> Task]
    BY <1>1, <1>2
  <1>4. RowsOK'
    BY <1>1, <1>2 DEF IInv, RowsOK
  <1>5. UnusedOK'
    <2>1. \A j \in Ids : j > added => j # i
      BY <1>1
    <2> QED BY <1>2, <2>1 DEF IInv, UnusedOK
  <1> QED BY <1>3, <1>4, <1>5

(* A call whose UPDATE did or did not match.                               *)
LEMMA ClientUpdateOne ==
  ASSUME IInv, NEW c \in Clients, NEW i \in 1 .. added,
         NEW op \in {"UpdateById", "Cancel"}, NEW t,
         rows[i].state = "scheduled" =>
             /\ t \in Task /\ RowOK(t)
             /\ t.state \in {"scheduled", "cancelled"},
         UpdateOne(c, op, i, "scheduled", t), UNCHANGED <<job, ran>>
  PROVE  ClientChanges(c)
  <1>1. /\ up /\ pend[c] = Idle /\ added' = added
        /\ UNCHANGED <<job, up, crashes, reverts, ran, givenUp>>
    BY DEF UpdateOne
  <1>2. added \in Nat /\ MaxTasks \in Nat /\ added <= MaxTasks /\ i \in Ids
    BY Bounds DEF IInv
  <1>3. added' \in added .. MaxTasks
    BY <1>1, <1>2
  <1>4. c \in Actors /\ i \in 0 .. MaxTasks
    BY <1>2 DEF Actors, Ids
  <1>5. rows \in [Ids -> Task] /\ AnswerOK
        /\ pend \in [Actors -> [op : Operation \cup {"none"}, id : 0 .. MaxTasks]]
    BY DEF IInv, TypeOK, AnswerOK
  <1>6. CASE rows[i].state = "scheduled"
    <2>1. /\ rows' = [rows EXCEPT ![i] = t] /\ pend' = pend
          /\ answer' = [answer EXCEPT ![c] = [matched |-> TRUE, err |-> ""]]
      BY <1>6 DEF UpdateOne
    <2>2. rows' \in [Ids -> Task] /\ RowsOK' /\ UnusedOK'
      BY <1>1, <1>6, <2>1, RowReplaced
    <2>3. RowsHarmless
      <3>1. \A j \in Ids : rows'[j] = IF j = i THEN t ELSE rows[j]
        BY <1>5, <2>1
      <3>2. t.state # "dispatched" /\ 1 .. added \subseteq Ids
        BY <1>6, Bounds DEF IInv
      <3>3. \A j \in Ids :
               (rows[j].state = "dispatched") <=> (rows'[j].state = "dispatched")
        BY <1>6, <3>1, <3>2
      <3>4. \A j \in 1 .. added :
               rows'[j].state = "scheduled" => rows[j].state = "scheduled"
        BY <1>6, <3>1, <3>2
      <3> QED BY <2>2, <3>3, <3>4 DEF RowsHarmless
    <2>4. PendHarmless(c)
      BY <1>1, <1>5, <2>1 DEF PendHarmless
    <2>5. AnswerOK'
      BY <1>4, <1>5, <2>1 DEF AnswerOK, NilMeansDone
    <2> QED BY <1>1, <1>3, <2>3, <2>4, <2>5 DEF ClientChanges
  <1>7. CASE rows[i].state # "scheduled"
    <2>1. /\ rows' = rows /\ answer' = answer
          /\ pend' = [pend EXCEPT ![c] = [op |-> op, id |-> i]]
      BY <1>7 DEF UpdateOne
    <2>2. RowsHarmless
      BY <1>1, <1>5, <2>1 DEF RowsHarmless, IInv, RowsOK, UnusedOK
    <2>3. PendHarmless(c)
      BY <1>4, <1>5, <1>7, <2>1 DEF PendHarmless, Operation
    <2>4. AnswerOK'
      BY <1>5, <2>1 DEF AnswerOK, NilMeansDone
    <2> QED BY <1>1, <1>3, <2>2, <2>3, <2>4 DEF ClientChanges
  <1> QED BY <1>6, <1>7

LEMMA AddTaskStep ==
  ASSUME IInv, NEW c \in Clients, AddTask(c)
  PROVE  ClientChanges(c)
  <1>1. /\ up /\ added < MaxTasks /\ added' = added + 1
        /\ UNCHANGED <<pend, job, answer, up, crashes, reverts, ran, givenUp>>
        /\ pend[c] = Idle
    BY DEF AddTask
  <1>2. /\ added \in Nat /\ MaxTasks \in Nat
        /\ added' \in Ids /\ added' \in added .. MaxTasks
        /\ 1 .. added' \subseteq 1 .. MaxTasks
    BY <1>1, Bounds DEF IInv, Ids
  <1>3. PICK p \in AddParam, created \in 1 .. added' :
              rows' = [rows EXCEPT ![added'] = ToTask(p, added', created)]
    BY DEF AddTask
  <1> DEFINE t == ToTask(p, added', created)
  <1>4. t \in Task /\ RowOK(t) /\ t.state = "scheduled"
    BY <1>2, NewRow
  <1> HIDE DEF t
  <1>5. rows \in [Ids -> Task] /\ rows' = [rows EXCEPT ![added'] = t]
    BY <1>3 DEF IInv, TypeOK, t
  <1>6. rows[added'].state = "absent"
    <2>1. added' > added
      BY <1>1, <1>2
    <2> QED BY <1>2, <2>1 DEF IInv, UnusedOK, NoTask
  <1>7. RowsHarmless
    <2>1. rows' \in [Ids -> Task]
      BY <1>4, <1>5
    <2>2. RowsOK'
      BY <1>4, <1>5 DEF IInv, RowsOK
    <2>3. UnusedOK'
      <3>1. \A i \in Ids : i > added' => i > added /\ i # added'
        BY <1>1, <1>2 DEF Ids
      <3> QED BY <1>1, <1>5, <3>1 DEF IInv, UnusedOK
    <2>4. \A i \in Ids :
             (rows[i].state = "dispatched") <=> (rows'[i].state = "dispatched")
      BY <1>4, <1>5, <1>6
    <2>5. \A i \in 1 .. added : i # added' /\ i \in Ids
      BY <1>1, <1>2 DEF Ids
    <2>6. \A i \in 1 .. added : rows'[i] = rows[i]
      BY <1>5, <2>5
    <2> QED BY <2>1, <2>2, <2>3, <2>4, <2>6 DEF RowsHarmless
  <1>8. PendHarmless(c)
    BY <1>1 DEF IInv, TypeOK, PendHarmless
  <1>9. AnswerOK'
    BY <1>1 DEF IInv, TypeOK, AnswerOK, NilMeansDone
  <1> QED BY <1>1, <1>2, <1>7, <1>8, <1>9 DEF ClientChanges

LEMMA DeleteEndedStep ==
  ASSUME IInv, NEW c \in Clients, DeleteEnded(c)
  PROVE  ClientChanges(c)
  <1>1. /\ up /\ pend[c] = Idle
        /\ UNCHANGED <<added, pend, job, answer, up, crashes, reverts, ran, givenUp>>
        /\ rows' = [i \in Ids |-> IF i \in Ended THEN NoTask ELSE rows[i]]
    BY DEF DeleteEnded
  <1>2. added' \in added .. MaxTasks
    BY <1>1, Bounds DEF IInv
  <1>3. rows \in [Ids -> Task] /\ NoTask \in Task /\ NoTask.state = "absent"
    BY NoTaskType DEF IInv, TypeOK, NoTask
  <1>4. RowsHarmless
    <2>1. rows' \in [Ids -> Task]
      BY <1>1, <1>3
    <2>2. RowOK(NoTask)
      BY DEF RowOK, NoTask
    <2>3. RowsOK' /\ UnusedOK'
      BY <1>1, <2>2 DEF IInv, RowsOK, UnusedOK
    <2>4. \A i \in Ids : rows'[i] = rows[i]
             \/ (rows'[i].state = "absent" /\ rows[i].state # "dispatched")
      BY <1>1, <1>3 DEF Ended, InState
    <2>5. 1 .. added \subseteq Ids
      BY Bounds DEF IInv
    <2> QED BY <2>1, <2>3, <2>4, <2>5 DEF RowsHarmless
  <1>5. PendHarmless(c)
    BY <1>1 DEF IInv, TypeOK, PendHarmless
  <1>6. AnswerOK'
    BY <1>1 DEF IInv, TypeOK, AnswerOK, NilMeansDone
  <1> QED BY <1>1, <1>2, <1>4, <1>5, <1>6 DEF ClientChanges

(* The SELECT finds a row that is still not scheduled: it has a reason.    *)
LEMMA ExplainGivesReason ==
  ASSUME IInv, NEW a \in Actors, Explain(a)
  PROVE  /\ up /\ UNCHANGED <<rows, added, up, crashes, reverts, givenUp>>
         /\ pend' = [pend EXCEPT ![a] = Idle]
         /\ answer'[a].err # ""
         /\ AnswerOK'
  <1>1. /\ up /\ pend[a] # Idle
        /\ UNCHANGED <<rows, added, up, crashes, reverts, givenUp>>
        /\ pend' = [pend EXCEPT ![a] = Idle]
    BY DEF Explain
  <1> DEFINE kind == ErrKindOf(pend[a].op, rows[pend[a].id])
  <1>2. answer' = [answer EXCEPT ![a] = [matched |-> FALSE, err |-> kind]]
    BY DEF Explain
  <1>3. /\ pend[a].op \in {"UpdateById", "Cancel", "MarkAsDispatched"}
        /\ pend[a].id \in Ids /\ rows[pend[a].id].state # "scheduled"
    BY <1>1, Bounds DEF IInv, PendOK
  <1>4. kind # ""
    BY <1>3, RefusedWithReason DEF IInv, TypeOK, RowsOK
  <1>5. kind \in {"", "id_not_found", "already_done", "already_cancelled",
                  "already_dispatched", "not_dispatched"}
    BY ErrKindType
  <1> HIDE DEF kind
  <1>6. answer \in [Actors -> [matched : BOOLEAN,
                    err : {"", "id_not_found", "already_done",
                           "already_cancelled", "already_dispatched",
                           "not_dispatched"}]]
    BY DEF IInv, TypeOK
  <1>7. answer'[a].err # "" /\ AnswerOK'
    BY <1>2, <1>4, <1>5, <1>6 DEF IInv, AnswerOK, NilMeansDone
  <1> QED BY <1>1, <1>7

LEMMA IdleType == Idle \in [op : Operation \cup {"none"}, id : 0 .. MaxTasks]
  BY TasksAssumption DEF Idle

LEMMA ClientSteps ==
  ASSUME IInv, NEW c \in Clients, ClientBegins(c) \/ ClientExplained(c)
  PROVE  IInv'
  <1> SUFFICES ClientChanges(c)
    BY ClientStep
  <1>1. c \in Actors
    BY DEF Actors
  <1>2. CASE AddTask(c)
    BY <1>2, AddTaskStep
  <1>3. CASE DeleteEnded(c)
    BY <1>3, DeleteEndedStep
  <1>4. ASSUME NEW i \in 1 .. added, NEW p \in UpdateParam \ {NoParam},
               UpdateById(c, i, p), UNCHANGED <<job, ran>>
        PROVE  ClientChanges(c)
    <2>1. rows[i] \in Task /\ RowOK(rows[i])
      BY Bounds DEF IInv, TypeOK, RowsOK
    <2>2. rows[i].state = "scheduled" =>
             /\ Update(rows[i], p) \in Task /\ RowOK(Update(rows[i], p))
             /\ Update(rows[i], p).state \in {"scheduled", "cancelled"}
      BY <2>1, UpdatedRow
    <2> QED BY <1>4, <2>2, ClientUpdateOne DEF UpdateById
  <1>5. ASSUME NEW i \in 1 .. added, Cancel(c, i), UNCHANGED <<job, ran>>
        PROVE  ClientChanges(c)
    <2>1. rows[i] \in Task /\ RowOK(rows[i])
      BY Bounds DEF IInv, TypeOK, RowsOK
    <2>2. rows[i].state = "scheduled" =>
             /\ Cancelled(rows[i]) \in Task /\ RowOK(Cancelled(rows[i]))
             /\ Cancelled(rows[i]).state \in {"scheduled", "cancelled"}
      BY <2>1, CancelledRow
    <2> QED BY <1>5, <2>2, ClientUpdateOne DEF Cancel
  <1>6. CASE ClientExplained(c)
    <2>1. /\ up /\ UNCHANGED <<rows, added, up, crashes, reverts, job, ran, givenUp>>
          /\ pend' = [pend EXCEPT ![c] = Idle] /\ AnswerOK'
      BY <1>1, <1>6, ExplainGivesReason DEF ClientExplained
    <2>2. added' \in added .. MaxTasks
      BY <2>1, Bounds DEF IInv
    <2>3. RowsHarmless
      BY <2>1 DEF IInv, TypeOK, RowsOK, UnusedOK, RowsHarmless
    <2>4. PendHarmless(c)
      BY <1>1, <2>1, IdleType DEF IInv, TypeOK, PendHarmless
    <2> QED BY <2>1, <2>2, <2>3, <2>4 DEF ClientChanges
  <1> QED BY <1>2, <1>3, <1>4, <1>5, <1>6 DEF ClientBegins

-----------------------------------------------------------------------------
(* Dispatchers. *)

LEMMA InitIInv == Init => IInv
  <1> SUFFICES ASSUME Init PROVE IInv
    OBVIOUS
  <1>1. MaxTasks \in Nat /\ MaxCrashes \in Nat
    BY TasksAssumption, EntAssumption
  <1>2. TypeOK
    <2>1. rows \in [Ids -> Task] /\ ran \in [Ids -> 0 .. MaxCrashes + 2]
      BY <1>1, NoTaskType DEF Init
    <2>2. pend \in [Actors -> [op : Operation \cup {"none"}, id : 0 .. MaxTasks]]
      BY IdleType DEF Init
    <2>3. job \in [Dispatchers -> [id : 0 .. MaxTasks,
                       at : {"none", "mark", "start", "run", "done"}]]
      BY <1>1 DEF Init, NoJob
    <2>4. answer \in [Actors -> [matched : BOOLEAN,
                    err : {"", "id_not_found", "already_done",
                           "already_cancelled", "already_dispatched",
                           "not_dispatched"}]]
      BY DEF Init, NoAnswer
    <2>5. /\ added \in 0 .. MaxTasks /\ up \in BOOLEAN
          /\ crashes \in 0 .. MaxCrashes /\ reverts \in 0 .. crashes
          /\ givenUp \in SUBSET Ids
      BY <1>1 DEF Init
    <2> QED BY <2>1, <2>2, <2>3, <2>4, <2>5 DEF TypeOK
  <1>3. RowsOK /\ UnusedOK
    BY DEF Init, RowsOK, UnusedOK, RowOK, NoTask
  <1>4. PendOK
    BY DEF Init, PendOK
  <1>5. JobOK
    BY DEF Init, JobOK, Actors
  <1>6. OneWorks /\ SomeoneWorks /\ GivenUpOK
    BY DEF Init, OneWorks, SomeoneWorks, GivenUpOK, Working, NoJob, InState,
           NoTask
  <1>7. DownOK
    BY DEF Init, DownOK
  <1>8. RunsOK
    BY DEF Init, RunsOK, NoJob
  <1>9. NilMeansDone
    BY DEF Init, NilMeansDone, NoAnswer
  <1> QED BY <1>2, <1>3, <1>4, <1>5, <1>6, <1>7, <1>8, <1>9 DEF IInv

LEMMA JobType ==
  ASSUME NEW i \in 0 .. MaxTasks,
         NEW at \in {"none", "mark", "start", "run", "done"}
  PROVE  [id |-> i, at |-> at] \in [id : 0 .. MaxTasks,
                    at : {"none", "mark", "start", "run", "done"}]
  OBVIOUS

LEMMA GetNextStep ==
  ASSUME IInv, NEW d \in Dispatchers, GetNext(d)
  PROVE  IInv'
  <1>1. /\ up /\ job[d] = NoJob
        /\ UNCHANGED <<rows, added, pend, answer, up, crashes, reverts, ran, givenUp>>
    BY DEF GetNext
  <1>2. PICK i \in Firsts : job' = [job EXCEPT ![d] = [id |-> i, at |-> "mark"]]
    BY DEF GetNext, JobGoes
  <1>3. i \in Ids /\ rows[i].state = "scheduled"
    BY DEF Firsts, InState
  <1>4. i \in 1 .. added
    <2>1. ~(i > added)
      BY <1>3 DEF IInv, UnusedOK, NoTask
    <2> QED BY <1>3, <2>1, Bounds DEF IInv, Ids
  <1>5. i \in 0 .. MaxTasks
    BY <1>3 DEF Ids
  <1>6. TypeOK'
    BY <1>1, <1>2, <1>5, JobType DEF IInv, TypeOK
  <1>7. RowsOK' /\ UnusedOK' /\ PendOK' /\ NilMeansDone'
    BY <1>1 DEF IInv, RowsOK, UnusedOK, PendOK, NilMeansDone
  <1>8. \A e \in Dispatchers :
           job'[e] = IF e = d THEN [id |-> i, at |-> "mark"] ELSE job[e]
    BY <1>2 DEF IInv, TypeOK
  <1>9. JobOK'
    BY <1>1, <1>4, <1>8 DEF IInv, JobOK, Working
  <1>10. OneWorks'
    BY <1>8 DEF IInv, OneWorks, Working
  <1>11. SomeoneWorks' /\ GivenUpOK'
    BY <1>1, <1>8 DEF IInv, SomeoneWorks, GivenUpOK, Working, InState, NoJob
  <1>12. DownOK'
    BY <1>1 DEF DownOK
  <1>13. RunsOK'
    BY <1>1, <1>8 DEF IInv, RunsOK
  <1> QED BY <1>6, <1>7, <1>9, <1>10, <1>11, <1>12, <1>13 DEF IInv

LEMMA MarkStep ==
  ASSUME IInv, NEW d \in Dispatchers, Mark(d)
  PROVE  IInv'
  <1> DEFINE i == job[d].id
             t == [rows[i] EXCEPT !.state = "dispatched", !.dispatchedAt = TRUE]
  <1>1. /\ job[d].at = "mark" /\ pend[d] = Idle /\ up
        /\ UNCHANGED <<added, up, crashes, reverts, ran, givenUp>>
        /\ UpdateOne(d, "MarkAsDispatched", i, "scheduled", t)
    BY DEF Mark, MarkAsDispatched, UpdateOne
  <1>2. i \in 1 .. added /\ i \in Ids /\ i \in 0 .. MaxTasks /\ d \in Actors
    <2>1. i \in 1 .. added
      BY <1>1 DEF IInv, JobOK, Working, NoJob
    <2> QED BY <2>1, Bounds DEF IInv, Ids, Actors
  <1>3. /\ rows \in [Ids -> Task]
        /\ pend \in [Actors -> [op : Operation \cup {"none"}, id : 0 .. MaxTasks]]
        /\ job \in [Dispatchers -> [id : 0 .. MaxTasks,
                       at : {"none", "mark", "start", "run", "done"}]]
        /\ answer \in [Actors -> [matched : BOOLEAN,
                    err : {"", "id_not_found", "already_done",
                           "already_cancelled", "already_dispatched",
                           "not_dispatched"}]]
    BY DEF IInv, TypeOK
  <1>4. CASE rows[i].state = "scheduled"
    <2>1. t \in Task /\ RowOK(t) /\ t.state = "dispatched"
      BY <1>2, <1>3, <1>4, DispatchedRow DEF IInv, RowsOK
    <2>2. /\ rows' = [rows EXCEPT ![i] = t] /\ pend' = pend
          /\ answer' = [answer EXCEPT ![d] = [matched |-> TRUE, err |-> ""]]
      BY <1>1, <1>4 DEF UpdateOne
    <2>3. job' = [job EXCEPT ![d] = [id |-> i, at |-> "start"]]
      BY <1>1, <2>2 DEF Mark, JobGoes
    <2> HIDE DEF t
    <2>4. \A e \in Dispatchers :
             job'[e] = IF e = d THEN [id |-> i, at |-> "start"] ELSE job[e]
      BY <1>3, <2>3
    <2>5. \A j \in Ids : rows'[j] = IF j = i THEN t ELSE rows[j]
      BY <1>3, <2>2
    <2>6. rows' \in [Ids -> Task] /\ RowsOK' /\ UnusedOK'
      BY <1>1, <1>2, <2>1, <2>2, RowReplaced
    <2>7. TypeOK'
      <3>1. job' \in [Dispatchers -> [id : 0 .. MaxTasks,
                          at : {"none", "mark", "start", "run", "done"}]]
        BY <1>2, <1>3, <2>3, JobType
      <3>2. answer' \in [Actors -> [matched : BOOLEAN,
                    err : {"", "id_not_found", "already_done",
                           "already_cancelled", "already_dispatched",
                           "not_dispatched"}]]
        BY <1>3, <2>2
      <3> QED BY <1>1, <2>2, <2>6, <3>1, <3>2 DEF IInv, TypeOK
    <2>8. PendOK'
      <3>1. ASSUME NEW a \in Actors, pend[a] # Idle
            PROVE  /\ pend[a].op \in {"UpdateById", "Cancel", "MarkAsDispatched"}
                   /\ pend[a].id \in 1 .. added
                   /\ rows'[pend[a].id].state # "scheduled"
        <4>1. /\ pend[a].op \in {"UpdateById", "Cancel", "MarkAsDispatched"}
              /\ pend[a].id \in 1 .. added
              /\ rows[pend[a].id].state # "scheduled"
          BY <3>1 DEF IInv, PendOK
        <4>2. pend[a].id \in Ids
          BY <4>1, Bounds DEF IInv
        <4> QED BY <2>1, <2>5, <4>1, <4>2
      <3>2. pend' = pend /\ added' = added
        BY <1>1, <2>2
      <3> QED BY <3>1, <3>2 DEF PendOK
    <2>9. \A e \in Dispatchers : Working(e) => job[e].id # i /\ job[e].id \in Ids
      <3>1. \A e \in Dispatchers : Working(e) =>
               rows[job[e].id].state = "dispatched" /\ job[e].id \in 1 .. added
        BY DEF IInv, JobOK, Working, NoJob
      <3> QED BY <1>4, <3>1, Bounds DEF IInv
    <2>10. JobOK'
      <3> SUFFICES ASSUME NEW e \in Dispatchers
                   PROVE  \/ job'[e] = NoJob /\ pend'[e] = Idle
                          \/ job'[e].at = "mark" /\ job'[e].id \in 1 .. added'
                          \/ /\ Working(e)' /\ job'[e].id \in 1 .. added'
                             /\ pend'[e] = Idle
                             /\ rows'[job'[e].id].state = "dispatched"
        BY DEF JobOK, Working
      <3>1. CASE e = d
        <4>1. job'[e].at = "start" /\ job'[e].id = i
          BY <3>1, <2>4
        <4>2. rows'[i].state = "dispatched" /\ pend'[e] = Idle /\ i \in 1 .. added'
          BY <3>1, <1>1, <1>2, <2>1, <2>2, <2>5
        <4> QED BY <4>1, <4>2 DEF Working
      <3>2. CASE e # d
        <4>1. job'[e] = job[e]
          BY <3>2, <2>4
        <4>2. pend'[e] = pend[e] /\ added' = added
          BY <3>2, <1>1, <2>2
        <4>3. \/ job[e] = NoJob /\ pend[e] = Idle
              \/ job[e].at = "mark" /\ job[e].id \in 1 .. added
              \/ /\ Working(e) /\ job[e].id \in 1 .. added
                 /\ pend[e] = Idle
                 /\ rows[job[e].id].state = "dispatched"
          BY DEF IInv, JobOK, Working
        <4>4. Working(e) => rows'[job[e].id].state = "dispatched"
          BY <4>3, <2>5, <2>9 DEF Working, NoJob
        <4>5. Working(e)' <=> Working(e)
          BY <4>1 DEF Working
        <4> QED BY <4>1, <4>2, <4>3, <4>4, <4>5
      <3> QED BY <3>1, <3>2
    <2>11. OneWorks'
      BY <2>4, <2>9 DEF IInv, OneWorks, Working
    <2>12. SomeoneWorks'
      <3> SUFFICES ASSUME NEW j \in Ids, rows'[j].state = "dispatched",
                          j \notin givenUp
                   PROVE  \E e \in Dispatchers : Working(e)' /\ job'[e].id = j
        BY <1>1 DEF SomeoneWorks, InState
      <3>1. CASE j = i
        BY <3>1, <2>4 DEF Working
      <3>2. CASE j # i
        <4>1. PICK e \in Dispatchers : Working(e) /\ job[e].id = j
          BY <1>1, <3>2, <2>5 DEF IInv, SomeoneWorks, InState
        <4>2. e # d
          BY <1>1, <4>1 DEF Working
        <4> QED BY <4>1, <4>2, <2>4 DEF Working
      <3> QED BY <3>1, <3>2
    <2>13. GivenUpOK'
      <3> SUFFICES ASSUME NEW j \in givenUp
                   PROVE  /\ j \in Ids /\ rows'[j].state = "dispatched"
                          /\ \A e \in Dispatchers : Working(e)' => job'[e].id # j
        BY <1>1 DEF GivenUpOK
      <3>1. /\ j \in Ids /\ rows[j].state = "dispatched"
            /\ \A e \in Dispatchers : Working(e) => job[e].id # j
        BY DEF IInv, GivenUpOK
      <3>2. j # i
        BY <1>4, <3>1
      <3> QED BY <2>4, <2>5, <3>1, <3>2 DEF Working
    <2>14. DownOK'
      BY <1>1 DEF DownOK
    <2>15. RunsOK'
      <3>1. ran[i] <= reverts
        BY <1>2, <1>4 DEF IInv, RunsOK
      <3>2. \A e \in Dispatchers : job'[e].at = "start" => ran[job'[e].id] <= reverts
        BY <2>4, <3>1 DEF IInv, RunsOK
      <3>3. \A j \in Ids : rows'[j].state = "scheduled" => rows[j].state = "scheduled"
        BY <2>1, <2>5
      <3> QED BY <1>1, <3>2, <3>3 DEF IInv, RunsOK
    <2>16. NilMeansDone'
      BY <1>2, <1>3, <2>2 DEF IInv, NilMeansDone
    <2> QED BY <2>6, <2>7, <2>8, <2>10, <2>11, <2>12, <2>13, <2>14, <2>15,
               <2>16 DEF IInv
  <1>5. CASE rows[i].state # "scheduled"
    <2>1. /\ UNCHANGED <<rows, answer>>
          /\ pend' = [pend EXCEPT ![d] = [op |-> "MarkAsDispatched", id |-> i]]
      BY <1>1, <1>5 DEF UpdateOne
    <2>2. job' = job
      <3>1. pend'[d] # Idle
        BY <1>2, <1>3, <2>1 DEF Idle
      <3> QED BY <3>1 DEF Mark
    <2>3. TypeOK'
      <3>1. pend' \in [Actors -> [op : Operation \cup {"none"}, id : 0 .. MaxTasks]]
        BY <1>2, <1>3, <2>1 DEF Operation
      <3> QED BY <1>1, <2>1, <2>2, <3>1 DEF IInv, TypeOK
    <2>4. RowsOK' /\ UnusedOK' /\ NilMeansDone' /\ RunsOK'
      BY <1>1, <2>1, <2>2 DEF IInv, RowsOK, UnusedOK, NilMeansDone, RunsOK
    <2>5. OneWorks' /\ SomeoneWorks' /\ GivenUpOK'
      BY <1>1, <2>1, <2>2 DEF IInv, OneWorks, SomeoneWorks, GivenUpOK, Working,
         InState
    <2>6. PendOK'
      BY <1>1, <1>2, <1>3, <1>5, <2>1 DEF IInv, PendOK
    <2>7. JobOK'
      BY <1>1, <1>2, <1>3, <2>1, <2>2 DEF IInv, JobOK, Working, Actors
    <2>8. DownOK'
      BY <1>1 DEF DownOK
    <2> QED BY <2>3, <2>4, <2>5, <2>6, <2>7, <2>8 DEF IInv
  <1> QED BY <1>4, <1>5

LEMMA NoJobType == NoJob \in [id : 0 .. MaxTasks,
                              at : {"none", "mark", "start", "run", "done"}]
  BY TasksAssumption DEF NoJob

(* A dispatcher that drops a task it has not marked changes nothing else.  *)
LEMMA MarkFailsStep ==
  ASSUME IInv, NEW d \in Dispatchers, MarkFails(d)
  PROVE  IInv'
  <1>1. /\ up /\ job[d].at = "mark" /\ pend[d] = Idle
        /\ job' = [job EXCEPT ![d] = NoJob]
        /\ UNCHANGED <<rows, added, pend, answer, up, crashes, reverts, ran, givenUp>>
    BY DEF MarkFails
  <1>2. \A e \in Dispatchers : job'[e] = IF e = d THEN NoJob ELSE job[e]
    BY <1>1 DEF IInv, TypeOK
  <1>3. \A e \in Dispatchers : Working(e)' <=> Working(e)
    BY <1>1, <1>2 DEF Working, NoJob
  <1>4. ~Working(d)
    BY <1>1 DEF Working
  <1>5. TypeOK'
    BY <1>1, NoJobType DEF IInv, TypeOK
  <1>6. RowsOK' /\ UnusedOK' /\ PendOK' /\ NilMeansDone'
    BY <1>1 DEF IInv, RowsOK, UnusedOK, PendOK, NilMeansDone
  <1>7. JobOK'
    BY <1>1, <1>2, <1>3 DEF IInv, JobOK
  <1>8. OneWorks'
    BY <1>2, <1>3, <1>4 DEF IInv, OneWorks
  <1>9. SomeoneWorks' /\ GivenUpOK'
    BY <1>1, <1>2, <1>3, <1>4 DEF IInv, SomeoneWorks, GivenUpOK, InState
  <1>10. DownOK'
    BY <1>1 DEF DownOK
  <1>11. RunsOK'
    <2>1. \A e \in Dispatchers : job'[e].at = "start" => job'[e] = job[e]
      BY <1>2 DEF NoJob
    <2> QED BY <1>1, <2>1 DEF IInv, RunsOK
  <1> QED BY <1>5, <1>6, <1>7, <1>8, <1>9, <1>10, <1>11 DEF IInv

(* A task that is given up was in this dispatcher's hands only, and from   *)
(* now on is in none.                                                      *)
LEMMA GiveUpStep ==
  ASSUME IInv, NEW d \in Dispatchers, up, Working(d), GiveUp(d)
  PROVE  IInv'
  <1> DEFINE i == job[d].id
  <1>1. /\ job' = [job EXCEPT ![d] = NoJob]
        /\ givenUp' = givenUp \cup {i}
        /\ UNCHANGED <<rows, added, pend, answer, up, crashes, reverts, ran>>
    BY DEF GiveUp
  <1>2. i \in 1 .. added /\ pend[d] = Idle /\ rows[i].state = "dispatched"
    BY DEF IInv, JobOK, Working, NoJob
  <1>3. i \in Ids
    BY <1>2, Bounds DEF IInv
  <1>4. \A e \in Dispatchers : job'[e] = IF e = d THEN NoJob ELSE job[e]
    BY <1>1 DEF IInv, TypeOK
  <1>5. \A e \in Dispatchers : Working(e)' <=> Working(e) /\ e # d
    BY <1>4 DEF Working, NoJob
  <1>6. TypeOK'
    BY <1>1, <1>3, NoJobType DEF IInv, TypeOK
  <1>7. RowsOK' /\ UnusedOK' /\ PendOK' /\ NilMeansDone'
    BY <1>1 DEF IInv, RowsOK, UnusedOK, PendOK, NilMeansDone
  <1>8. JobOK'
    BY <1>1, <1>2, <1>4, <1>5 DEF IInv, JobOK
  <1>9. OneWorks'
    BY <1>4, <1>5 DEF IInv, OneWorks
  <1>10. SomeoneWorks'
    <2> SUFFICES ASSUME NEW j \in Ids, rows[j].state = "dispatched",
                        j \notin givenUp, j # i
                 PROVE  \E e \in Dispatchers : Working(e)' /\ job'[e].id = j
      BY <1>1 DEF SomeoneWorks, InState
    <2>1. PICK e \in Dispatchers : Working(e) /\ job[e].id = j
      BY DEF IInv, SomeoneWorks, InState
    <2> QED BY <1>4, <1>5, <2>1
  <1>11. GivenUpOK'
    <2>1. \A e \in Dispatchers : Working(e) /\ e # d => job[e].id # i
      BY DEF IInv, OneWorks
    <2> QED BY <1>1, <1>2, <1>3, <1>4, <1>5, <2>1 DEF IInv, GivenUpOK
  <1>12. DownOK'
    BY <1>1 DEF DownOK
  <1>13. RunsOK'
    <2>1. \A e \in Dispatchers : job'[e].at = "start" => job'[e] = job[e]
      BY <1>4 DEF NoJob
    <2> QED BY <1>1, <2>1 DEF IInv, RunsOK
  <1> QED BY <1>6, <1>7, <1>8, <1>9, <1>10, <1>11, <1>12, <1>13 DEF IInv

LEMMA RunStep ==
  ASSUME IInv, NEW d \in Dispatchers, Run(d), ~GiveUp(d)
  PROVE  IInv'
  <1> DEFINE i == job[d].id
  <1>1. /\ up /\ job[d].at = "start"
        /\ UNCHANGED <<rows, added, pend, answer, up, crashes, reverts, givenUp>>
        /\ job' = [job EXCEPT ![d] = [id |-> i, at |-> "run"]]
        /\ ran' = [ran EXCEPT ![i] = IF @ > MaxCrashes + 1 THEN @ ELSE @ + 1]
    BY DEF Run, JobGoes
  <1>2. /\ i \in 1 .. added /\ pend[d] = Idle
        /\ rows[i].state = "dispatched"
    BY <1>1 DEF IInv, JobOK, Working, NoJob
  <1>3. i \in Ids /\ i \in 0 .. MaxTasks /\ i <= added /\ added \in Nat
    BY <1>2, Bounds DEF IInv, Ids
  <1>4. ran \in [Ids -> 0 .. MaxCrashes + 2] /\ MaxCrashes \in Nat
        /\ reverts \in Nat /\ \A j \in Ids : ran[j] \in Nat
    BY Bounds DEF IInv, TypeOK
  <1>5. ran[i] <= reverts
    BY <1>1 DEF IInv, RunsOK
  <1>6. \A e \in Dispatchers :
           job'[e] = IF e = d THEN [id |-> i, at |-> "run"] ELSE job[e]
    BY <1>1 DEF IInv, TypeOK
  <1>7. /\ \A j \in Ids : j # i => ran'[j] = ran[j]
        /\ ran'[i] <= ran[i] + 1 /\ ran'[i] \in 0 .. MaxCrashes + 2
    BY <1>1, <1>3, <1>4
  <1>8. TypeOK'
    <2>1. job' \in [Dispatchers -> [id : 0 .. MaxTasks,
                       at : {"none", "mark", "start", "run", "done"}]]
      BY <1>1, <1>3, JobType DEF IInv, TypeOK
    <2>2. ran' \in [Ids -> 0 .. MaxCrashes + 2]
      BY <1>1, <1>3, <1>4
    <2> QED BY <1>1, <2>1, <2>2 DEF IInv, TypeOK
  <1>9. RowsOK' /\ PendOK' /\ NilMeansDone'
    BY <1>1 DEF IInv, RowsOK, PendOK, NilMeansDone
  <1>10. UnusedOK'
    <2>1. \A j \in Ids : j > added => j # i
      BY <1>3
    <2> QED BY <1>1, <1>7, <2>1 DEF IInv, UnusedOK
  <1>11. JobOK'
    BY <1>1, <1>2, <1>6 DEF IInv, JobOK, Working
  <1>12. \A e \in Dispatchers : Working(e)' <=> Working(e)
    BY <1>1, <1>6 DEF Working
  <1>13. \A e \in Dispatchers : job'[e].id = job[e].id
    BY <1>6
  <1>14. OneWorks' /\ SomeoneWorks' /\ GivenUpOK'
    BY <1>1, <1>12, <1>13 DEF IInv, OneWorks, SomeoneWorks, GivenUpOK, InState
  <1>15. DownOK'
    BY <1>1 DEF DownOK
  <1>16. RunsOK'
    <2>1. ASSUME NEW j \in Ids
          PROVE  /\ ran'[j] <= 1 + reverts
                 /\ rows[j].state = "scheduled" => ran'[j] <= reverts
      <3>1. CASE j = i
        BY <3>1, <1>2, <1>3, <1>4, <1>5, <1>7
      <3>2. CASE j # i
        BY <3>2, <1>7 DEF IInv, RunsOK
      <3> QED BY <3>1, <3>2
    <2>2. ASSUME NEW e \in Dispatchers, job'[e].at = "start"
          PROVE  ran'[job'[e].id] <= reverts
      <3>1. e # d /\ job'[e] = job[e] /\ Working(e) /\ Working(d)
        BY <1>1, <1>6, <2>2 DEF Working
      <3>2. job[e].id # i
        BY <3>1 DEF IInv, OneWorks
      <3>3. job[e].id \in Ids
        BY <3>1, Bounds DEF IInv, JobOK, Working, NoJob
      <3> QED BY <2>2, <3>1, <3>2, <3>3, <1>7 DEF IInv, RunsOK
    <2> QED BY <1>1, <2>1, <2>2 DEF RunsOK
  <1> QED BY <1>8, <1>9, <1>10, <1>11, <1>14, <1>15, <1>16 DEF IInv

(* MarkAsDone finds its row: it is dispatched as long as the work runs.    *)
LEMMA FinishStep ==
  ASSUME IInv, NEW d \in Dispatchers, Finish(d), ~GiveUp(d)
  PROVE  IInv'
  <1> DEFINE i == job[d].id
  <1>1. job[d].at = "run"
    BY DEF Finish
  <1>2. /\ i \in 1 .. added /\ pend[d] = Idle /\ rows[i].state = "dispatched"
    BY <1>1 DEF IInv, JobOK, Working, NoJob
  <1>3. i \in Ids /\ d \in Actors /\ 1 .. added \subseteq Ids
    BY <1>2, Bounds DEF IInv, Actors
  <1>4. PICK result \in {"nil", "err"} : Record(d, result)
    BY DEF Finish
  <1> DEFINE s == IF result = "nil" THEN "done" ELSE "err"
             t == [rows[i] EXCEPT !.state = s, !.doneAt = TRUE]
  <1>5. s \in {"done", "err"}
    OBVIOUS
  <1>6. /\ up /\ rows' = [rows EXCEPT ![i] = t] /\ pend' = pend
        /\ answer' = [answer EXCEPT ![d] = [matched |-> TRUE, err |-> ""]]
        /\ UNCHANGED <<added, up, crashes, reverts, givenUp>>
    BY <1>2, <1>4 DEF Record, MarkAsDone, UpdateOne
  <1>7. /\ job' = [job EXCEPT ![d] = NoJob] /\ ran' = ran
    BY <1>2, <1>4, <1>6 DEF Record
  <1> HIDE DEF s
  <1>8. t \in Task /\ RowOK(t) /\ t.state = s
    <2>1. rows[i] \in Task /\ RowOK(rows[i])
      BY <1>3 DEF IInv, TypeOK, RowsOK
    <2> QED BY <2>1, <1>2, <1>5, DoneRow
  <1> HIDE DEF t
  <1>9. \A e \in Dispatchers : job'[e] = IF e = d THEN NoJob ELSE job[e]
    BY <1>7 DEF IInv, TypeOK
  <1>10. \A j \in Ids : rows'[j] = IF j = i THEN t ELSE rows[j]
    BY <1>6 DEF IInv, TypeOK
  <1>11. rows' \in [Ids -> Task] /\ RowsOK' /\ UnusedOK'
    BY <1>2, <1>6, <1>7, <1>8, RowReplaced
  <1>12. TypeOK'
    <2>1. NoJob \in [id : 0 .. MaxTasks,
                     at : {"none", "mark", "start", "run", "done"}]
      BY TasksAssumption DEF NoJob
    <2>2. job' \in [Dispatchers -> [id : 0 .. MaxTasks,
                       at : {"none", "mark", "start", "run", "done"}]]
      BY <1>7, <2>1 DEF IInv, TypeOK
    <2>3. answer' \in [Actors -> [matched : BOOLEAN,
                    err : {"", "id_not_found", "already_done",
                           "already_cancelled", "already_dispatched",
                           "not_dispatched"}]]
      BY <1>6 DEF IInv, TypeOK
    <2> QED BY <1>6, <1>7, <1>11, <2>2, <2>3 DEF IInv, TypeOK
  <1>13. PendOK'
    BY <1>3, <1>5, <1>6, <1>8, <1>10 DEF IInv, PendOK
  <1>14. \A e \in Dispatchers : Working(e)' <=> Working(e) /\ e # d
    BY <1>9 DEF Working, NoJob
  <1>15. JobOK'
    <2> SUFFICES ASSUME NEW e \in Dispatchers
                 PROVE  \/ job'[e] = NoJob /\ pend'[e] = Idle
                        \/ job'[e].at = "mark" /\ job'[e].id \in 1 .. added'
                        \/ /\ Working(e)' /\ job'[e].id \in 1 .. added'
                           /\ pend'[e] = Idle
                           /\ rows'[job'[e].id].state = "dispatched"
      BY DEF JobOK, Working
    <2>1. CASE e = d
      BY <2>1, <1>2, <1>6, <1>9
    <2>2. CASE e # d /\ Working(e)
      <3>1. job[e].id # i
        BY <2>2, <1>1 DEF IInv, OneWorks, Working
      <3>2. /\ job[e].id \in 1 .. added /\ pend[e] = Idle
            /\ rows[job[e].id].state = "dispatched"
        BY <2>2 DEF IInv, JobOK, Working, NoJob
      <3> QED BY <2>2, <3>1, <3>2, <1>3, <1>6, <1>9, <1>10, <1>14
    <2>3. CASE e # d /\ ~Working(e)
      BY <2>3, <1>6, <1>9 DEF IInv, JobOK
    <2> QED BY <2>1, <2>2, <2>3
  <1>16. OneWorks'
    BY <1>9, <1>14 DEF IInv, OneWorks
  <1>17. SomeoneWorks'
    <2> SUFFICES ASSUME NEW j \in Ids, rows'[j].state = "dispatched",
                        j \notin givenUp
                 PROVE  \E e \in Dispatchers : Working(e)' /\ job'[e].id = j
      BY <1>6 DEF SomeoneWorks, InState
    <2>1. j # i /\ rows[j].state = "dispatched"
      BY <1>5, <1>8, <1>10
    <2>2. PICK e \in Dispatchers : Working(e) /\ job[e].id = j
      BY <1>6, <2>1 DEF IInv, SomeoneWorks, InState
    <2> QED BY <2>1, <2>2, <1>9, <1>14
  <1>18. GivenUpOK'
    <2>1. i \notin givenUp
      BY <1>1 DEF IInv, GivenUpOK, Working
    <2> QED BY <1>6, <1>9, <1>10, <1>14, <2>1 DEF IInv, GivenUpOK
  <1>19. DownOK'
    BY <1>6 DEF DownOK
  <1>20. RunsOK'
    <2>1. \A j \in Ids : rows'[j].state = "scheduled" => rows[j].state = "scheduled"
      BY <1>5, <1>8, <1>10
    <2>2. \A e \in Dispatchers : job'[e].at = "start" => job'[e] = job[e]
      BY <1>9 DEF NoJob
    <2> QED BY <1>6, <1>7, <2>1, <2>2 DEF IInv, RunsOK
  <1>21. NilMeansDone'
    BY <1>3, <1>6 DEF IInv, TypeOK, NilMeansDone
  <1> QED BY <1>11, <1>12, <1>13, <1>15, <1>16, <1>17, <1>18, <1>19, <1>20,
             <1>21 DEF IInv

(* A dispatcher that is told why its UPDATE matched nothing drops the task.*)
LEMMA ExplainedStep ==
  ASSUME IInv, NEW d \in Dispatchers, Explained(d)
  PROVE  IInv'
  <1>1. d \in Actors /\ pend[d] # Idle
    BY DEF Actors, Explained, Explain
  <1>2. /\ up /\ UNCHANGED <<rows, added, up, crashes, reverts, givenUp>>
        /\ pend' = [pend EXCEPT ![d] = Idle]
        /\ answer'[d].err # "" /\ AnswerOK'
    BY <1>1, ExplainGivesReason DEF Explained
  <1>3. job' = [job EXCEPT ![d] = NoJob] /\ ran' = ran
    BY <1>2 DEF Explained
  <1>4. ~Working(d)
    BY <1>1 DEF IInv, JobOK, Working, NoJob
  <1>5. \A e \in Dispatchers : job'[e] = IF e = d THEN NoJob ELSE job[e]
    BY <1>3 DEF IInv, TypeOK
  <1>6. \A a \in Actors : pend'[a] = IF a = d THEN Idle ELSE pend[a]
    BY <1>2 DEF IInv, TypeOK
  <1>7. \A e \in Dispatchers : Working(e)' <=> Working(e)
    BY <1>4, <1>5 DEF Working, NoJob
  <1>8. TypeOK'
    <2>1. NoJob \in [id : 0 .. MaxTasks,
                     at : {"none", "mark", "start", "run", "done"}]
      BY TasksAssumption DEF NoJob
    <2>2. job' \in [Dispatchers -> [id : 0 .. MaxTasks,
                       at : {"none", "mark", "start", "run", "done"}]]
      BY <1>3, <2>1 DEF IInv, TypeOK
    <2>3. pend' \in [Actors -> [op : Operation \cup {"none"}, id : 0 .. MaxTasks]]
      BY <1>2, IdleType DEF IInv, TypeOK
    <2> QED BY <1>2, <1>3, <2>2, <2>3 DEF IInv, TypeOK, AnswerOK
  <1>9. RowsOK' /\ UnusedOK' /\ NilMeansDone'
    BY <1>2, <1>3 DEF IInv, RowsOK, UnusedOK, AnswerOK
  <1>10. PendOK'
    BY <1>2, <1>6 DEF IInv, PendOK
  <1>11. JobOK'
    BY <1>2, <1>5, <1>6, <1>7 DEF IInv, JobOK, Working, Actors
  <1>12. OneWorks'
    BY <1>4, <1>5, <1>7 DEF IInv, OneWorks
  <1>13. SomeoneWorks' /\ GivenUpOK'
    BY <1>2, <1>4, <1>5, <1>7 DEF IInv, SomeoneWorks, GivenUpOK, InState
  <1>14. DownOK'
    BY <1>2 DEF DownOK
  <1>15. RunsOK'
    <2>1. \A e \in Dispatchers : job'[e].at = "start" => job'[e] = job[e]
      BY <1>5 DEF NoJob
    <2> QED BY <1>2, <1>3, <2>1 DEF IInv, RunsOK
  <1> QED BY <1>8, <1>9, <1>10, <1>11, <1>12, <1>13, <1>14, <1>15 DEF IInv

-----------------------------------------------------------------------------
(* Crash and restart. *)

LEMMA CrashStep ==
  ASSUME IInv, Crash
  PROVE  IInv'
  <1>1. /\ up /\ ~up' /\ crashes < MaxCrashes /\ crashes' = crashes + 1
        /\ UNCHANGED <<rows, added, reverts, ran>>
        /\ pend' = [a \in Actors |-> Idle]
        /\ job' = [d \in Dispatchers |-> NoJob]
        /\ answer' = [a \in Actors |-> NoAnswer]
        /\ givenUp' = {}
    BY DEF Crash
  <1>2. /\ crashes' \in 0 .. MaxCrashes /\ reverts < crashes'
        /\ reverts \in 0 .. crashes' /\ up' \in BOOLEAN
    <2>1. /\ crashes \in Nat /\ reverts \in Nat /\ MaxCrashes \in Nat
          /\ reverts <= crashes
      BY Bounds DEF IInv
    <2>2. up' = FALSE
      BY DEF Crash
    <2>3. crashes < MaxCrashes /\ crashes' = crashes + 1
      BY <1>1
    <2>4. crashes' \in 0 .. MaxCrashes /\ reverts < crashes'
          /\ reverts \in 0 .. crashes'
      BY <2>1, <2>3
    <2> QED BY <2>2, <2>4
  <1>3. TypeOK'
    <2>1. pend' \in [Actors -> [op : Operation \cup {"none"}, id : 0 .. MaxTasks]]
      BY <1>1, IdleType
    <2>2. job' \in [Dispatchers -> [id : 0 .. MaxTasks,
                       at : {"none", "mark", "start", "run", "done"}]]
      BY <1>1, TasksAssumption DEF NoJob
    <2>3. answer' \in [Actors -> [matched : BOOLEAN,
                    err : {"", "id_not_found", "already_done",
                           "already_cancelled", "already_dispatched",
                           "not_dispatched"}]]
      BY <1>1 DEF NoAnswer
    <2> QED BY <1>1, <1>2, <2>1, <2>2, <2>3 DEF IInv, TypeOK
  <1>4. RowsOK' /\ UnusedOK' /\ RunsOK'
    BY <1>1 DEF IInv, RowsOK, UnusedOK, RunsOK, NoJob
  <1>5. PendOK' /\ NilMeansDone'
    BY <1>1 DEF PendOK, NilMeansDone, NoAnswer
  <1>6. JobOK' /\ OneWorks'
    BY <1>1 DEF JobOK, OneWorks, Working, NoJob, Actors
  <1>7. SomeoneWorks' /\ GivenUpOK' /\ DownOK'
    BY <1>1, <1>2 DEF SomeoneWorks, GivenUpOK, DownOK
  <1> QED BY <1>3, <1>4, <1>5, <1>6, <1>7 DEF IInv

LEMMA RestartStep ==
  ASSUME IInv, Restart
  PROVE  IInv'
  <1>1. /\ ~up /\ up'
        /\ UNCHANGED <<added, pend, job, answer, crashes, ran, givenUp>>
    BY DEF Restart
  <1>2. /\ \A a \in Actors : pend[a] = Idle
        /\ \A d \in Dispatchers : job[d] = NoJob
        /\ reverts < crashes /\ givenUp = {}
    BY <1>1 DEF IInv, DownOK
  <1>3. rows \in [Ids -> Task] /\ reverts \in Nat /\ crashes \in Nat
        /\ \A i \in Ids : ran[i] \in Nat
    BY Bounds DEF IInv, TypeOK
  <1>4. \/ RevertDispatched /\ reverts' = reverts + 1
        \/ CancelDispatched /\ reverts' = reverts
    BY DEF Restart
  <1>5. reverts' \in 0 .. crashes' /\ reverts' \in Nat /\ reverts <= reverts'
    BY <1>1, <1>2, <1>3, <1>4
  (* Every row is as it was, or was dispatched and is repaired. *)
  <1>6. ASSUME NEW i \in Ids
        PROVE  /\ rows'[i] \in Task /\ RowOK(rows'[i])
               /\ rows[i].state # "dispatched" => rows'[i] = rows[i]
               /\ rows[i].state = "dispatched" =>
                    \/ rows'[i].state = "cancelled"
                    \/ rows'[i].state = "scheduled" /\ reverts' = reverts + 1
    <2>1. rows[i] \in Task /\ RowOK(rows[i])
      BY <1>3 DEF IInv, RowsOK
    <2>2. CASE rows[i].state # "dispatched"
      <3>1. rows'[i] = rows[i]
        BY <1>4, <2>2 DEF RevertDispatched, CancelDispatched, InState
      <3> QED BY <2>1, <2>2, <3>1
    <2>3. CASE rows[i].state = "dispatched" /\ RevertDispatched
               /\ reverts' = reverts + 1
      <3>1. rows'[i] = [rows[i] EXCEPT !.state = "scheduled"]
        BY <2>3 DEF RevertDispatched, InState
      <3> QED BY <2>1, <2>3, <3>1, RevertedRow
    <2>4. CASE rows[i].state = "dispatched" /\ CancelDispatched
      <3>1. rows'[i] = Cancelled(rows[i])
        BY <2>4 DEF CancelDispatched, InState
      <3> QED BY <2>1, <2>4, <3>1, CancelledRow
    <2> QED BY <1>4, <2>2, <2>3, <2>4
  <1>7. rows' \in [Ids -> Task]
    <2>1. rows' = [i \in Ids |-> rows'[i]]
      BY <1>4 DEF RevertDispatched, CancelDispatched
    <2> QED BY <2>1, <1>6
  <1>8. TypeOK'
    BY <1>1, <1>5, <1>7 DEF IInv, TypeOK
  <1>9. RowsOK'
    BY <1>6 DEF RowsOK
  <1>10. UnusedOK'
    <2>1. NoTask.state # "dispatched"
      BY DEF NoTask
    <2> QED BY <1>1, <1>6, <2>1 DEF IInv, UnusedOK
  <1>11. PendOK' /\ NilMeansDone'
    BY <1>1, <1>2 DEF IInv, PendOK, NilMeansDone
  <1>12. JobOK' /\ OneWorks'
    BY <1>1, <1>2 DEF JobOK, OneWorks, Working, NoJob, Actors
  <1>13. SomeoneWorks'
    <2>1. \A i \in Ids : rows'[i].state # "dispatched"
      BY <1>6
    <2> QED BY <2>1 DEF SomeoneWorks, InState
  <1>14. GivenUpOK'
    BY <1>1, <1>2 DEF GivenUpOK
  <1>15. DownOK'
    BY <1>1 DEF DownOK
  <1>16. RunsOK'
    <2>1. ASSUME NEW i \in Ids
          PROVE  /\ ran[i] <= 1 + reverts'
                 /\ rows'[i].state = "scheduled" => ran[i] <= reverts'
      <3>1. ran[i] <= 1 + reverts
        BY DEF IInv, RunsOK
      <3>2. ran[i] <= 1 + reverts'
        BY <1>3, <1>5, <3>1
      <3>3. CASE rows[i].state = "dispatched" /\ rows'[i].state = "scheduled"
        <4>1. reverts' = reverts + 1
          BY <1>6, <3>3
        <4> QED BY <1>3, <3>1, <3>2, <4>1
      <3>4. CASE rows[i].state # "dispatched" /\ rows'[i].state = "scheduled"
        <4>1. ran[i] <= reverts
          BY <1>6, <3>4 DEF IInv, RunsOK
        <4> QED BY <1>3, <1>5, <3>2, <4>1
      <3> QED BY <3>2, <3>3, <3>4
    <2> QED BY <1>1, <1>2, <2>1 DEF RunsOK, NoJob
  <1> QED BY <1>8, <1>9, <1>10, <1>11, <1>12, <1>13, <1>14, <1>15, <1>16
          DEF IInv

LEMMA StutterStep ==
  ASSUME IInv, UNCHANGED vars
  PROVE  IInv'
  <1>1. UNCHANGED <<rows, added, pend, job, answer, up, crashes, reverts, ran, givenUp>>
    BY DEF vars
  <1>2. TypeOK' /\ NilMeansDone'
    BY <1>1 DEF IInv, TypeOK, NilMeansDone
  <1>3. RowsOK' /\ UnusedOK' /\ PendOK'
    BY <1>1 DEF IInv, RowsOK, UnusedOK, PendOK
  <1>4. JobOK' /\ OneWorks'
    BY <1>1 DEF IInv, JobOK, OneWorks, Working
  <1>5. SomeoneWorks' /\ GivenUpOK'
    BY <1>1 DEF IInv, SomeoneWorks, GivenUpOK, Working, InState
  <1>6. DownOK' /\ RunsOK'
    BY <1>1 DEF IInv, DownOK, RunsOK
  <1> QED BY <1>2, <1>3, <1>4, <1>5, <1>6 DEF IInv

LEMMA Invariant == Spec => []IInv
  <1>1. IInv /\ [Next]_vars => IInv'
    <2> SUFFICES ASSUME IInv, [Next]_vars PROVE IInv'
      OBVIOUS
    <2>1. ASSUME NEW d \in Dispatchers, Dispatcher(d) PROVE IInv'
      <3>1. CASE GiveUp(d) /\ (Run(d) \/ Finish(d))
        BY <3>1, GiveUpStep DEF Run, Finish, Working
      <3>2. CASE ~GiveUp(d) /\ (Run(d) \/ Finish(d))
        BY <3>2, RunStep, FinishStep
      <3> QED BY <2>1, <3>1, <3>2, GetNextStep, MarkStep, MarkFailsStep,
                 ExplainedStep DEF Dispatcher
    <2>2. ASSUME NEW c \in Clients, ClientBegins(c) \/ ClientExplained(c)
          PROVE  IInv'
      BY <2>2, ClientSteps
    <2>3. CASE Crash
      BY <2>3, CrashStep
    <2>4. CASE Restart
      BY <2>4, RestartStep
    <2>5. CASE UNCHANGED vars
      BY <2>5, StutterStep
    <2> QED BY <2>1, <2>2, <2>3, <2>4, <2>5 DEF Next
  <1> QED BY <1>1, InitIInv, PTL DEF Spec

-----------------------------------------------------------------------------
(* Types: what TypeOK says of rows, calls, jobs, answers and counters.     *)
THEOREM TypeCorrect == Spec => []TypeOK
  <1>1. IInv => TypeOK
    BY DEF IInv
  <1> QED BY <1>1, Invariant, PTL

(* nil from UpdateById, Cancel, MarkAsDispatched and MarkAsDone means the  *)
(* UPDATE matched, whatever happens between it and the SELECT.             *)
THEOREM NilIsTrue == Spec => []NilMeansDone
  <1>1. IInv => NilMeansDone
    BY DEF IInv
  <1> QED BY <1>1, Invariant, PTL

(* While dispatchTask has a task started or about to start, its row stays  *)
(* dispatched: no Cancel, UpdateById or DeleteEnded gets at it.            *)
THEOREM WorkIsDispatched == Spec => []RunningIsDispatched
  <1>1. IInv => RunningIsDispatched
    BY DEF IInv, JobOK, Working, NoJob, RunningIsDispatched
  <1> QED BY <1>1, Invariant, PTL

(* However many dispatchers share the table, only RevertDispatched after a *)
(* crash lets a task be run once more.                                     *)
THEOREM RunsAreCounted == Spec => []RunsCostCrashes
  <1>1. IInv => RunsCostCrashes
    BY DEF IInv, RunsOK, RunsCostCrashes
  <1> QED BY <1>1, Invariant, PTL

(* A dispatched task of a process that is up is in the hands of exactly    *)
(* one dispatcher, unless this process gave it up after its mark: a fetch  *)
(* or a MarkAsDone failed, or its result was context.Canceled.  Then it is *)
(* in nobody's hands and stays dispatched until a restart repairs it.      *)
THEOREM NothingAbandoned == Spec => []NoneAbandoned
  <1>1. IInv => NoneAbandoned
    <2> SUFFICES ASSUME IInv PROVE NoneAbandoned
      OBVIOUS
    <2>1. givenUp \subseteq InState("dispatched")
      BY DEF IInv, GivenUpOK, InState
    <2>2. ASSUME up, NEW i \in InState("dispatched")
          PROVE  Cardinality({d \in Dispatchers : job[d].id = i
                                /\ job[d].at \in {"start", "run"}})
                   = IF i \in givenUp THEN 0 ELSE 1
      <3> DEFINE hands == {d \in Dispatchers : job[d].id = i
                              /\ job[d].at \in {"start", "run"}}
      <3>1. CASE i \in givenUp
        <4>1. hands = {}
          BY <3>1 DEF IInv, GivenUpOK, Working
        <4> QED BY <3>1, <4>1, FS_EmptySet
      <3>2. CASE i \notin givenUp
        <4>1. PICK d \in Dispatchers : Working(d) /\ job[d].id = i
          BY <2>2, <3>2 DEF IInv, SomeoneWorks
        <4>2. hands = {d}
          BY <4>1 DEF IInv, OneWorks, Working
        <4> QED BY <3>2, <4>2, FS_Singleton
      <3> QED BY <3>1, <3>2
    <2> QED BY <2>1, <2>2 DEF NoneAbandoned
  <1> QED BY <1>1, Invariant, PTL

(* No operation of the repository and no restart revives a task that       *)
(* ended; DeleteEnded removes it.                                          *)
THEOREM EndedStaysEnded == Spec => EndedIsFinal
  <1> DEFINE Final == \A i \in Ended : rows'[i] \in {rows[i], NoTask}
  <1>1. IInv /\ [Next]_vars => [Final]_vars
    <2> SUFFICES ASSUME IInv, Next PROVE Final
      BY DEF vars
    <2> SUFFICES ASSUME NEW i \in Ended PROVE rows'[i] \in {rows[i], NoTask}
      OBVIOUS
    <2>1. i \in Ids /\ rows[i].state \in {"cancelled", "done", "err"}
      BY DEF Ended, InState
    <2>2. rows \in [Ids -> Task]
      BY DEF IInv, TypeOK
    <2>3. ASSUME NEW a, NEW op, NEW j, NEW s \in {"scheduled", "dispatched"},
                 NEW t, UpdateOne(a, op, j, s, t)
          PROVE  rows'[i] = rows[i]
      BY <2>1, <2>2, <2>3 DEF UpdateOne
    <2>4. ASSUME NEW d \in Dispatchers, Dispatcher(d)
          PROVE  rows'[i] = rows[i]
      <3>1. CASE GetNext(d) \/ MarkFails(d) \/ Run(d) \/ Explained(d)
        BY <3>1 DEF GetNext, MarkFails, Run, GiveUp, Explained, Explain
      <3>2. CASE Mark(d)
        BY <3>2, <2>3 DEF Mark, MarkAsDispatched
      <3>3. CASE Finish(d)
        BY <3>3, <2>3 DEF Finish, Record, GiveUp, MarkAsDone
      <3> QED BY <2>4, <3>1, <3>2, <3>3 DEF Dispatcher
    <2>5. ASSUME NEW c \in Clients, ClientBegins(c) \/ ClientExplained(c)
          PROVE  rows'[i] \in {rows[i], NoTask}
      <3>1. CASE AddTask(c)
        <4>1. i # added + 1
          <5>1. ~(i > added)
            BY <2>1 DEF IInv, UnusedOK, NoTask
          <5> QED BY <2>1, <5>1, Bounds DEF IInv, Ids
        <4> QED BY <2>2, <3>1, <4>1 DEF AddTask
      <3>2. CASE DeleteEnded(c)
        BY <2>1, <3>2 DEF DeleteEnded
      <3>3. CASE ClientExplained(c)
        BY <3>3 DEF ClientExplained, Explain
      <3>4. ASSUME NEW j, NEW p, UpdateById(c, j, p) \/ Cancel(c, j)
            PROVE  rows'[i] = rows[i]
        BY <3>4, <2>3 DEF UpdateById, Cancel
      <3> QED BY <2>5, <3>1, <3>2, <3>3, <3>4 DEF ClientBegins
    <2>6. CASE Crash
      BY <2>6 DEF Crash
    <2>7. CASE Restart
      BY <2>1, <2>7 DEF Restart, RevertDispatched, CancelDispatched, InState
    <2> QED BY <2>4, <2>5, <2>6, <2>7 DEF Next
  <1>2. EndedIsFinal <=> [][Final]_vars
    BY DEF EndedIsFinal
  <1> QED BY <1>1, <1>2, Invariant, PTL DEF Spec
=============================================================================
