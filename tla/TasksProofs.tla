----------------------------- MODULE TasksProofs ----------------------------
(***************************************************************************)
(* Lemmas about the data model, for every module that proves something of  *)
(* a repository: what the operators of Tasks return and leave alone.       *)
(***************************************************************************)
EXTENDS Tasks, TLAPS

LEMMA NoTaskType == NoTask \in Task
  BY TasksAssumption DEF NoTask, Task, States, ZeroTime, FarFuture

LEMMA NoneIsNoTime == None \notin Times /\ None \notin Priorities
  <1>1. Times \subseteq Int
    BY TasksAssumption DEF Times
  <1> QED BY <1>1, TasksAssumption

LEMMA OrElseType ==
  ASSUME NEW S, NEW T, S \subseteq T, NEW old \in T, NEW opt \in Option(S)
  PROVE  OrElse(opt, old) \in T
  BY DEF OrElse, Option

LEMMA UpdateType ==
  ASSUME NEW t \in Task, NEW p \in UpdateParam
  PROVE  /\ Update(t, p) \in Task
         /\ Update(t, p).id = t.id
         /\ Update(t, p).state = t.state
         /\ Update(t, p).cancelledAt = t.cancelledAt
         /\ Update(t, p).dispatchedAt = t.dispatchedAt
         /\ Update(t, p).doneAt = t.doneAt
         /\ Update(t, p).sched = OrElse(p.sched, t.sched)
         /\ t.sched \in Times => Update(t, p).sched \in Times
  <1> DEFINE sched == OrElse(p.sched, t.sched)
             prio  == OrElse(p.prio, t.prio)
  <1>1. p.sched \in Option(Times) /\ p.prio \in Option(Priorities)
    BY DEF UpdateParam
  <1>2. t.sched \in 0 .. MaxTime /\ t.prio \in Priorities
    BY DEF Task
  <1>3. Times \subseteq 0 .. MaxTime
    BY TasksAssumption DEF Times
  <1>4. sched \in 0 .. MaxTime /\ prio \in Priorities
    BY <1>1, <1>2, <1>3, OrElseType
  <1>5. t.sched \in Times => sched \in Times
    BY <1>1, OrElseType
  <1>6. Update(t, p) = [t EXCEPT !.sched = sched, !.prio = prio]
    BY DEF Update, Assign
  <1> HIDE DEF sched, prio
  <1>7. /\ [t EXCEPT !.sched = sched, !.prio = prio] \in Task
        /\ [t EXCEPT !.sched = sched, !.prio = prio].id = t.id
        /\ [t EXCEPT !.sched = sched, !.prio = prio].state = t.state
        /\ [t EXCEPT !.sched = sched, !.prio = prio].cancelledAt = t.cancelledAt
        /\ [t EXCEPT !.sched = sched, !.prio = prio].dispatchedAt = t.dispatchedAt
        /\ [t EXCEPT !.sched = sched, !.prio = prio].doneAt = t.doneAt
        /\ [t EXCEPT !.sched = sched, !.prio = prio].sched = sched
    BY <1>4 DEF Task
  <1> QED BY <1>5, <1>6, <1>7 DEF sched

LEMMA ToTaskType ==
  ASSUME NEW p \in UpdateParam, NEW i \in 0 .. MaxTasks,
         NEW c \in 0 .. FarFuture
  PROVE  /\ ToTask(p, i, c) \in Task
         /\ ToTask(p, i, c).id = i
         /\ ToTask(p, i, c).state = "scheduled"
         /\ ~ToTask(p, i, c).cancelledAt
         /\ ~ToTask(p, i, c).dispatchedAt
         /\ ~ToTask(p, i, c).doneAt
         /\ ToTask(p, i, c).sched = OrElse(p.sched, 0)
  <1> DEFINE blank == [NoTask EXCEPT !.id = i, !.created = c,
                                     !.state = "scheduled"]
  <1>1. blank \in Task /\ blank.id = i /\ blank.state = "scheduled"
        /\ blank.sched = 0
        /\ ~blank.cancelledAt /\ ~blank.dispatchedAt /\ ~blank.doneAt
    BY NoTaskType DEF NoTask, Task, States, ZeroTime
  <1>2. ToTask(p, i, c) = Update(blank, p)
    BY DEF ToTask
  <1> HIDE DEF blank
  <1> QED BY <1>1, <1>2, UpdateType
=============================================================================
