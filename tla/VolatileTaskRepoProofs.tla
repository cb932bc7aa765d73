----------------------- MODULE VolatileTaskRepoProofs -----------------------
(***************************************************************************)
(* Proofs about VolatileTaskRepo and the CronStore under it, for every set *)
(* of entries, keys, periods and shifts, every edit and every replacement: *)
(*                                                                         *)
(*   VolatileTypeCorrect Spec => []TypeOK                                  *)
(*   OneTaskPerEntry     Spec => []EveryEntryScheduled                     *)
(*   EditsLeaveOthers    Spec => EditKeepsOthers                           *)
(*   ChosenIsRecorded    Spec => []DispatchedIsRecorded                    *)
(*   TimerTicks          Spec => []KeepsTicking                            *)
(*   RunsInOrder         Spec => []NoneLostNoneTwice                       *)
(*                                                                         *)
(* They follow from one inductive invariant, Inv.  CronOK: entries and     *)
(* tasks of the schedule belong to each other one to one.  NamesOK: a name *)
(* tells a task from all others that are about.  HeldOK: what Step holds   *)
(* is on record.  StoreOK: tasks of a replaced store have lower names than *)
(* those of the present one.  TicksOK: the timer is armed for the first    *)
(* task, or fired for it.  RunsOK, until the first edit or retry: the runs *)
(* of an entry are its occurrences up to the one in the schedule, but for  *)
(* the one Step has popped and not yet handed out.                         *)
(*                                                                         *)
(* First and the timer's deadline are smallest elements of the schedule;   *)
(* that there is one (LeastExists) rests on the library's theorem that the *)
(* strict subset order of a finite set is well founded.                    *)
(***************************************************************************)
EXTENDS VolatileTaskRepo, FiniteSetTheorems, WellFoundedInduction, TLAPS

(* The store: an entry has one task, for the time it stands at; a task has *)
(* its entry and a name of its own.                                        *)
CronOK ==
    /\ \A key \in Keys : entries[key] # None =>
          /\ Key[entries[key]] = key
          /\ \E t \in schedule : t.key = key
    /\ \A t \in schedule :
          /\ entries[t.key] # None
          /\ t.occ = prev[entries[t.key]]
          /\ t.id <= issued
    /\ \A t, u \in schedule : t.id = u.id \/ t.key = u.key => t = u

(* A name says which task it is, of all that are about; a new one is a new *)
(* task.                                                                   *)
About == (schedule \cup record \cup working \cup ToSet(handedOut)
            \cup {next, lastTask, failed}) \ {None, ZeroTask}

NamesOK ==
    /\ \A t \in About : t.id <= issued
    /\ \A t, u \in About : t.id = u.id => t = u

(* What Step holds is on record, but for what a Retry took up.             *)
HeldOK ==
    /\ lastTask # None => /\ pc \in {"idle", "startTimer", "redispatch"}
                          /\ Recorded(lastTask)
    /\ pc \in {"compare", "dispatch", "pop", "fetch"} =>
          next \in Task /\ Recorded(next)
    /\ pc = "redispatch" => next = ZeroTask \/ Recorded(next)

(* The tasks of a replaced store have lower names than those of this one.  *)
StoreOK ==
    /\ store.base <= issued
    /\ store.due # None => store.due.id <= store.base
    /\ \A t \in schedule : t.id > store.base
    /\ \A t \in working : t.id <= store.base \/ t \in ToSet(handedOut)
    /\ \A e, f \in store.of : Key[e] = Key[f] => e = f

(* A started timer is armed for the first task, until it has fired for it. *)
TicksOK ==
    started /\ schedule # {} =>
        timer = First.sched \/ (timer = None /\ (pc = "getNext" \/ TakenUp(First)))

(* An undisturbed store: the runs of an entry go on with the task Step has *)
(* popped of it, or else with the one in the schedule.                     *)
Popped(e) == pc = "fetch" /\ next.key = Key[e] /\ next.id > store.base

RunsOK ==
    /\ entries = StoreOf(store.of)
    /\ pc = "pop" => next \in schedule /\ First = next
    /\ pc = "fetch" => next.id > store.base \/ next = store.due
    /\ \A t \in ToSet(handedOut) : t.id > store.base \/ t = store.due
    /\ \A e \in store.of :
          /\ Popped(e) => prev[e] = next.occ + Period[e]
          /\ Follows(e, Runs(e), IF Popped(e) THEN next.occ ELSE prev[e])
          /\ \A k \in Runs(e) :
                Follows(e, {j \in Runs(e) : j < k}, handedOut[k].occ)

Inv ==
    /\ TypeOK /\ CronOK /\ NamesOK /\ HeldOK /\ StoreOK /\ TicksOK
    /\ disturbed = None => RunsOK

-----------------------------------------------------------------------------
(* Tasks with names of their own have a first one: there are only so many  *)
(* names, and of the sets of tasks that do not come after a task, one is   *)
(* smallest.                                                               *)
Before(t, u) ==
    \/ t.sched < u.sched
    \/ t.sched = u.sched /\ t.id <= u.id

Named(S) == S \subseteq Task /\ \A t, u \in S : t.id = u.id => t = u

LEMMA TaskFields ==
  ASSUME NEW t \in Task
  PROVE  /\ t.id \in Int /\ t.id > 0 /\ t.id \in Ids
         /\ t.occ \in Nat /\ t.sched \in Int /\ t.key \in Keys
         /\ t # None /\ t # ZeroTask
  <1>1. t.id \in 1 .. MaxIssued /\ t.occ \in Nat /\ t.sched \in Int
        /\ t.key \in Keys
    BY DEF Task, Ids
  <1>2. t.id > 0 /\ t.id \in Int
    BY <1>1, CronAssumption
  <1>3. t # ZeroTask
    BY <1>2 DEF ZeroTask
  <1> QED BY <1>1, <1>2, <1>3, NoneAssumption DEF Ids

LEMMA NamedFinite ==
  ASSUME NEW S, Named(S)
  PROVE  IsFiniteSet(S)
  <1> DEFINE name == [t \in S |-> t.id]
  <1>1. name \in [S -> Ids]
    BY TaskFields DEF Named
  <1>2. name \in Injection(S, Ids)
    BY <1>1 DEF Injection, IsInjective, Named
  <1>3. IsFiniteSet(Ids)
    BY FS_Interval, CronAssumption DEF Ids
  <1> QED BY <1>2, <1>3, FS_Injection

LEMMA LeastExists ==
  ASSUME NEW S, Named(S), S # {}
  PROVE  \E t \in S : \A u \in S : Before(t, u)
  <1> DEFINE upTo(t) == {u \in S : Before(u, t)}
             T == {upTo(t) : t \in S}
             R == StrictSubsetOrdering(S)
  <1>1. IsFiniteSet(S)
    BY NamedFinite
  <1>2. IsWellFoundedOn(R, SUBSET S)
    BY <1>1, FS_StrictSubsetOrderingWellFounded, FS_FiniteSubsetsOfFinite
  <1>3. T \subseteq SUBSET S /\ T # {}
    OBVIOUS
  <1>4. \E x \in T : \A y \in T : ~(<<y, x>> \in R)
    <2> HIDE DEF T, R
    <2> QED BY <1>2, <1>3, WFMin
  <1>5. PICK t \in S : \A y \in T : ~(<<y, upTo(t)>> \in R)
    BY <1>4
  <1>6. ASSUME NEW u \in S, ~Before(t, u)
        PROVE  FALSE
    <2>1. /\ t.sched \in Int /\ t.id \in Int
          /\ u.sched \in Int /\ u.id \in Int
      BY TaskFields DEF Named
    <2>2. Before(u, t)
      BY <2>1, <1>6 DEF Before
    <2>3. upTo(u) \subseteq upTo(t)
      <3>1. ASSUME NEW v \in S, Before(v, u)
            PROVE  Before(v, t)
        <4>1. v.sched \in Int /\ v.id \in Int
          BY TaskFields DEF Named
        <4> QED BY <2>1, <2>2, <3>1, <4>1 DEF Before
      <3> QED BY <3>1
    <2>4. t \in upTo(t) /\ t \notin upTo(u)
      BY <1>6, <2>1 DEF Before
    <2>5. <<upTo(u), upTo(t)>> \in R
      BY <2>3, <2>4 DEF StrictSubsetOrdering
    <2> QED BY <1>5, <2>5
  <1> QED BY <1>6

LEMMA FirstIsLeast ==
  ASSUME NEW S, Named(S), S # {}
  PROVE  LET f == CHOOSE t \in S : \A u \in S :
                     \/ t.sched < u.sched
                     \/ t.sched = u.sched /\ t.id <= u.id
         IN  /\ f \in S
             /\ f \in Task
             /\ TimerFor(S) = f.sched
  <1> DEFINE f == CHOOSE t \in S : \A u \in S :
                     \/ t.sched < u.sched
                     \/ t.sched = u.sched /\ t.id <= u.id
             g == CHOOSE t \in S : \A u \in S : t.sched <= u.sched
  <1>1. f \in S /\ \A u \in S : Before(f, u)
    BY LeastExists DEF Before
  <1>2. \A u \in S : u.sched \in Int /\ u \in Task
    BY TaskFields DEF Named
  <1>3. \A u \in S : f.sched <= u.sched
    <2> HIDE DEF f
    <2> QED BY <1>1, <1>2 DEF Before
  <1>4. g \in S /\ \A u \in S : g.sched <= u.sched
    <2> HIDE DEF f
    <2> QED BY <1>1, <1>3
  <1>5. TimerFor(S) = g.sched
    BY DEF TimerFor
  <1> HIDE DEF f, g
  <1>6. g.sched = f.sched
    BY <1>1, <1>2, <1>3, <1>4
  <1>7. /\ f \in S /\ f \in Task /\ TimerFor(S) = f.sched
    BY <1>1, <1>2, <1>5, <1>6
  <1> QED BY <1>7 DEF f

LEMMA TimerType ==
  ASSUME NEW S, Named(S)
  PROVE  TimerFor(S) \in Int \cup {None}
  <1>1. CASE S = {}
    BY <1>1 DEF TimerFor
  <1>2. CASE S # {}
    BY <1>2, FirstIsLeast, TaskFields
  <1> QED BY <1>1, <1>2

LEMMA KeysAreEntries ==
  /\ \A e \in Entries : Key[e] \in Keys
  /\ Keys \subseteq Entries
  /\ None \notin Entries
  BY CronAssumption DEF Keys

LEMMA MakeTaskType ==
  ASSUME NEW id \in 1 .. MaxIssued, NEW e \in Entries, NEW occ \in Nat,
         NEW shift \in Int
  PROVE  /\ MakeTask(id, e, occ, shift) \in Task
         /\ MakeTask(id, e, occ, shift).id = id
         /\ MakeTask(id, e, occ, shift).key = Key[e]
         /\ MakeTask(id, e, occ, shift).occ = occ
  BY KeysAreEntries DEF MakeTask, Task, Ids

LEMMA ShiftsType ==
  ASSUME NEW es \in SUBSET Entries, NEW shift \in ShiftsOf(es), NEW e \in es
  PROVE  shift[e] \in Int
  <1>1. shift[e] \in Shifts[Key[e]] /\ Key[e] \in Entries
    BY KeysAreEntries DEF ShiftsOf
  <1> QED BY <1>1, CronAssumption

(* The entry StoreOf keeps for a key is the one with that key.             *)
LEMMA StoreOfEntries ==
  ASSUME NEW es \in SUBSET Entries, \A e, f \in es : Key[e] = Key[f] => e = f
  PROVE  /\ StoreOf(es) \in [Keys -> Entries \cup {None}]
         /\ \A e \in es : StoreOf(es)[Key[e]] = e
         /\ \A key \in Keys : StoreOf(es)[key] # None =>
               StoreOf(es)[key] \in es /\ Key[StoreOf(es)[key]] = key
  <1>1. ASSUME NEW key \in Keys
        PROVE  \/ StoreOf(es)[key] = None /\ \A e \in es : Key[e] # key
               \/ StoreOf(es)[key] \in es /\ Key[StoreOf(es)[key]] = key
    <2>1. CASE \E e \in es : Key[e] = key
      <3>1. StoreOf(es)[key] = CHOOSE e \in es : Key[e] = key
        BY <2>1 DEF StoreOf
      <3> QED BY <2>1, <3>1
    <2>2. CASE ~ \E e \in es : Key[e] = key
      BY <2>2 DEF StoreOf
    <2> QED BY <2>1, <2>2
  <1>2. DOMAIN StoreOf(es) = Keys
        /\ StoreOf(es) = [key \in Keys |-> StoreOf(es)[key]]
    BY DEF StoreOf
  <1>3. StoreOf(es) \in [Keys -> Entries \cup {None}]
    BY <1>1, <1>2
  <1>4. ASSUME NEW e \in es
        PROVE  StoreOf(es)[Key[e]] = e
    <2>1. Key[e] \in Keys
      BY KeysAreEntries
    <2> QED BY <1>1, <2>1
  <1> QED BY <1>1, <1>3, <1>4

(* The tasks of a new store: one of every entry, with names of their own.  *)
LEMMA NewSchedulesType ==
  ASSUME NEW es \in SUBSET Entries, IsFiniteSet(es),
         \A e, f \in es : Key[e] = Key[f] => e = f,
         NEW at \in [Entries -> Nat], NEW base \in Nat,
         base + Cardinality(es) <= MaxIssued,
         NEW S \in NewSchedules(es, at, base)
  PROVE  /\ S \subseteq Task
         /\ \A t \in S : /\ t.id > base /\ t.id <= base + Cardinality(es)
                         /\ \E e \in es : t.key = Key[e] /\ t.occ = at[e]
         /\ \A t, u \in S : t.id = u.id \/ t.key = u.key => t = u
         /\ \A e \in es : \E t \in S : t.key = Key[e]
  <1> DEFINE n == Cardinality(es)
  <1>1. n \in Nat
    BY FS_CardinalityType
  <1>2. PICK shift \in ShiftsOf(es), made \in Bijection(1 .. n, es) :
          S = TasksOf(DOMAIN made, made, at, base, shift)
    BY DEF NewSchedules
  <1> DEFINE T(k) == MakeTask(base + k, made[k], at[made[k]], shift[made[k]])
  <1>3. /\ made \in [1 .. n -> es]
        /\ \A j, k \in 1 .. n : made[j] = made[k] => j = k
        /\ \A e \in es : \E k \in 1 .. n : made[k] = e
    BY <1>2 DEF Bijection, Injection, Surjection, IsInjective
  <1>4. S = {T(k) : k \in 1 .. n}
    BY <1>2, <1>3 DEF TasksOf
  <1>5. ASSUME NEW k \in 1 .. n
        PROVE  /\ T(k) \in Task
               /\ T(k).id = base + k
               /\ T(k).key = Key[made[k]]
               /\ T(k).occ = at[made[k]]
               /\ base + k > base /\ base + k <= base + n
               /\ made[k] \in es
    <2>1. made[k] \in es
      BY <1>3
    <2>2. base + k > base /\ base + k <= base + n /\ base + k \in 1 .. MaxIssued
      BY <1>1, CronAssumption
    <2>3. at[made[k]] \in Nat
      BY <2>1
    <2>4. shift[made[k]] \in Int
      BY <1>2, <2>1, ShiftsType
    <2> QED BY <2>1, <2>2, <2>3, <2>4, MakeTaskType
  <1> HIDE DEF T, n
  <1>6. S \subseteq Task
    BY <1>4, <1>5
  <1>7. ASSUME NEW t \in S
        PROVE  /\ t.id > base /\ t.id <= base + n
               /\ \E e \in es : t.key = Key[e] /\ t.occ = at[e]
    BY <1>4, <1>5
  <1>8. ASSUME NEW t \in S, NEW u \in S, t.id = u.id \/ t.key = u.key
        PROVE  t = u
    <2>1. PICK j \in 1 .. n : t = T(j)
      BY <1>4
    <2>2. PICK k \in 1 .. n : u = T(k)
      BY <1>4
    <2>3. base + j = base + k => j = k
      BY <1>1
    <2>4. Key[made[j]] = Key[made[k]] => j = k
      BY <1>3
    <2> QED BY <1>5, <1>8, <2>1, <2>2, <2>3, <2>4
  <1>9. ASSUME NEW e \in es
        PROVE  \E t \in S : t.key = Key[e]
    <2>1. PICK k \in 1 .. n : made[k] = e
      BY <1>3
    <2> QED BY <1>4, <1>5, <2>1
  <1> QED BY <1>6, <1>7, <1>8, <1>9 DEF n

-----------------------------------------------------------------------------
(* What the operations of the store do to it.  The tasks a step adds have  *)
(* names nobody has yet.                                                   *)
Renews ==
    /\ issued' \in issued .. MaxIssued
    /\ \A t \in schedule' : t \in schedule \/ (t.id > issued /\ t.id <= issued')

LEMMA NamedSchedule ==
  ASSUME CronTypeOK, CronOK
  PROVE  Named(schedule)
  BY DEF CronTypeOK, CronOK, Named

LEMMA EntryOf ==
  ASSUME CronTypeOK, CronOK, NEW t \in schedule
  PROVE  /\ t \in Task
         /\ t.key \in Keys
         /\ entries[t.key] \in Present
         /\ Key[entries[t.key]] = t.key
  <1>1. t \in Task /\ t.key \in Keys
    BY TaskFields DEF CronTypeOK
  <1>2. entries[t.key] \in Entries /\ Key[entries[t.key]] = t.key
    BY <1>1 DEF CronTypeOK, CronOK
  <1> QED BY <1>1, <1>2 DEF Present

LEMMA FirstScheduled ==
  ASSUME CronTypeOK, CronOK, schedule # {}
  PROVE  /\ First \in schedule
         /\ First \in Task
         /\ TimerFor(schedule) = First.sched
  BY NamedSchedule, FirstIsLeast DEF First

LEMMA FirstScheduledNext ==
  ASSUME CronTypeOK', CronOK', schedule' # {}
  PROVE  /\ First' \in schedule'
         /\ TimerFor(schedule') = First'.sched
  <1>1. Named(schedule')
    BY DEF CronTypeOK, CronOK, Named
  <1> QED BY <1>1, FirstIsLeast DEF First

LEMMA PopStep ==
  ASSUME CronTypeOK, CronOK, Pop
  PROVE  /\ CronTypeOK' /\ CronOK' /\ Renews
         /\ schedule # {} /\ issued' > issued
         /\ First \in schedule
         /\ prev' = [prev EXCEPT ![entries[First.key]] =
                       prev[entries[First.key]] + Period[entries[First.key]]]
         /\ \A t \in schedule : t # First => t \in schedule'
         /\ First \notin schedule'
  <1> DEFINE f == First
             e == entries[f.key]
             occ == prev[e] + Period[e]
  <1>1. schedule # {} /\ issued < MaxIssued
    BY DEF Pop
  <1>2. f \in schedule /\ f \in Task /\ f.key \in Keys
        /\ e \in Entries /\ Key[e] = f.key /\ entries[f.key] # None
    BY <1>1, FirstScheduled, EntryOf, KeysAreEntries DEF Present
  <1>3. PICK shift \in Shifts[f.key] :
          schedule' = (schedule \ {f}) \cup {MakeTask(issued + 1, e, occ, shift)}
    BY DEF Pop
  <1> DEFINE new == MakeTask(issued + 1, e, occ, shift)
  <1>4. /\ prev' = [prev EXCEPT ![e] = occ]
        /\ issued' = issued + 1
        /\ timer' = TimerFor(schedule')
        /\ UNCHANGED <<entries, started, now>>
    BY DEF Pop, resetTimer
  <1>5. occ \in Nat
    <2>1. prev[e] \in Nat /\ Period[e] \in Nat
      BY <1>2, CronAssumption DEF CronTypeOK
    <2> QED BY <2>1
  <1>6. shift \in Int
    BY <1>2, <1>3, KeysAreEntries, CronAssumption
  <1>7. issued + 1 \in 1 .. MaxIssued /\ issued \in Int /\ issued' \in issued .. MaxIssued
        /\ issued' > issued /\ issued' \in 0 .. MaxIssued
    BY <1>1, <1>4, CronAssumption DEF CronTypeOK
  <1>8. /\ new \in Task
        /\ new.id = issued + 1
        /\ new.key = f.key
        /\ new.occ = occ
    BY <1>2, <1>5, <1>6, <1>7, MakeTaskType
  <1>9. schedule' = (schedule \ {f}) \cup {new}
    BY <1>3
  <1> HIDE DEF f, e, occ, new
  <1>10. schedule' \subseteq Task
    BY <1>8, <1>9 DEF CronTypeOK
  <1>11. ASSUME NEW t \in schedule, t # f
         PROVE  /\ t.key # f.key
                /\ t.id <= issued /\ t.id # issued + 1 /\ t.id \in Int
                /\ entries'[t.key] # None
                /\ t.occ = prev'[entries'[t.key]]
    <2>1. t.key # f.key /\ t.id <= issued /\ entries[t.key] # None
          /\ t.occ = prev[entries[t.key]]
      BY <1>2, <1>11 DEF CronOK
    <2>2. entries[t.key] \in Entries /\ Key[entries[t.key]] = t.key
          /\ t \in Task
      BY EntryOf DEF Present
    <2>3. t.id \in Int
      BY <2>2, TaskFields
    <2>4. t.id # issued + 1
      BY <1>7, <2>1, <2>3
    <2>5. entries[t.key] # e
      BY <1>2, <2>1, <2>2
    <2> QED BY <1>4, <2>1, <2>2, <2>3, <2>4, <2>5 DEF CronTypeOK
  <1>12. ASSUME NEW t \in schedule', NEW u \in schedule',
                t.id = u.id \/ t.key = u.key
         PROVE  t = u
    BY <1>8, <1>9, <1>11, <1>12 DEF CronOK
  <1>13. CronTypeOK'
    <2>1. prev' \in [Entries -> Nat]
      BY <1>2, <1>4, <1>5 DEF CronTypeOK
    <2>2. Named(schedule')
      BY <1>10, <1>12 DEF Named
    <2>3. timer' \in Int \cup {None}
      BY <1>4, <2>2, TimerType
    <2> QED BY <1>4, <1>7, <1>10, <2>1, <2>3 DEF CronTypeOK
  <1>14. ASSUME NEW t \in schedule'
         PROVE  /\ entries'[t.key] # None
                /\ t.occ = prev'[entries'[t.key]]
                /\ t.id <= issued'
    <2>1. CASE t = new
      <3>1. t.key = f.key /\ t.occ = occ /\ t.id = issued'
        BY <1>4, <1>8, <2>1
      <3>2. entries'[t.key] # None
        BY <1>2, <1>4, <3>1
      <3>3. prev'[e] = occ /\ entries'[t.key] = e
        BY <1>2, <1>4, <3>1 DEF CronTypeOK, e
      <3> QED BY <1>7, <3>1, <3>2, <3>3
    <2>2. CASE t \in schedule /\ t # f
      <3>1. t.id <= issued /\ t.id \in Int
        BY <1>11, <2>2
      <3>2. t.id <= issued'
        BY <1>4, <1>7, <3>1
      <3> QED BY <1>11, <2>2, <3>2
    <2> QED BY <1>9, <2>1, <2>2
  <1>15. ASSUME NEW key \in Keys, entries'[key] # None
         PROVE  /\ Key[entries'[key]] = key
                /\ \E t \in schedule' : t.key = key
    <2>1. Key[entries[key]] = key /\ \E t \in schedule : t.key = key
      BY <1>4, <1>15 DEF CronOK
    <2> QED BY <1>4, <1>8, <1>9, <2>1
  <1>16. CronOK'
    BY <1>12, <1>14, <1>15 DEF CronOK
  <1>17. ASSUME NEW t \in schedule'
         PROVE  t \in schedule \/ (t.id > issued /\ t.id <= issued')
    <2>1. CASE t = new
      BY <1>4, <1>7, <1>8, <2>1
    <2> QED BY <1>9, <2>1
  <1>18. Renews
    BY <1>7, <1>17 DEF Renews
  <1>19. f \notin schedule'
    <2>1. f.id <= issued /\ f.id \in Int
      BY <1>2, TaskFields DEF CronOK
    <2>2. f # new
      BY <1>7, <1>8, <2>1
    <2> QED BY <1>9, <2>2
  <1>20. \A t \in schedule : t # f => t \in schedule'
    BY <1>9
  <1> QED BY <1>1, <1>2, <1>4, <1>7, <1>13, <1>16, <1>18, <1>19, <1>20 DEF f, e, occ

(* EditTask advances only entries that were not in the store.  The entries *)
(* it adds have keys that were free or are removed, and the last one added *)
(* with a key keeps it.                                                    *)
LEMMA EditStep ==
  ASSUME CronTypeOK, CronOK, EditTask
  PROVE  /\ CronTypeOK' /\ CronOK' /\ Renews
         /\ timer' = TimerFor(schedule') /\ UNCHANGED <<started, now>>
         /\ \A t \in schedule : entries'[t.key] = entries[t.key]
                                   => t \in schedule'
  <1>1. PICK removed \in SUBSET Present,
             added \in BoundedSeq(Entries \ Present, MaxAdded) :
               /\ IsInjective(added)
               /\ issued + Len(added) <= MaxIssued
               /\ updateTask(added, removed)
    BY DEF EditTask
  <1>2. /\ timer' = TimerFor(schedule')
        /\ UNCHANGED <<started, now>>
    BY DEF EditTask, resetTimer
  <1> DEFINE rk == {Key[e] : e \in removed}
             failing == Failing(added, rk)
             advanced == Advanced(added, failing)
             n == Len(added)
             kept == Kept(added)
             es == {added[k] : k \in kept}
             made == StoreOf(es)
  <1>3. PICK m \in 0 .. MaxAdded : added \in [1 .. m -> Entries \ Present]
    BY DEF BoundedSeq, SeqOf
  <1>4. n = m /\ n \in Nat /\ DOMAIN added = 1 .. n
        /\ \A k \in 1 .. n : added[k] \in Entries /\ added[k] \notin Present
    <2>1. m \in Nat
      BY CronAssumption
    <2> QED BY <1>3, <2>1
  <1>5. /\ prev' = [e \in Entries |->
                      prev[e] + IF e \in advanced THEN Period[e] ELSE 0]
        /\ issued' = issued + n
        /\ failing = {} =>
              \E shift \in ShiftsOf(ToSet(added)) :
                 Adopt(added, rk, prev', shift)
        /\ failing # {} => UNCHANGED <<entries, schedule>>
    BY <1>1 DEF updateTask
  <1>6. advanced \cap Present = {}
    BY <1>4 DEF Advanced
  <1>7. prev' \in [Entries -> Nat] /\ \A e \in Present : prev'[e] = prev[e]
    <2> HIDE DEF advanced
    <2>1. \A e \in Entries : prev[e] \in Nat /\ Period[e] \in Nat
      BY CronAssumption DEF CronTypeOK
    <2>2. \A e \in Entries : (prev[e] + IF e \in advanced THEN Period[e] ELSE 0) \in Nat
      BY <2>1
    <2>3. \A e \in Present : e \in Entries /\ e \notin advanced
      BY <1>6 DEF Present
    <2> QED BY <1>5, <2>1, <2>2, <2>3
  <1>8. issued \in Int /\ issued' \in issued .. MaxIssued /\ issued' \in 0 .. MaxIssued
    <2>1. issued \in 0 .. MaxIssued
      BY DEF CronTypeOK
    <2> HIDE DEF n
    <2> QED BY <1>1, <1>4, <1>5, <2>1, CronAssumption DEF n
  <1>9. CASE failing # {}
    <2>1. UNCHANGED <<entries, schedule>>
      BY <1>5, <1>9
    <2>2. \A t \in schedule : prev'[entries[t.key]] = prev[entries[t.key]]
                              /\ t.id <= issued'
      <3>1. ASSUME NEW t \in schedule
            PROVE  t.id <= issued'
        <4>1. t.id <= issued /\ t.id \in Int
          BY EntryOf, TaskFields DEF CronOK
        <4> QED BY <1>8, <4>1
      <3> QED BY <1>7, <3>1, EntryOf
    <2>3. CronOK'
      BY <2>1, <2>2 DEF CronOK
    <2>4. timer' \in Int \cup {None}
      BY <1>2, <2>1, TimerType, NamedSchedule
    <2>5. CronTypeOK'
      BY <1>2, <1>7, <1>8, <2>1, <2>4 DEF CronTypeOK
    <2> QED BY <1>2, <1>8, <2>1, <2>3, <2>5 DEF Renews
  <1>10. CASE failing = {}
    <2>1. PICK shift \in ShiftsOf(ToSet(added)) : Adopt(added, rk, prev', shift)
      BY <1>5, <1>10
    <2> DEFINE T(k) == MakeTask(issued + k, added[k], prev'[added[k]],
                                shift[added[k]])
    <2>2. /\ entries' = EntriesAfter(added, rk)
          /\ schedule' = {t \in schedule : t.key \notin rk} \cup {T(k) : k \in kept}
      BY <2>1 DEF Adopt, TasksOf
    <2>3. kept \subseteq 1 .. n
          /\ \A j, k \in kept : Key[added[j]] = Key[added[k]] => j = k
      <3>1. \A j, k \in kept : Key[added[j]] = Key[added[k]] =>
               /\ j \in 1 .. n /\ k \in 1 .. n /\ j <= k /\ k <= j
        BY <1>4 DEF Kept
      <3>2. kept \subseteq 1 .. n
        BY <1>4 DEF Kept
      <3> HIDE DEF kept, n
      <3> QED BY <1>4, <3>1, <3>2
    <2>4. /\ es \in SUBSET Entries
          /\ \A e, f \in es : Key[e] = Key[f] => e = f
      BY <1>4, <2>3
    <2>5. /\ made \in [Keys -> Entries \cup {None}]
          /\ \A e \in es : made[Key[e]] = e
          /\ \A key \in Keys : made[key] # None =>
                made[key] \in es /\ Key[made[key]] = key
      BY <2>4, StoreOfEntries
    <2>6. \A key \in Keys :
             entries'[key] = IF made[key] # None THEN made[key]
                             ELSE IF key \in rk THEN None ELSE entries[key]
      BY <2>2 DEF EntriesAfter
    <2>7. entries' \in [Keys -> Entries \cup {None}]
      <3>1. entries' = [key \in Keys |-> entries'[key]]
        BY <2>2 DEF EntriesAfter
      <3>2. \A key \in Keys : entries'[key] \in Entries \cup {None}
        BY <2>5, <2>6 DEF CronTypeOK
      <3> QED BY <3>1, <3>2
    <2>8. ASSUME NEW k \in kept
          PROVE  /\ T(k) \in Task
                 /\ T(k).id = issued + k
                 /\ T(k).key = Key[added[k]]
                 /\ T(k).occ = prev'[added[k]]
                 /\ issued + k > issued /\ issued + k <= issued'
                 /\ Key[added[k]] \in Keys
                 /\ entries'[Key[added[k]]] = added[k]
                 /\ Key[added[k]] \in rk \/ entries[Key[added[k]]] = None
      <3>1. k \in 1 .. n /\ added[k] \in Entries /\ added[k] \in es
        BY <1>4, <2>3
      <3>2. prev'[added[k]] \in Nat
        BY <1>7, <3>1
      <3>3. shift[added[k]] \in Int
        <4>1. ToSet(added) \in SUBSET Entries /\ added[k] \in ToSet(added)
          BY <1>4, <3>1 DEF ToSet
        <4> QED BY <2>1, <4>1, ShiftsType
      <3>4. issued + k > issued /\ issued + k <= issued' /\ issued + k \in 1 .. MaxIssued
        <4>1. issued \in 0 .. MaxIssued /\ MaxIssued \in Int
          BY CronAssumption DEF CronTypeOK
        <4> HIDE DEF n
        <4> QED BY <1>4, <1>5, <1>8, <3>1, <4>1
      <3>5. Key[added[k]] \in Keys
        BY <3>1, KeysAreEntries
      <3>6. entries'[Key[added[k]]] = added[k]
        BY <2>5, <2>6, <3>1, <3>5, KeysAreEntries
      <3>7. Key[added[k]] \in rk \/ entries[Key[added[k]]] = None
        <4>1. k \notin Failing(added, rk) /\ k \in DOMAIN added
          BY <1>4, <1>10, <3>1
        <4> QED BY <4>1 DEF Failing, Overlaps
      <3> QED BY <3>1, <3>2, <3>3, <3>4, <3>5, <3>6, <3>7, MakeTaskType
    <2>9. ASSUME NEW t \in schedule, t.key \notin rk
          PROVE  /\ \A k \in kept : t.key # Key[added[k]]
                 /\ entries'[t.key] = entries[t.key]
                 /\ entries'[t.key] # None
                 /\ t.occ = prev'[entries'[t.key]]
                 /\ t.id <= issued /\ t.id <= issued' /\ t.id \in Int
                 /\ t \in Task
      <3>1. entries[t.key] # None /\ t.occ = prev[entries[t.key]] /\ t.id <= issued
        BY DEF CronOK
      <3>2. t \in Task /\ t.key \in Keys /\ entries[t.key] \in Present
        BY EntryOf
      <3>3. t.id \in Int /\ t.id <= issued'
        <4>1. t.id \in Int
          BY <3>2, TaskFields
        <4> QED BY <1>8, <3>1, <4>1
      <3>4. \A k \in kept : t.key # Key[added[k]]
        BY <2>8, <2>9, <3>1
      <3>5. made[t.key] = None
        BY <2>5, <3>2, <3>4
      <3>6. entries'[t.key] = entries[t.key]
        BY <2>6, <2>9, <3>2, <3>5
      <3> QED BY <1>7, <3>1, <3>2, <3>3, <3>4, <3>6
    <2>10. PICK new : new = [k \in kept |-> T(k)]
      OBVIOUS
    <2>11. /\ schedule' = {t \in schedule : t.key \notin rk}
                            \cup {new[k] : k \in kept}
           /\ \A k \in kept :
                 /\ new[k] \in Task
                 /\ new[k].id = issued + k
                 /\ new[k].key = Key[added[k]]
                 /\ new[k].occ = prev'[added[k]]
      BY <2>2, <2>8, <2>10
    <2> HIDE DEF T, kept, es, made, n
    <2>12. schedule' \subseteq Task
      BY <2>9, <2>11
    <2>13. ASSUME NEW t \in schedule'
           PROVE  /\ entries'[t.key] # None
                  /\ t.occ = prev'[entries'[t.key]]
                  /\ t.id <= issued'
                  /\ t \in schedule \/ (t.id > issued /\ t.id <= issued')
      <3>1. CASE t \in schedule /\ t.key \notin rk
        BY <2>9, <3>1
      <3>2. ASSUME NEW k \in kept, t = new[k]
            PROVE  /\ entries'[t.key] # None
                   /\ t.occ = prev'[entries'[t.key]]
                   /\ t.id <= issued' /\ t.id > issued
        <4>1. added[k] # None
          BY <1>4, <2>3, KeysAreEntries
        <4> QED BY <2>8, <2>11, <3>2, <4>1
      <3> QED BY <2>11, <3>1, <3>2
    <2>14. ASSUME NEW t \in schedule', NEW u \in schedule',
                  t.id = u.id \/ t.key = u.key
           PROVE  t = u
      <3>1. CASE t \in schedule /\ t.key \notin rk /\ u \in schedule /\ u.key \notin rk
        BY <2>14, <3>1 DEF CronOK
      <3>2. ASSUME NEW v \in schedule, v.key \notin rk, NEW k \in kept
            PROVE  v.id # new[k].id /\ v.key # new[k].key
        <4>1. v.id <= issued /\ v.id \in Int /\ v.key # new[k].key
          BY <2>9, <2>11, <3>2
        <4>2. new[k].id = issued + k /\ issued + k > issued /\ k \in Int
          BY <2>3, <2>8, <2>11
        <4> QED BY <1>8, <4>1, <4>2
      <3>3. ASSUME NEW j \in kept, NEW k \in kept, t = new[j], u = new[k]
            PROVE  t = u
        <4>1. t.key = u.key => j = k
          BY <2>3, <2>11, <3>3
        <4>2. t.id = u.id => j = k
          BY <1>8, <2>3, <2>11, <3>3
        <4> QED BY <2>14, <3>3, <4>1, <4>2
      <3> QED BY <2>11, <2>14, <3>1, <3>2, <3>3
    <2>15. ASSUME NEW key \in Keys, entries'[key] # None
           PROVE  /\ Key[entries'[key]] = key
                  /\ \E t \in schedule' : t.key = key
      <3>1. CASE made[key] # None
        <4>1. entries'[key] = made[key] /\ made[key] \in es /\ Key[made[key]] = key
          BY <2>5, <2>6, <3>1
        <4>2. PICK k \in kept : made[key] = added[k]
          BY <4>1 DEF es
        <4> QED BY <2>11, <4>1, <4>2
      <3>2. CASE made[key] = None
        <4>1. entries'[key] = entries[key] /\ key \notin rk
          BY <2>6, <2>15, <3>2
        <4>2. Key[entries[key]] = key /\ \E t \in schedule : t.key = key
          BY <2>15, <4>1 DEF CronOK
        <4> QED BY <2>11, <4>1, <4>2
      <3> QED BY <3>1, <3>2
    <2>16. CronOK'
      BY <2>13, <2>14, <2>15 DEF CronOK
    <2>17. CronTypeOK'
      <3>1. Named(schedule')
        BY <2>12, <2>14 DEF Named
      <3>2. timer' \in Int \cup {None}
        BY <1>2, <3>1, TimerType
      <3> QED BY <1>2, <1>7, <1>8, <2>7, <2>12, <3>2 DEF CronTypeOK
    <2>18. Renews
      BY <1>8, <2>13 DEF Renews
    <2>19. ASSUME NEW t \in schedule, entries'[t.key] = entries[t.key]
           PROVE  t \in schedule'
      <3>1. CASE t.key \notin rk
        BY <2>11, <3>1
      <3>2. CASE t.key \in rk
        <4>1. PICK e \in removed : t.key = Key[e]
          BY <3>2
        <4>2. e \in Present /\ entries[t.key] = e /\ e # None /\ t.key \in Keys
          BY <1>1, <4>1, EntryOf, KeysAreEntries DEF Present
        <4>3. entries'[t.key] = made[t.key] /\ made[t.key] \in es
          BY <2>5, <2>6, <2>19, <3>2, <4>2
        <4>4. PICK k \in kept : made[t.key] = added[k]
          BY <4>3 DEF es
        <4> QED BY <1>4, <2>3, <2>19, <4>2, <4>3, <4>4
      <3> QED BY <3>1, <3>2
    <2> QED BY <1>2, <2>16, <2>17, <2>18, <2>19
  <1> QED BY <1>9, <1>10

(* A new store, the first one or a replacement, whose entries have come to *)
(* at[e] and whose tasks were made after the first base of them.           *)
LEMMA NewStore ==
  ASSUME NEW es \in SUBSET Entries, IsFiniteSet(es),
         \A e, f \in es : Key[e] = Key[f] => e = f,
         NEW at \in [Entries -> Nat], NEW base \in Nat,
         NEW total, total = base + Cardinality(es), total <= MaxIssued,
         NEW S \in NewSchedules(es, at, base)
  PROVE  /\ total \in 0 .. MaxIssued
         /\ total >= base
         /\ Named(S)
         /\ \A key \in Keys : StoreOf(es)[key] # None =>
               /\ Key[StoreOf(es)[key]] = key
               /\ \E t \in S : t.key = key
         /\ \A t \in S :
               /\ StoreOf(es)[t.key] # None
               /\ t.occ = at[StoreOf(es)[t.key]]
               /\ t.id > base /\ t.id <= total
         /\ \A t, u \in S : t.id = u.id \/ t.key = u.key => t = u
  <1>1. /\ S \subseteq Task
        /\ \A t \in S : /\ t.id > base /\ t.id <= base + Cardinality(es)
                        /\ \E e \in es : t.key = Key[e] /\ t.occ = at[e]
        /\ \A t, u \in S : t.id = u.id \/ t.key = u.key => t = u
        /\ \A e \in es : \E t \in S : t.key = Key[e]
    BY NewSchedulesType
  <1>2. /\ \A e \in es : StoreOf(es)[Key[e]] = e
        /\ \A key \in Keys : StoreOf(es)[key] # None =>
              StoreOf(es)[key] \in es /\ Key[StoreOf(es)[key]] = key
    BY StoreOfEntries
  <1>3. total \in 0 .. MaxIssued /\ total >= base
    <2>1. Cardinality(es) \in Nat
      BY FS_CardinalityType
    <2> QED BY <2>1, CronAssumption
  <1>4. None \notin es
    BY KeysAreEntries
  <1> QED BY <1>1, <1>2, <1>3, <1>4 DEF Named

LEMMA UpdateTasksStep ==
  ASSUME CronTypeOK, CronOK, UpdateTasks
  PROVE  /\ CronTypeOK' /\ CronOK' /\ Renews
         /\ \A t \in schedule' : t.id > issued
         /\ entries' = StoreOf(Replacement)
         /\ \A e \in Replacement : prev'[e] = prev[e] + Period[e]
         /\ \A t \in schedule : entries'[t.key] # entries[t.key]
  <1> DEFINE at == [e \in Entries |->
                      prev[e] + IF e \in Replacement THEN Period[e] ELSE 0]
  <1>1. /\ prev' = at
        /\ schedule' \in NewSchedules(Replacement, at, issued)
        /\ entries' = StoreOf(Replacement)
        /\ issued' = issued + Cardinality(Replacement)
        /\ issued + Cardinality(Replacement) <= MaxIssued
        /\ Replacement \cap Present = {}
        /\ timer' = None /\ started' = FALSE /\ now' = now
    BY DEF UpdateTasks
  <1>2. \A e \in Entries : prev[e] \in Nat /\ Period[e] \in Nat
    BY CronAssumption DEF CronTypeOK
  <1>3. at \in [Entries -> Nat]
    <2>1. \A e \in Entries :
             (prev[e] + IF e \in Replacement THEN Period[e] ELSE 0) \in Nat
      BY <1>2
    <2> QED BY <2>1
  <1>4. issued \in Nat
    BY CronAssumption DEF CronTypeOK
  <1>5. Replacement \in SUBSET Entries /\ IsFiniteSet(Replacement)
        /\ \A e, f \in Replacement : Key[e] = Key[f] => e = f
    BY ReplacementAssumption
  <1>6. \A e \in Replacement : prev'[e] = prev[e] + Period[e]
    BY <1>1, <1>5
  <1> HIDE DEF at
  <1>7. /\ issued' \in 0 .. MaxIssued
        /\ issued' >= issued
        /\ Named(schedule')
        /\ \A key \in Keys : entries'[key] # None =>
              /\ Key[entries'[key]] = key
              /\ \E t \in schedule' : t.key = key
        /\ \A t \in schedule' :
              /\ entries'[t.key] # None
              /\ t.occ = prev'[entries'[t.key]]
              /\ t.id > issued /\ t.id <= issued'
        /\ \A t, u \in schedule' : t.id = u.id \/ t.key = u.key => t = u
    BY <1>1, <1>3, <1>4, <1>5, NewStore
  <1>8. CronOK'
    BY <1>7 DEF CronOK
  <1>9. CronTypeOK'
    <2>1. entries' \in [Keys -> Entries \cup {None}]
      BY <1>1, <1>5, StoreOfEntries
    <2> QED BY <1>1, <1>3, <1>7, <2>1 DEF CronTypeOK, Named
  <1>10. Renews
    BY <1>4, <1>7 DEF Renews
  <1>11. ASSUME NEW t \in schedule
         PROVE  entries'[t.key] # entries[t.key]
    <2>1. t.key \in Keys /\ entries[t.key] \in Present /\ None \notin Present
      BY EntryOf, KeysAreEntries DEF Present
    <2>2. entries'[t.key] = None \/ entries'[t.key] \in Replacement
      BY <1>1, <1>5, <2>1, StoreOfEntries
    <2> QED BY <1>1, <2>1, <2>2
  <1> QED BY <1>1, <1>6, <1>7, <1>8, <1>9, <1>10, <1>11

LEMMA CronInitOK ==
  ASSUME CronInit
  PROVE  /\ CronTypeOK /\ CronOK
         /\ entries = StoreOf(Initial)
         /\ \A e \in Initial : prev[e] = Period[e]
         /\ \A t \in schedule : t.id > 0
  <1>1. /\ now = 0 /\ started = FALSE /\ timer = None
        /\ issued = Cardinality(Initial)
        /\ entries = StoreOf(Initial)
        /\ prev = [e \in Entries |-> IF e \in Initial THEN Period[e] ELSE 0]
        /\ schedule \in NewSchedules(Initial, Period, 0)
    BY DEF CronInit
  <1>2. \A e \in Entries : Period[e] \in Nat
    BY CronAssumption
  <1>3. Period \in [Entries -> Nat] /\ prev \in [Entries -> Nat]
        /\ \A e \in Initial : prev[e] = Period[e]
    <2>1. \A e \in Entries : (IF e \in Initial THEN Period[e] ELSE 0) \in Nat
      BY <1>2
    <2>2. Period \in [Entries -> Nat]
      BY CronAssumption
    <2> QED BY <1>1, <2>1, <2>2, CronAssumption
  <1>4. /\ Initial \in SUBSET Entries /\ IsFiniteSet(Initial)
        /\ \A e, f \in Initial : Key[e] = Key[f] => e = f
        /\ issued = Cardinality(Initial) /\ issued = 0 + Cardinality(Initial)
        /\ issued <= MaxIssued /\ 0 \in Nat
    <2>1. Cardinality(Initial) \in Nat
      BY FS_CardinalityType, CronAssumption
    <2> QED BY <1>1, <2>1, CronAssumption
  <1>5. /\ issued \in 0 .. MaxIssued
        /\ Named(schedule)
        /\ \A key \in Keys : entries[key] # None =>
              /\ Key[entries[key]] = key
              /\ \E t \in schedule : t.key = key
        /\ \A t \in schedule :
              /\ entries[t.key] # None
              /\ t.occ = Period[entries[t.key]]
              /\ t.id > 0 /\ t.id <= issued
        /\ \A t, u \in schedule : t.id = u.id \/ t.key = u.key => t = u
    BY <1>1, <1>3, <1>4, NewStore
  <1>6. entries \in [Keys -> Entries \cup {None}]
        /\ \A key \in Keys : entries[key] # None => entries[key] \in Initial
    BY <1>1, <1>4, StoreOfEntries
  <1>7. CronTypeOK
    <2>1. 0 \in 0 .. MaxTime
      BY CronAssumption
    <2> QED BY <1>1, <1>3, <1>5, <1>6, <2>1 DEF CronTypeOK, Named
  <1>8. \A t \in schedule : t.occ = prev[entries[t.key]]
    <2>1. \A t \in schedule : t.key \in Keys
      BY <1>5, TaskFields DEF Named
    <2> QED BY <1>3, <1>5, <1>6, <2>1
  <1>9. CronOK
    BY <1>5, <1>8 DEF CronOK
  <1>10. \A t \in schedule : t.id > 0
    BY <1>5, TaskFields DEF Named
  <1> QED BY <1>1, <1>3, <1>7, <1>9, <1>10

-----------------------------------------------------------------------------
(* Every step keeps the store well-formed.                                 *)
LEMMA StoreStep ==
  ASSUME CronTypeOK, CronOK, [Next]_vars
  PROVE  CronTypeOK' /\ CronOK' /\ Renews
  <1>1. ASSUME UNCHANGED <<entries, prev, schedule, issued>>,
               timer' \in Int \cup {None}, started' \in BOOLEAN,
               now' \in 0 .. MaxTime
        PROVE  CronTypeOK' /\ CronOK' /\ Renews
    <2>1. CronTypeOK' /\ CronOK'
      BY <1>1 DEF CronTypeOK, CronOK
    <2>2. issued' \in issued .. MaxIssued
      BY <1>1, CronAssumption DEF CronTypeOK
    <2> QED BY <1>1, <2>1, <2>2 DEF Renews
  <1>2. CASE StartTimer
    BY <1>1, <1>2, TimerType, NamedSchedule DEF StartTimer, CronTypeOK
  <1>3. CASE StopTimer
    BY <1>1, <1>3 DEF StopTimer, CronTypeOK
  <1>4. CASE Receive
    BY <1>1, <1>4 DEF Receive, CronTypeOK
  <1>5. CASE CronTick
    <2>1. now' \in 0 .. MaxTime
      BY <1>5, CronAssumption DEF CronTick, CronTypeOK
    <2> QED BY <1>1, <1>5, <2>1 DEF CronTick, CronTypeOK
  <1>6. CASE UNCHANGED cronVars
    BY <1>1, <1>6 DEF cronVars, CronTypeOK
  <1>7. CASE Pop
    BY <1>7, PopStep
  <1>8. CASE EditTask
    BY <1>8, EditStep
  <1>9. CASE UpdateTasks
    BY <1>9, UpdateTasksStep
  <1>10. CASE UNCHANGED vars
    BY <1>6, <1>10 DEF vars
  <1>11. CASE Boot \/ StepStartTimer \/ StartReplacement
    BY <1>2, <1>11 DEF Boot, StepStartTimer, StartReplacement
  <1>12. CASE StepStopTimer \/ SelectTimer \/ Tick
    BY <1>3, <1>4, <1>5, <1>6, <1>12 DEF StepStopTimer, SelectTimer, Tick
  <1>13. CASE Step \/ SelectCtxDone \/ SelectResult \/ GetNext \/ StepCompare
    BY <1>6, <1>13 DEF Step, SelectCtxDone, SelectResult, GetNext, StepCompare
  <1>14. CASE DispatchCtxDone \/ MarkAsDispatched \/ DispatchFetch \/ RetryDispatch
    BY <1>6, <1>14 DEF DispatchCtxDone, MarkAsDispatched, DispatchFetch,
                       RetryDispatch
  <1>15. CASE MarkAsDispatchedPop
    BY <1>6, <1>7, <1>15 DEF MarkAsDispatchedPop
  <1>16. CASE Edit
    BY <1>8, <1>16 DEF Edit
  <1> QED BY <1>9, <1>10, <1>11, <1>12, <1>13, <1>14, <1>15, <1>16 DEF Next

(* A task on record is a task, and what is no task is not.                 *)
LEMMA RecordedIsTask ==
  ASSUME TypeOK, next # None, Recorded(next)
  PROVE  next \in Task
  <1>1. PICK r \in record : r.id = next.id
    BY DEF Recorded
  <1>2. r.id > 0 /\ r.id \in Int
    BY TaskFields DEF TypeOK
  <1>3. next # ZeroTask
    BY <1>1, <1>2 DEF ZeroTask
  <1> QED BY <1>3 DEF TypeOK, Option

LEMMA AppendHandedOut ==
  ASSUME NEW s \in Seq(Task), NEW t \in Task
  PROVE  /\ Append(s, t) \in Seq(Task)
         /\ ToSet(Append(s, t)) = ToSet(s) \cup {t}
  <1>1. /\ Append(s, t) \in Seq(Task)
        /\ Len(Append(s, t)) = Len(s) + 1
        /\ \A k \in 1 .. Len(s) : Append(s, t)[k] = s[k]
        /\ Append(s, t)[Len(s) + 1] = t
        /\ DOMAIN Append(s, t) = 1 .. Len(s) + 1
        /\ DOMAIN s = 1 .. Len(s) /\ Len(s) \in Nat
    OBVIOUS
  <1>2. 1 .. Len(s) + 1 = (1 .. Len(s)) \cup {Len(s) + 1}
    BY <1>1
  <1> QED BY <1>1, <1>2 DEF ToSet

LEMMA TypeStep ==
  ASSUME TypeOK, CronOK, HeldOK, [Next]_vars
  PROVE  TypeOK'
  <1> USE DEF Goes, Returns, ReturnsDispatchErr, workVars, history, Option
  <1>1. CronTypeOK /\ CronTypeOK'
    BY StoreStep DEF TypeOK
  <1>2. CASE UNCHANGED vars
    BY <1>1, <1>2 DEF vars, stepVars, TypeOK
  <1>3. CASE Boot
    BY <1>1, <1>3 DEF Boot, TypeOK
  <1>4. CASE Step
    BY <1>1, <1>4, NoneAssumption DEF Step, Proceed, TypeOK
  <1>5. CASE StepStopTimer
    BY <1>1, <1>5 DEF StepStopTimer, TypeOK
  <1>6. CASE StepStartTimer
    BY <1>1, <1>6, NoneAssumption DEF StepStartTimer, Proceed, TypeOK
  <1>7. CASE SelectCtxDone
    BY <1>1, <1>7 DEF SelectCtxDone, Wakes, TypeOK
  <1>8. CASE SelectResult
    BY <1>1, <1>8 DEF SelectResult, Wakes, TypeOK
  <1>9. CASE SelectTimer
    BY <1>1, <1>9 DEF SelectTimer, Wakes, TypeOK
  <1>10. CASE GetNext
    BY <1>1, <1>10, FirstScheduled, TaskFields DEF GetNext, TypeOK
  <1>11. CASE StepCompare
    BY <1>1, <1>11 DEF StepCompare, TypeOK, HeldOK
  <1>12. CASE DispatchCtxDone
    BY <1>1, <1>12 DEF DispatchCtxDone, TypeOK
  <1>13. CASE MarkAsDispatched
    BY <1>1, <1>13 DEF MarkAsDispatched, TypeOK
  <1>14. CASE MarkAsDispatchedPop
    BY <1>1, <1>14 DEF MarkAsDispatchedPop, TypeOK
  <1>15. CASE DispatchFetch
    BY <1>1, <1>15, RecordedIsTask, AppendHandedOut DEF DispatchFetch, TypeOK
  <1>16. CASE RetryDispatch
    BY <1>1, <1>16, NoneAssumption DEF RetryDispatch, TypeOK
  <1>17. CASE UpdateTasks
    <2>1. /\ issued \in Nat /\ prev \in [Entries -> Nat]
          /\ timer \in Int \cup {None}
      BY <1>1, CronAssumption DEF CronTypeOK
    <2>2. pc = "fetch" => next \in Task
      BY DEF HeldOK
    <2>3. store' \in [of : SUBSET Entries, from : [Entries -> Nat], base : Nat,
                      due : Option(Task)]
      BY <1>17, <2>1, <2>2, ReplacementAssumption DEF UpdateTasks
    <2>4. replaced' # <<>> => pc' = "select" /\ replaced'[1] \in Int \cup {None}
      BY <1>17, <2>1 DEF UpdateTasks
    <2>5. handedOut' \in Seq(Task) /\ disturbed' = None
          /\ UNCHANGED <<record, pc, next, lastTask, getNextErr, failed, working>>
      BY <1>17 DEF UpdateTasks
    <2> QED BY <1>1, <2>3, <2>4, <2>5 DEF TypeOK
  <1>18. CASE StartReplacement
    BY <1>1, <1>18 DEF StartReplacement, stepVars, TypeOK
  <1>19. CASE Edit
    BY <1>1, <1>19 DEF Edit, stepVars, TypeOK
  <1>20. CASE Tick
    BY <1>1, <1>20 DEF Tick, stepVars, TypeOK
  <1> QED BY <1>2, <1>3, <1>4, <1>5, <1>6, <1>7, <1>8, <1>9, <1>10, <1>11,
             <1>12, <1>13, <1>14, <1>15, <1>16, <1>17, <1>18, <1>19, <1>20
          DEF Next

(* Whatever is about after a step was about before, or is new in the       *)
(* schedule.                                                               *)
LEMMA AboutTyped ==
  ASSUME TypeOK
  PROVE  /\ About \subseteq Task
         /\ schedule \subseteq About /\ record \subseteq About
         /\ working \subseteq About /\ ToSet(handedOut) \subseteq About
         /\ next \in Task => next \in About
         /\ lastTask \in Task => lastTask \in About
         /\ failed \in Task => failed \in About
  <1>1. ToSet(handedOut) \subseteq Task
    BY DEF TypeOK, ToSet
  <1>2. /\ schedule \subseteq Task /\ record \subseteq Task
        /\ working \subseteq Task
        /\ next \in Task \cup {None, ZeroTask}
        /\ lastTask \in Task \cup {None, ZeroTask}
        /\ failed \in Task \cup {None, ZeroTask}
    BY DEF TypeOK, CronTypeOK, Option
  <1>3. None \notin Task /\ ZeroTask \notin Task
    BY TaskFields
  <1> QED BY <1>1, <1>2, <1>3 DEF About

LEMMA AboutStep ==
  ASSUME TypeOK, CronOK, HeldOK, [Next]_vars
  PROVE  About' \subseteq About \cup schedule'
  <1> DEFINE All == schedule \cup record \cup working \cup ToSet(handedOut)
                      \cup {next, lastTask, failed, None, ZeroTask}
  <1> USE DEF Goes, Returns, ReturnsDispatchErr, workVars, history, stepVars
  <1>1. SUFFICES /\ record' \subseteq All
                 /\ working' \subseteq All
                 /\ ToSet(handedOut') \subseteq All
                 /\ {next', lastTask', failed'} \subseteq All
    BY DEF About
  <1>2. CASE UNCHANGED vars
    BY <1>2 DEF vars
  <1>3. CASE Boot \/ StepStopTimer \/ SelectCtxDone \/ SelectTimer
    BY <1>3 DEF Boot, StepStopTimer, SelectCtxDone, Wakes, SelectTimer
  <1>4. CASE Step \/ StepStartTimer
    BY <1>4 DEF Step, StepStartTimer, Proceed
  <1>5. CASE SelectResult
    BY <1>5 DEF SelectResult, Wakes
  <1>6. CASE GetNext
    BY <1>6, FirstScheduled DEF GetNext, TypeOK
  <1>7. CASE StepCompare
    BY <1>7 DEF StepCompare
  <1>8. CASE DispatchCtxDone \/ MarkAsDispatchedPop
    BY <1>8 DEF DispatchCtxDone, MarkAsDispatchedPop
  <1>9. CASE MarkAsDispatched
    BY <1>9 DEF MarkAsDispatched
  <1>10. CASE DispatchFetch
    <2>1. UNCHANGED <<record, lastTask>>
          /\ (next' = None) /\ (failed' = failed \/ failed' = next)
      BY <1>10 DEF DispatchFetch
    <2>2. \/ UNCHANGED <<working, handedOut>>
          \/ /\ working' = working \cup {next} /\ next \in Task
             /\ handedOut' = handedOut \/ handedOut' = Append(handedOut, next)
      <3>1. next # None
        BY <1>10 DEF DispatchFetch, TypeOK
      <3> QED BY <1>10, <3>1, RecordedIsTask DEF DispatchFetch
    <2>3. ToSet(handedOut') \subseteq ToSet(handedOut) \cup {next}
          /\ working' \subseteq working \cup {next}
      BY <2>2, AppendHandedOut DEF TypeOK
    <2> QED BY <2>1, <2>3
  <1>11. CASE RetryDispatch
    BY <1>11 DEF RetryDispatch
  <1>12. CASE UpdateTasks
    <2>1. ToSet(handedOut') = {}
      BY <1>12 DEF UpdateTasks, ToSet
    <2> QED BY <1>12, <2>1 DEF UpdateTasks
  <1>13. CASE StartReplacement \/ Edit \/ Tick
    BY <1>13 DEF StartReplacement, Edit, Tick
  <1> QED BY <1>2, <1>3, <1>4, <1>5, <1>6, <1>7, <1>8, <1>9, <1>10, <1>11,
             <1>12, <1>13 DEF Next

LEMMA NamesStep ==
  ASSUME TypeOK, CronOK, NamesOK, HeldOK, [Next]_vars
  PROVE  NamesOK'
  <1>1. About' \subseteq About \cup schedule'
    BY AboutStep
  <1>2. CronTypeOK' /\ CronOK' /\ Renews /\ TypeOK'
    BY StoreStep, TypeStep DEF TypeOK
  <1>3. About \subseteq Task /\ About' \subseteq Task /\ schedule \subseteq About
    <2>1. ToSet(handedOut') \subseteq Task
      BY <1>2 DEF TypeOK, ToSet
    <2>2. /\ schedule' \subseteq Task /\ record' \subseteq Task
          /\ working' \subseteq Task
          /\ next' \in Task \cup {None, ZeroTask}
          /\ lastTask' \in Task \cup {None, ZeroTask}
          /\ failed' \in Task \cup {None, ZeroTask}
      BY <1>2 DEF TypeOK, CronTypeOK, Option
    <2> QED BY <2>1, <2>2, AboutTyped DEF About
  <1>4. ASSUME NEW t \in About'
        PROVE  t.id \in Int /\ t.id <= issued'
               /\ ((t \in About /\ t.id <= issued) \/ (t \in schedule' /\ t.id > issued))
    <2>1. t.id \in Int
      BY <1>3, TaskFields
    <2>2. issued' >= issued /\ issued \in Int /\ issued' \in Int
      BY <1>2, CronAssumption DEF Renews, TypeOK, CronTypeOK
    <2>3. CASE t \in About
      BY <2>1, <2>2, <2>3 DEF NamesOK
    <2>4. CASE t \notin About
      <3>1. t \in schedule' /\ t \notin schedule
        BY <1>1, <1>3, <2>4
      <3> QED BY <1>2, <2>1, <3>1 DEF Renews
    <2> QED BY <2>3, <2>4
  <1>5. ASSUME NEW t \in About', NEW u \in About', t.id = u.id
        PROVE  t = u
    <2>1. issued \in Int
      BY CronAssumption DEF TypeOK, CronTypeOK
    <2>2. (t \in About /\ u \in About) \/ (t \in schedule' /\ u \in schedule')
      BY <1>4, <1>5, <2>1
    <2> QED BY <1>2, <1>5, <2>2 DEF NamesOK, CronOK
  <1> QED BY <1>4, <1>5 DEF NamesOK

(* What Step holds stays on record.  A report and AlreadyCancelled are     *)
(* what forgets a record, and then Step holds nothing any more.            *)
LEMMA HeldStep ==
  ASSUME TypeOK, CronOK, HeldOK, [Next]_vars
  PROVE  HeldOK'
  <1> USE DEF Goes, Returns, ReturnsDispatchErr, workVars, history, stepVars
  <1>1. CASE UNCHANGED vars
    BY <1>1 DEF vars, HeldOK, Recorded
  <1>2. CASE Boot \/ StepStopTimer \/ SelectCtxDone \/ SelectTimer
    BY <1>2 DEF Boot, StepStopTimer, SelectCtxDone, Wakes, SelectTimer, HeldOK,
                Recorded
  <1>3. CASE Step \/ StepStartTimer
    BY <1>3 DEF Step, StepStartTimer, Proceed, HeldOK, Recorded, TypeOK, Option
  <1>4. CASE SelectResult
    BY <1>4 DEF SelectResult, Wakes, HeldOK
  <1>5. CASE GetNext
    <2>1. CASE schedule = {}
      BY <1>5, <2>1 DEF GetNext, HeldOK
    <2>2. CASE schedule # {}
      BY <1>5, <2>2, FirstScheduled DEF GetNext, HeldOK, Recorded, TypeOK
    <2> QED BY <2>1, <2>2
  <1>6. CASE StepCompare
    BY <1>6 DEF StepCompare, HeldOK, Recorded
  <1>7. CASE DispatchCtxDone \/ MarkAsDispatchedPop
    BY <1>7 DEF DispatchCtxDone, MarkAsDispatchedPop, HeldOK, Recorded
  <1>8. CASE MarkAsDispatched
    BY <1>8 DEF MarkAsDispatched, HeldOK, Recorded
  <1>9. CASE DispatchFetch
    BY <1>9 DEF DispatchFetch, HeldOK, Recorded
  <1>10. CASE RetryDispatch
    BY <1>10 DEF RetryDispatch, HeldOK, Recorded
  <1>11. CASE UpdateTasks
    BY <1>11 DEF UpdateTasks, HeldOK, Recorded
  <1>12. CASE StartReplacement \/ Edit \/ Tick
    BY <1>12 DEF StartReplacement, Edit, Tick, HeldOK, Recorded
  <1> QED BY <1>1, <1>2, <1>3, <1>4, <1>5, <1>6, <1>7, <1>8, <1>9, <1>10,
             <1>11, <1>12 DEF Next

(* The names of a replaced store stay below those of the one in its place. *)
LEMMA StoreOKStep ==
  ASSUME TypeOK, CronOK, NamesOK, HeldOK, StoreOK, [Next]_vars
  PROVE  StoreOK'
  <1> USE DEF Goes, Returns, ReturnsDispatchErr, workVars, history, stepVars
  <1>1. /\ store.base \in Nat /\ issued \in Int /\ issued' \in Int
        /\ issued' >= issued
    BY StoreStep, CronAssumption DEF TypeOK, CronTypeOK, Renews
  <1>2. /\ schedule' \subseteq Task /\ schedule \subseteq Task
        /\ \A t \in schedule' : t \in schedule \/ t.id > issued
        /\ \A t \in schedule' : t.id \in Int
    <2>1. schedule' \subseteq Task
      BY StoreStep DEF TypeOK, CronTypeOK
    <2> QED BY <2>1, StoreStep, TaskFields DEF Renews, TypeOK, CronTypeOK
  <1>3. ASSUME store' = store
        PROVE  /\ store'.base <= issued'
               /\ store'.due # None => store'.due.id <= store'.base
               /\ \A t \in schedule' : t.id > store'.base
               /\ \A e, f \in store'.of : Key[e] = Key[f] => e = f
    <2>1. store.base <= issued'
      BY <1>1 DEF StoreOK
    <2>2. \A t \in schedule' : t.id > store.base
      BY <1>1, <1>2 DEF StoreOK
    <2> QED BY <1>3, <2>1, <2>2 DEF StoreOK
  <1>4. ASSUME store' = store, working' \subseteq working,
               handedOut' = handedOut
        PROVE  StoreOK'
    BY <1>3, <1>4 DEF StoreOK
  <1>5. CASE UNCHANGED vars
    BY <1>4, <1>5 DEF vars
  <1>6. CASE Boot \/ StepStopTimer \/ SelectCtxDone \/ SelectTimer
    BY <1>4, <1>6 DEF Boot, StepStopTimer, SelectCtxDone, SelectTimer
  <1>7. CASE Step \/ StepStartTimer \/ SelectResult \/ GetNext
    BY <1>4, <1>7 DEF Step, StepStartTimer, Proceed, SelectResult, GetNext
  <1>8. CASE StepCompare \/ DispatchCtxDone \/ MarkAsDispatchedPop
    BY <1>4, <1>8 DEF StepCompare, DispatchCtxDone, MarkAsDispatchedPop
  <1>9. CASE MarkAsDispatched \/ RetryDispatch
    BY <1>4, <1>9 DEF MarkAsDispatched, RetryDispatch
  <1>10. CASE StartReplacement \/ Edit \/ Tick
    BY <1>4, <1>10 DEF StartReplacement, Edit, Tick
  <1>11. CASE DispatchFetch
    <2>1. store' = store /\ next # None
      BY <1>11 DEF DispatchFetch, TypeOK
    <2>2. \/ UNCHANGED <<working, handedOut>>
          \/ /\ working' = working \cup {next} /\ next \in Task
             /\ \/ handedOut' = handedOut /\ next \in ToSet(handedOut)
                \/ handedOut' = Append(handedOut, next)
      BY <1>11, <2>1, RecordedIsTask DEF DispatchFetch
    <2>3. \A t \in working' : t \in working \/ t \in ToSet(handedOut')
      BY <2>2, AppendHandedOut DEF TypeOK
    <2>4. ToSet(handedOut) \subseteq ToSet(handedOut')
      BY <2>2, AppendHandedOut DEF TypeOK
    <2> QED BY <1>3, <2>1, <2>3, <2>4 DEF StoreOK
  <1>12. CASE UpdateTasks
    <2>1. /\ store'.of = Replacement /\ store'.base = issued
          /\ store'.due = (IF pc = "fetch" THEN next ELSE None)
          /\ working' = working
      BY <1>12 DEF UpdateTasks
    <2>2. \A t \in working : t.id <= issued
      BY AboutTyped DEF NamesOK
    <2>3. pc = "fetch" => next.id <= issued
      BY AboutTyped DEF NamesOK, HeldOK
    <2>4. \A t \in schedule' : t.id > issued
      BY <1>12, UpdateTasksStep DEF TypeOK
    <2> QED BY <1>1, <2>1, <2>2, <2>3, <2>4, ReplacementAssumption DEF StoreOK
  <1> QED BY <1>5, <1>6, <1>7, <1>8, <1>9, <1>10, <1>11, <1>12 DEF Next

(* The timer of a started store.  Every operation that changes the         *)
(* schedule sets it again; a Step that received from it records the first  *)
(* task, and only the report of work handed out forgets such a record.     *)
LEMMA TicksStep ==
  ASSUME TypeOK, CronOK, NamesOK, HeldOK, StoreOK, TicksOK, [Next]_vars
  PROVE  TicksOK'
  <1> USE DEF Goes, Returns, ReturnsDispatchErr, workVars, history, stepVars
  <1> DEFINE Expects == pc = "getNext" \/ TakenUp(First)
  <1>1. CronTypeOK /\ CronTypeOK' /\ CronOK'
    BY StoreStep DEF TypeOK
  <1>2. ASSUME timer' = TimerFor(schedule') \/ ~started'
        PROVE  TicksOK'
    BY <1>1, <1>2, FirstScheduledNext DEF TicksOK
  <1>3. ASSUME UNCHANGED <<schedule, started>>,
               timer' = timer \/ (timer' = None /\ pc' = "getNext"),
               schedule # {} /\ Expects => Expects'
        PROVE  TicksOK'
    <2>1. First' = First
      BY <1>3 DEF First
    <2> HIDE DEF Expects
    <2> QED BY <1>3, <2>1 DEF TicksOK, Expects
  <1>4. ASSUME UNCHANGED cronVars, pc # "getNext",
               record \subseteq record', ToSet(handedOut) \subseteq ToSet(handedOut')
        PROVE  TicksOK'
    <2>1. First' = First /\ UNCHANGED <<schedule, started, timer>>
      BY <1>4 DEF First, cronVars
    <2>2. TakenUp(First) => TakenUp(First)'
      BY <1>4, <2>1 DEF TakenUp, Recorded
    <2> QED BY <1>3, <1>4, <2>1, <2>2
  <1>5. CASE UNCHANGED vars
    <2>1. Expects' = Expects
      BY <1>5 DEF vars, cronVars, TakenUp, Recorded, First
    <2> QED BY <1>3, <1>5, <2>1 DEF vars, cronVars
  <1>6. CASE Boot \/ StepStartTimer \/ StartReplacement
    BY <1>2, <1>6 DEF Boot, StepStartTimer, StartReplacement, StartTimer
  <1>7. CASE StepStopTimer \/ UpdateTasks
    BY <1>2, <1>7 DEF StepStopTimer, UpdateTasks, StopTimer
  <1>8. CASE Edit
    BY <1>2, <1>8, EditStep, <1>1 DEF Edit
  <1>9. CASE Step \/ SelectCtxDone
    BY <1>4, <1>9 DEF Step, Proceed, SelectCtxDone, Wakes
  <1>10. CASE StepCompare \/ DispatchCtxDone \/ RetryDispatch
    BY <1>4, <1>10 DEF StepCompare, DispatchCtxDone, RetryDispatch
  <1>11. CASE MarkAsDispatchedPop
    <2>1. CASE Pop
      BY <1>2, <2>1 DEF Pop, resetTimer
    <2>2. CASE ~Pop
      BY <1>4, <1>11, <2>2 DEF MarkAsDispatchedPop
    <2> QED BY <2>1, <2>2
  <1>12. CASE DispatchFetch
    <2>1. UNCHANGED <<cronVars, record>> /\ pc # "getNext" /\ next # None
      BY <1>12 DEF DispatchFetch, TypeOK
    <2>2. \/ handedOut' = handedOut
          \/ next \in Task /\ handedOut' = Append(handedOut, next)
      BY <1>12, <2>1, RecordedIsTask DEF DispatchFetch
    <2>3. ToSet(handedOut) \subseteq ToSet(handedOut')
      BY <2>2, AppendHandedOut DEF TypeOK
    <2> QED BY <1>4, <2>1, <2>3
  <1>13. CASE SelectTimer
    <2>1. UNCHANGED <<schedule, started>> /\ pc' = "getNext"
          /\ timer' \in {timer, None}
      BY <1>13 DEF SelectTimer, Receive, cronVars
    <2> QED BY <1>3, <2>1
  <1>14. CASE GetNext
    <2>1. CASE schedule = {}
      <3>1. UNCHANGED <<schedule, started, timer>>
        BY <1>14 DEF GetNext, cronVars
      <3> QED BY <1>3, <2>1, <3>1
    <2>2. CASE schedule # {}
      <3>1. UNCHANGED <<schedule, started, timer>> /\ First \in record'
        BY <1>14, <2>2 DEF GetNext, cronVars
      <3>2. First' = First
        BY <3>1 DEF First
      <3>3. TakenUp(First)'
        BY <3>1, <3>2 DEF TakenUp, Recorded
      <3> QED BY <1>3, <3>1, <3>3
    <2> QED BY <2>1, <2>2
  <1>15. CASE MarkAsDispatched
    <2>1. UNCHANGED <<schedule, started, timer, handedOut>> /\ pc # "getNext"
          /\ \/ record' = record
             \/ /\ schedule # {} /\ First.id # next.id
                /\ record' = {r \in record : r.id # next.id}
      BY <1>15 DEF MarkAsDispatched, cronVars
    <2>2. First' = First
      BY <2>1 DEF First
    <2>3. TakenUp(First) => TakenUp(First)'
      BY <2>1, <2>2 DEF TakenUp, Recorded
    <2> QED BY <1>3, <2>1, <2>3
  <1>16. CASE SelectResult
    <2>1. UNCHANGED <<schedule, started, timer, handedOut>> /\ pc # "getNext"
      BY <1>16 DEF SelectResult, Wakes, cronVars
    <2>2. PICK t \in working : \/ record' = {r \in record : r.id # t.id}
                               \/ record' = record
      BY <1>16 DEF SelectResult
    <2>3. First' = First
      BY <2>1 DEF First
    <2>4. ASSUME schedule # {}, TakenUp(First)
          PROVE  TakenUp(First)'
      <3>1. CASE t.id # First.id
        BY <2>1, <2>2, <2>3, <2>4, <3>1 DEF TakenUp, Recorded
      <3>2. CASE t.id = First.id
        <4>1. First \in schedule /\ First.id \in Int /\ First.id > store.base
              /\ store.base \in Int
          BY <1>1, <2>4, FirstScheduled, TaskFields DEF StoreOK, TypeOK
        <4>2. t \in ToSet(handedOut)
          BY <3>2, <4>1 DEF StoreOK
        <4>3. t = First
          BY <3>2, <4>1, AboutTyped DEF NamesOK
        <4> QED BY <2>1, <2>3, <4>2, <4>3 DEF TakenUp
      <3> QED BY <3>1, <3>2
    <2> QED BY <1>3, <2>1, <2>4
  <1>17. CASE Tick
    BY <1>17, <1>3 DEF Tick, CronTick, TakenUp, Recorded, First
  <1> QED BY <1>5, <1>6, <1>7, <1>8, <1>9, <1>10, <1>11, <1>12, <1>13, <1>14,
             <1>15, <1>16, <1>17 DEF Next

(* An undisturbed store.  MarkAsDispatched lets only the first task go on  *)
(* to the Pop, which moves the entry on; what was popped is handed out.    *)
LEMMA RunsStep ==
  ASSUME Inv, [Next]_vars, disturbed' = None
  PROVE  RunsOK'
  <1> USE DEF Goes, Returns, ReturnsDispatchErr, workVars, history, stepVars
  <1>1. /\ TypeOK /\ CronOK /\ NamesOK /\ HeldOK /\ StoreOK
        /\ disturbed = None => RunsOK
    BY DEF Inv
  <1>2. CronTypeOK /\ CronTypeOK' /\ CronOK'
    BY <1>1, StoreStep DEF TypeOK
  <1>3. ASSUME disturbed = None, UNCHANGED <<entries, prev, schedule, handedOut,
                                             store, pc, next>>
        PROVE  RunsOK'
    <2>1. RunsOK /\ First' = First
      BY <1>1, <1>3 DEF First
    <2> QED BY <1>3, <2>1 DEF RunsOK, Popped, Runs, Follows
  <1>4. ASSUME disturbed = None, UNCHANGED <<entries, prev, handedOut, store>>,
               pc # "fetch", pc' \notin {"fetch", "pop"}
        PROVE  RunsOK'
    <2>1. RunsOK
      BY <1>1, <1>4
    <2> QED BY <1>4, <2>1 DEF RunsOK, Popped, Runs, Follows
  <1>5. CASE UNCHANGED vars
    BY <1>3, <1>5 DEF vars, cronVars
  <1>6. CASE Boot \/ StepStopTimer \/ SelectCtxDone \/ SelectTimer
    BY <1>4, <1>6 DEF Boot, StepStopTimer, SelectCtxDone, SelectTimer, Wakes,
                      StartTimer, StopTimer, Receive, cronVars
  <1>7. CASE Step \/ StepStartTimer \/ SelectResult \/ GetNext
    BY <1>4, <1>7 DEF Step, StepStartTimer, Proceed, SelectResult, Wakes,
                      GetNext, StartTimer, cronVars
  <1>8. CASE StepCompare \/ DispatchCtxDone \/ RetryDispatch
    BY <1>4, <1>8 DEF StepCompare, DispatchCtxDone, RetryDispatch, cronVars
  <1>9. CASE StartReplacement \/ Tick
    BY <1>3, <1>9 DEF StartReplacement, Tick, StartTimer, CronTick
  <1>10. CASE Edit
    BY <1>10, NoneAssumption DEF Edit
  <1>11. CASE MarkAsDispatched
    <2>1. /\ UNCHANGED <<entries, prev, schedule, handedOut, store>>
          /\ disturbed = None /\ pc = "dispatch"
      BY <1>11 DEF MarkAsDispatched, cronVars
    <2>2. next \in Task /\ Recorded(next) /\ RunsOK
      BY <1>1, <2>1 DEF HeldOK
    <2>3. \/ pc' = "idle"
          \/ pc' = "pop" /\ next' = next /\ schedule # {} /\ First.id = next.id
      BY <1>11, <2>2 DEF MarkAsDispatched
    <2>4. CASE pc' = "idle"
      BY <1>4, <2>1, <2>4
    <2>5. CASE pc' = "pop"
      <3>1. next' = next /\ schedule # {} /\ First.id = next.id
        BY <2>3, <2>5
      <3>2. First \in schedule /\ First' = First
        BY <1>1, <1>2, <2>1, <3>1, FirstScheduled DEF First
      <3>3. First = next
        BY <1>1, <2>2, <3>1, <3>2, AboutTyped DEF NamesOK
      <3> QED BY <2>1, <2>2, <2>5, <3>1, <3>2, <3>3
              DEF RunsOK, Popped, Runs, Follows
    <2> QED BY <2>3, <2>4, <2>5
  <1>12. CASE MarkAsDispatchedPop
    <2>1. /\ disturbed = None /\ pc = "pop" /\ UNCHANGED <<handedOut, store>>
          /\ RunsOK
      BY <1>1, <1>12 DEF MarkAsDispatchedPop
    <2>2. CASE ~Pop
      BY <1>4, <1>12, <2>1, <2>2 DEF MarkAsDispatchedPop, cronVars
    <2>3. CASE Pop
      <3> DEFINE f == entries[First.key]
      <3>1. /\ entries' = entries /\ pc' = "fetch" /\ next' = next
            /\ prev' = [prev EXCEPT ![f] = prev[f] + Period[f]]
            /\ First = next /\ next \in schedule
        BY <1>1, <1>2, <1>12, <2>1, <2>3, PopStep
           DEF MarkAsDispatchedPop, Pop, RunsOK
      <3>2. /\ next.id > store.base /\ next.occ = prev[f]
            /\ f \in Entries /\ Key[f] = next.key
        BY <1>1, <1>2, <3>1, EntryOf DEF StoreOK, CronOK, Present
      <3>3. prev'[f] = next.occ + Period[f]
            /\ \A e \in Entries : e # f => prev'[e] = prev[e]
        BY <1>2, <3>1, <3>2 DEF CronTypeOK
      <3>4. store.of \in SUBSET Entries
            /\ \A e \in store.of : Key[e] = next.key => e = f
        <4>1. store.of \in SUBSET Entries
              /\ \A e, g \in store.of : Key[e] = Key[g] => e = g
          BY <1>1 DEF TypeOK, StoreOK
        <4>2. \A e \in store.of : entries[Key[e]] = e
          BY <2>1, <4>1, StoreOfEntries DEF RunsOK
        <4> QED BY <3>1, <4>1, <4>2
      <3> HIDE DEF f
      <3>5. ASSUME NEW e \in store.of
            PROVE  /\ Popped(e)' => prev'[e] = next.occ + Period[e]
                   /\ Follows(e, Runs(e), IF Popped(e)' THEN next.occ ELSE prev'[e])
        <4>1. Follows(e, Runs(e), prev[e])
          BY <2>1 DEF RunsOK, Popped
        <4>2. Popped(e)' <=> Key[e] = next.key
          BY <2>1, <3>1, <3>2 DEF Popped
        <4>3. CASE Key[e] = next.key
          BY <3>2, <3>3, <3>4, <4>1, <4>2, <4>3
        <4>4. CASE Key[e] # next.key
          BY <3>2, <3>3, <3>4, <4>1, <4>2, <4>4
        <4> QED BY <4>3, <4>4
      <3> QED BY <2>1, <3>1, <3>2, <3>5 DEF RunsOK, Runs, Follows
    <2> QED BY <2>2, <2>3
  <1>13. CASE UpdateTasks
    <2>1. /\ store'.of = Replacement /\ store'.base = issued /\ store'.from = prev
          /\ store'.due = (IF pc = "fetch" THEN next ELSE None)
          /\ handedOut' = <<>> /\ pc' = pc /\ next' = next /\ pc # "pop"
      BY <1>13 DEF UpdateTasks
    <2>2. /\ entries' = StoreOf(Replacement)
          /\ \A e \in Replacement : prev'[e] = prev[e] + Period[e]
      BY <1>1, <1>2, <1>13, UpdateTasksStep
    <2>3. \A e : Runs(e)' = {}
      BY <2>1 DEF Runs
    <2>4. \A e : ~Popped(e)'
      <3>1. pc = "fetch" => next.id <= issued /\ next.id \in Int
        BY <1>1, AboutTyped, TaskFields DEF NamesOK, HeldOK
      <3>2. issued \in Int
        BY <1>2, CronAssumption DEF CronTypeOK
      <3> QED BY <2>1, <3>1, <3>2 DEF Popped
    <2>5. ToSet(handedOut') = {}
      BY <2>1 DEF ToSet
    <2>6. \A e \in Replacement : Follows(e, Runs(e), prev[e])'
      BY <2>1, <2>2, <2>3 DEF Follows
    <2>7. \A e \in Replacement : Follows(e, Runs(e),
                                   IF Popped(e) THEN next.occ ELSE prev[e])'
      BY <2>4, <2>6 DEF Follows
    <2> QED BY <2>1, <2>2, <2>3, <2>4, <2>5, <2>7 DEF RunsOK
  <1>14. CASE DispatchFetch
    <2>1. /\ UNCHANGED <<entries, prev, schedule, store>> /\ pc' = "idle"
      BY <1>14 DEF DispatchFetch, cronVars
    <2>2. CASE pc # "fetch"
      BY <1>4, <1>14, <2>1, <2>2, NoneAssumption DEF DispatchFetch
    <2>3. CASE pc = "fetch"
      <3>1. next \in Task /\ Recorded(next)
        BY <1>1, <2>3 DEF HeldOK
      <3>2. handedOut' = Append(handedOut, next) /\ disturbed = None
        BY <1>14, <2>3, <3>1 DEF DispatchFetch
      <3>3. RunsOK
        BY <1>1, <3>2
      <3>n. PICK n : n = Len(handedOut)
        OBVIOUS
      <3> DEFINE After(e, R, occ) ==
            \/ R = {} /\ occ = store.from[e] + Period[e]
            \/ \E last \in R : /\ \A k \in R : k <= last
                               /\ occ = handedOut'[last].occ + Period[e]
      <3>4. /\ n \in Nat /\ DOMAIN handedOut = 1 .. n
            /\ DOMAIN handedOut' = (1 .. n) \cup {n + 1}
            /\ \A k \in 1 .. n : handedOut'[k] = handedOut[k] /\ k < n + 1 /\ k # n + 1
                                 /\ k \in Int /\ ~(n + 1 < k)
            /\ handedOut'[n + 1] = next
            /\ ~(n + 1 < n + 1) /\ n + 1 <= n + 1
        <4>1. /\ handedOut \in Seq(Task) /\ handedOut' = Append(handedOut, next)
          BY <1>1, <3>2 DEF TypeOK
        <4>2. DOMAIN handedOut' = 1 .. (n + 1) /\ n \in Nat
          BY <3>1, <3>n, <4>1
        <4> QED BY <3>1, <3>n, <4>1, <4>2
      <3>5. ToSet(handedOut') = ToSet(handedOut) \cup {next}
        BY <1>1, <3>1, <3>2, AppendHandedOut DEF TypeOK
      <3>6. ASSUME NEW e \in store.of
            PROVE  /\ After(e, Runs(e)', prev[e])
                   /\ \A k \in Runs(e)' :
                         After(e, {j \in Runs(e)' : j < k}, handedOut'[k].occ)
        <4>1. Runs(e) \subseteq 1 .. n
          BY <3>4 DEF Runs
        <4>2. Runs(e)' = IF Popped(e) THEN Runs(e) \cup {n + 1} ELSE Runs(e)
          BY <2>1, <2>3, <3>4 DEF Runs, Popped
        <4>3. ASSUME NEW R \in SUBSET Runs(e), NEW occ, Follows(e, R, occ)
              PROVE  After(e, R, occ)
          BY <3>4, <4>1, <4>3 DEF Follows
        <4>4. ASSUME NEW k \in Runs(e)
              PROVE  After(e, {j \in Runs(e)' : j < k}, handedOut'[k].occ)
          <5>1. Follows(e, {j \in Runs(e) : j < k}, handedOut[k].occ)
            BY <3>3 DEF RunsOK
          <5>2. k \in 1 .. n
            BY <4>1
          <5>3. {j \in Runs(e)' : j < k} = {j \in Runs(e) : j < k}
                /\ handedOut'[k] = handedOut[k]
            BY <3>4, <4>2, <5>2
          <5> HIDE DEF After
          <5> QED BY <4>3, <5>1, <5>3
        <4>5. CASE Popped(e)
          <5>1. /\ Follows(e, Runs(e), next.occ)
                /\ prev[e] = next.occ + Period[e]
            BY <3>3, <4>5 DEF RunsOK
          <5>2. After(e, Runs(e)', prev[e])
            BY <3>4, <4>1, <4>2, <4>5, <5>1
          <5>3. {j \in Runs(e)' : j < n + 1} = Runs(e)
            BY <3>4, <4>1, <4>2, <4>5
          <5> HIDE DEF After
          <5>4. After(e, {j \in Runs(e)' : j < n + 1}, handedOut'[n + 1].occ)
            BY <3>4, <4>3, <5>1, <5>3
          <5> QED BY <4>2, <4>4, <4>5, <5>2, <5>4
        <4>6. CASE ~Popped(e)
          <5>1. Follows(e, Runs(e), prev[e])
            BY <3>3, <4>6 DEF RunsOK
          <5> HIDE DEF After
          <5>2. After(e, Runs(e)', prev[e])
            BY <4>2, <4>3, <4>6, <5>1
          <5> QED BY <4>2, <4>4, <4>6, <5>2
        <4> QED BY <4>5, <4>6
      <3>7. \A e : ~Popped(e)'
        BY <2>1 DEF Popped
      <3>8. \A t \in ToSet(handedOut') : t.id > store.base \/ t = store.due
        BY <2>3, <3>3, <3>5 DEF RunsOK
      <3>9. \A e \in store.of :
               Follows(e, Runs(e), IF Popped(e) THEN next.occ ELSE prev[e])'
        BY <2>1, <3>6, <3>7 DEF Follows
      <3>10. \A e \in store.of : \A k \in Runs(e)' :
               Follows(e, {j \in Runs(e) : j < k}, handedOut[k].occ)'
        BY <2>1, <3>6 DEF Follows
      <3> HIDE DEF After
      <3> QED BY <2>1, <3>3, <3>7, <3>8, <3>9, <3>10 DEF RunsOK
    <2> QED BY <2>2, <2>3
  <1> QED BY <1>5, <1>6, <1>7, <1>8, <1>9, <1>10, <1>11, <1>12, <1>13, <1>14
          DEF Next

-----------------------------------------------------------------------------
LEMMA InitInv ==
  ASSUME Init
  PROVE  Inv
  <1>1. /\ CronTypeOK /\ CronOK
        /\ entries = StoreOf(Initial)
        /\ \A e \in Initial : prev[e] = Period[e]
        /\ \A t \in schedule : t.id > 0
        /\ started = FALSE
    BY CronInitOK DEF Init, CronInit
  <1>2. /\ record = {} /\ pc = "boot" /\ next = None /\ lastTask = None
        /\ getNextErr = FALSE /\ failed = None /\ replaced = <<>>
        /\ working = {} /\ handedOut = <<>> /\ disturbed = None
        /\ store = [of |-> Initial, from |-> [e \in Entries |-> 0], base |-> 0,
                    due |-> None]
    BY DEF Init
  <1>3. store.of = Initial /\ store.base = 0 /\ store.due = None
        /\ \A e \in Initial : store.from[e] = 0 /\ Period[e] \in Nat
    BY <1>2, CronAssumption
  <1>4. ToSet(handedOut) = {}
    BY <1>2 DEF ToSet
  <1>5. TypeOK
    <2>1. store \in [of : SUBSET Entries, from : [Entries -> Nat], base : Nat,
                     due : Option(Task)]
      BY <1>2, CronAssumption DEF Option
    <2>2. handedOut \in Seq(Task)
      BY <1>2
    <2> QED BY <1>1, <1>2, <2>1, <2>2 DEF TypeOK, Option
  <1>6. NamesOK
    BY <1>1, <1>2, <1>4 DEF NamesOK, About, CronOK
  <1>7. HeldOK /\ TicksOK
    BY <1>1, <1>2 DEF HeldOK, TicksOK
  <1>8. StoreOK
    <2>1. 0 <= issued
      BY <1>1, CronAssumption DEF CronTypeOK
    <2> QED BY <1>1, <1>2, <1>3, <2>1, CronAssumption DEF StoreOK
  <1>9. RunsOK
    <2>1. \A e : Runs(e) = {} /\ ~Popped(e)
      BY <1>2 DEF Runs, Popped
    <2>2. \A e \in Initial : Follows(e, Runs(e), prev[e])
      BY <1>1, <1>3, <2>1 DEF Follows
    <2> QED BY <1>1, <1>2, <1>3, <1>4, <2>1, <2>2 DEF RunsOK
  <1> QED BY <1>1, <1>5, <1>6, <1>7, <1>8, <1>9 DEF Inv

LEMMA NextInv ==
  ASSUME Inv, [Next]_vars
  PROVE  Inv'
  <1>1. TypeOK /\ CronTypeOK /\ CronOK /\ NamesOK /\ HeldOK /\ StoreOK /\ TicksOK
    BY DEF Inv, TypeOK
  <1>2. CronOK'
    BY <1>1, StoreStep
  <1>3. TypeOK' /\ NamesOK' /\ HeldOK'
    BY <1>1, TypeStep, NamesStep, HeldStep
  <1>4. StoreOK' /\ TicksOK'
    BY <1>1, StoreOKStep, TicksStep
  <1>5. disturbed' = None => RunsOK'
    BY RunsStep
  <1> QED BY <1>2, <1>3, <1>4, <1>5 DEF Inv

LEMMA Invariance == Spec => []Inv
  <1>1. Init => Inv
    BY InitInv
  <1>2. Inv /\ [Next]_vars => Inv'
    BY NextInv
  <1> QED BY <1>1, <1>2, PTL DEF Spec

(* Every field of the store, the repository and Step keeps its type;       *)
(* GetById of the fetcher never answers for a task that was not recorded.  *)
THEOREM VolatileTypeCorrect == Spec => []TypeOK
  <1>1. Inv => TypeOK
    BY DEF Inv
  <1> QED BY <1>1, Invariance, PTL

(* Whatever EditTask removes and adds, and whether it fails or not, every  *)
(* entry of the store has exactly one task, for the time it stands at, and *)
(* Pop finds the entry of the task it takes.                               *)
THEOREM OneTaskPerEntry == Spec => []EveryEntryScheduled
  <1>1. Inv => EveryEntryScheduled
    <2> SUFFICES ASSUME Inv
                 PROVE  EveryEntryScheduled
      OBVIOUS
    <2>1. CronTypeOK /\ CronOK
      BY DEF Inv, TypeOK
    <2>2. ASSUME NEW e \in Present
          PROVE  \E t \in schedule :
                    /\ t.occ = prev[e]
                    /\ \A u \in schedule : u.key = Key[e] <=> u = t
      <3>1. entries[Key[e]] = e /\ Key[e] \in Keys /\ e # None
        BY KeysAreEntries DEF Present
      <3>2. PICK t \in schedule : t.key = Key[e]
        BY <2>1, <3>1 DEF CronOK
      <3> QED BY <2>1, <3>1, <3>2 DEF CronOK
    <2> QED BY <2>1, <2>2 DEF EveryEntryScheduled, CronOK
  <1> QED BY <1>1, Invariance, PTL

(* No edit, failed edit or replacement moves or loses the next task of an  *)
(* entry that stays: only a Pop takes one, the first, and puts the next in *)
(* its place.                                                              *)
THEOREM EditsLeaveOthers == Spec => EditKeepsOthers
  <1> DEFINE Keeps == \A t \in schedule :
                \/ entries'[t.key] # entries[t.key]
                \/ t \in schedule'
                \/ t = First /\ entries' = entries /\ issued' = issued + 1
  <1>1. Inv /\ [Next]_vars => [Keeps]_cronVars
    <2> SUFFICES ASSUME Inv, [Next]_vars, cronVars' # cronVars
                 PROVE  Keeps
      BY DEF cronVars
    <2>1. CronTypeOK /\ CronOK
      BY DEF Inv, TypeOK
    <2>2. CASE schedule' = schedule
      BY <2>2
    <2>3. CASE Pop
      BY <2>1, <2>3, PopStep DEF Pop
    <2>4. CASE EditTask
      BY <2>1, <2>4, EditStep
    <2>5. CASE UpdateTasks
      BY <2>1, <2>5, UpdateTasksStep
    <2>6. CASE StartTimer \/ StopTimer \/ Receive \/ CronTick
      BY <2>2, <2>6 DEF StartTimer, StopTimer, Receive, CronTick
    <2>7. CASE Boot \/ StepStopTimer \/ StepStartTimer \/ SelectTimer
               \/ MarkAsDispatchedPop
      BY <2>3, <2>6, <2>7 DEF Boot, StepStopTimer, StepStartTimer, SelectTimer,
                              MarkAsDispatchedPop
    <2>8. CASE UNCHANGED vars \/ Step \/ SelectCtxDone \/ SelectResult \/ GetNext
      BY <2>8 DEF vars, Step, SelectCtxDone, SelectResult, GetNext
    <2>9. CASE StepCompare \/ DispatchCtxDone \/ MarkAsDispatched \/ DispatchFetch
               \/ RetryDispatch
      BY <2>9 DEF StepCompare, DispatchCtxDone, MarkAsDispatched, DispatchFetch,
                  RetryDispatch
    <2>10. CASE StartReplacement \/ Edit \/ Tick
      BY <2>4, <2>6, <2>10 DEF StartReplacement, Edit, Tick
    <2> QED BY <2>5, <2>7, <2>8, <2>9, <2>10 DEF Next
  <1>2. Spec => [][Keeps]_cronVars
    BY <1>1, Invariance, PTL DEF Spec
  <1> QED BY <1>2 DEF EditKeepsOthers

(* What Step has chosen is on record in every interleaving with edits,     *)
(* reports and UpdateTasks, so that the fetcher of dispatchTask finds it.  *)
THEOREM ChosenIsRecorded == Spec => []DispatchedIsRecorded
  <1>1. Inv => DispatchedIsRecorded
    BY DEF Inv, HeldOK, DispatchedIsRecorded
  <1> QED BY <1>1, Invariance, PTL

(* A started timer never stands still before a task nobody has taken up.   *)
THEOREM TimerTicks == Spec => []KeepsTicking
  <1>1. Inv => KeepsTicking
    BY DEF Inv, TicksOK, KeepsTicking
  <1> QED BY <1>1, Invariance, PTL

(* Without edits and retried dispatches, the tasks handed out of a store   *)
(* are the consecutive occurrences of its entries, in order, from where    *)
(* each stood when the store was put in place.                             *)
THEOREM RunsInOrder == Spec => []NoneLostNoneTwice
  <1>1. Inv => NoneLostNoneTwice
    BY DEF Inv, RunsOK, NoneLostNoneTwice
  <1> QED BY <1>1, Invariance, PTL
=============================================================================
