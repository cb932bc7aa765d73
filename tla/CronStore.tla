------------------------------ MODULE CronStore -----------------------------
(***************************************************************************)
(* cron.CronStore: entries that each yield a series of times, and a heap   *)
(* that holds the next task of every entry.  CronStore.mu makes every      *)
(* operation one step.                                                     *)
(*                                                                         *)
(* An entry is a pointer; its key is what paramToSerializable makes of its *)
(* parameters.  Its schedule is every Period[e] ticks; what the mutators   *)
(* add to a time is any of Shifts of its key.  Tasks are named in the      *)
(* order they are made in, which is also what breaks ties in the heap.     *)
(* The heap is the set of its tasks: InMemoryRepository shows what Peek    *)
(* and Pop of it are.                                                      *)
(***************************************************************************)
EXTENDS Integers, Sequences, SequencesExt

CONSTANTS
    Entries,     (* the *Entry values there are                            *)
    Key,         (* the key each serializes to                             *)
    Period,      (* the schedule of each                                   *)
    Bad,         (* the entries whose mutators do not load                 *)
    Shifts,      (* per key: what the mutators may add to a scheduled time *)
    Initial,     (* the entries given to NewCronStore                      *)
    MaxAdded,    (* bound: how many entries one EditTask adds              *)
    MaxIssued,   (* bound: how many tasks are made                         *)
    MaxTime,     (* bound: the last tick of the clock                      *)
    None

ASSUME CronAssumption ==
    /\ Key \in [Entries -> Entries]     \* a key is named by one entry
    /\ Period \in [Entries -> Nat \ {0}]
    /\ Bad \subseteq Entries
    /\ Shifts \in [Entries -> SUBSET Int]
    /\ Initial \subseteq Entries \ Bad
    /\ \A e, f \in Initial : Key[e] = Key[f] => e = f
    /\ IsFiniteSet(Initial) /\ Cardinality(Initial) <= MaxIssued
    /\ MaxAdded \in Nat /\ MaxIssued \in Nat /\ MaxTime \in Nat
    /\ None \notin Entries \cup Int

VARIABLES
    entries,     (* CronStore.entries: the entry of each key               *)
    prev,        (* Entry.prev of each entry, in the store or not          *)
    schedule,    (* CronStore.schedule                                     *)
    timer,       (* CronStore.clock: None, or the time it is set for       *)
    issued,      (* how many tasks were made                               *)
    started,     (* history: StartTimer was called after the last StopTimer *)
    now          (* the clock                                              *)

cronVars == <<entries, prev, schedule, timer, issued, started, now>>

Keys == {Key[e] : e \in Entries}
Ids == 1 .. MaxIssued
Task == [id : Ids, key : Keys, occ : Nat, sched : Int]

CronTypeOK ==
    /\ entries \in [Keys -> Entries \cup {None}]
    /\ prev \in [Entries -> Nat]
    /\ schedule \subseteq Task
    /\ timer \in Int \cup {None}
    /\ issued \in 0 .. MaxIssued
    /\ started \in BOOLEAN
    /\ now \in 0 .. MaxTime

Present == {e \in Entries : entries[Key[e]] = e}

First == CHOOSE t \in schedule : \A u \in schedule :
            \/ t.sched < u.sched
            \/ t.sched = u.sched /\ t.id <= u.id

MakeTask(id, e, occ, shift) ==
    [id |-> id, key |-> Key[e], occ |-> occ, sched |-> occ + shift]

(* resetTimer, over the schedule it finds *)
TimerFor(tasks) ==
    IF tasks = {} THEN None
    ELSE (CHOOSE t \in tasks : \A u \in tasks : t.sched <= u.sched).sched

resetTimer == timer' = TimerFor(schedule')

-----------------------------------------------------------------------------
(* What the mutators may add to the times of these entries.                *)
ShiftsOf(es) ==
    {shift \in [es -> UNION Range(Shifts)] :
        \A e \in es : shift[e] \in Shifts[Key[e]]}

(* The entry of each key.                                                  *)
StoreOf(es) ==
    [key \in Keys |-> IF \E e \in es : Key[e] = key
                      THEN CHOOSE e \in es : Key[e] = key ELSE None]

(* The tasks of entries that have advanced to at[e], named after the first *)
(* base ones.                                                              *)
TasksOf(positions, made, at, base, shift) ==
    {MakeTask(base + k, made[k], at[made[k]], shift[made[k]]) : k \in positions}

(* NewCronStore: the schedules it may make of entries in any order.        *)
NewSchedules(es, at, base) ==
    UNION {{TasksOf(DOMAIN made, made, at, base, shift) :
              made \in Bijection(1 .. Cardinality(es), es)} :
              shift \in ShiftsOf(es)}

(* updateTask, first loop: an entry to add fails if its key is taken, by   *)
(* the store or an entry before it, and not about to be removed, or if its *)
(* mutators do not load.  The loop ends there; the entries up to that one  *)
(* have advanced to their next time.                                       *)
Overlaps(added, removedKeys, k) ==
    /\ Key[added[k]] \notin removedKeys
    /\ \/ entries[Key[added[k]]] # None
       \/ \E j \in 1 .. k - 1 : Key[added[j]] = Key[added[k]]

Failing(added, removedKeys) ==
    {k \in DOMAIN added : Overlaps(added, removedKeys, k) \/ added[k] \in Bad}

Advanced(added, failing) ==
    {added[k] :
        k \in {k \in DOMAIN added : \A j \in 1 .. k - 1 : j \notin failing}}

(* The tasks are kept by key: of two entries with one key the later        *)
(* replaces the earlier, which only the keys that are being removed let    *)
(* through.                                                                *)
Kept(added) ==
    {k \in DOMAIN added :
        \A j \in DOMAIN added : Key[added[j]] = Key[added[k]] => j <= k}

EntriesAfter(added, removedKeys) ==
    LET made == StoreOf({added[k] : k \in Kept(added)})
    IN  [key \in Keys |-> IF made[key] # None THEN made[key]
                          ELSE IF key \in removedKeys THEN None
                          ELSE entries[key]]

AdoptKeepsTasks(added, removedKeys, at, shift) ==
    /\ entries' = EntriesAfter(added, removedKeys)
    /\ schedule' = schedule \cup TasksOf(Kept(added), added, at, issued, shift)

AdoptRebuilds(added, removedKeys, at, shift) ==
    /\ entries' = EntriesAfter(added, removedKeys)
    /\ schedule' = TasksOf(Kept(added), added, at, issued, shift)

(* updateTask, from the end of the first loop. *)
Adopt(added, removedKeys, at, shift) ==
    /\ entries' = EntriesAfter(added, removedKeys)
    /\ schedule' = {t \in schedule : t.key \notin removedKeys}
                     \cup TasksOf(Kept(added), added, at, issued, shift)

updateTask(added, removed) ==
    LET removedKeys == {Key[e] : e \in removed}
        failing == Failing(added, removedKeys)
        advanced == Advanced(added, failing)
    IN  /\ prev' = [e \in Entries |->
                      prev[e] + IF e \in advanced THEN Period[e] ELSE 0]
        /\ issued' = issued + Len(added)
        /\ IF failing = {}
           THEN \E shift \in ShiftsOf(ToSet(added)) :
                   Adopt(added, removedKeys, prev', shift)
           ELSE UNCHANGED <<entries, schedule>>

(* The first store; its entries start at time 0.                           *)
CronInit ==
    /\ now = 0
    /\ started = FALSE
    /\ timer = None
    /\ issued = Cardinality(Initial)
    /\ entries = StoreOf(Initial)
    /\ prev = [e \in Entries |-> IF e \in Initial THEN Period[e] ELSE 0]
    /\ schedule \in NewSchedules(Initial, Period, 0)

-----------------------------------------------------------------------------
(* EditTask with a function that removes some entries and adds others.     *)
EditTask ==
    /\ \E removed \in SUBSET Present,
          added \in BoundedSeq(Entries \ Present, MaxAdded) :
         /\ IsInjective(added)
         /\ issued + Len(added) <= MaxIssued
         /\ updateTask(added, removed)
    /\ resetTimer
    /\ UNCHANGED <<started, now>>

PopLeavesTimer ==
    /\ schedule # {} /\ issued < MaxIssued
    /\ LET e == entries[First.key]
           occ == prev[e] + Period[e]
       IN  /\ prev' = [prev EXCEPT ![e] = occ]
           /\ \E shift \in Shifts[First.key] :
                schedule' = (schedule \ {First})
                              \cup {MakeTask(issued + 1, e, occ, shift)}
    /\ issued' = issued + 1
    /\ UNCHANGED <<entries, timer, started, now>>

PopRepeats ==
    /\ schedule # {} /\ issued < MaxIssued
    /\ LET e == entries[First.key]
           occ == prev[e]
       IN  /\ prev' = [prev EXCEPT ![e] = occ]
           /\ \E shift \in Shifts[First.key] :
                schedule' = (schedule \ {First})
                              \cup {MakeTask(issued + 1, e, occ, shift)}
    /\ issued' = issued + 1
    /\ resetTimer
    /\ UNCHANGED <<entries, started, now>>

(* Pop and pushNext *)
Pop ==
    /\ schedule # {} /\ issued < MaxIssued
    /\ LET e == entries[First.key]
           occ == prev[e] + Period[e]
       IN  /\ prev' = [prev EXCEPT ![e] = occ]
           /\ \E shift \in Shifts[First.key] :
                schedule' = (schedule \ {First})
                              \cup {MakeTask(issued + 1, e, occ, shift)}
    /\ issued' = issued + 1
    /\ resetTimer
    /\ UNCHANGED <<entries, started, now>>

StartTimer ==
    /\ timer' = TimerFor(schedule)
    /\ started' = TRUE
    /\ UNCHANGED <<entries, prev, schedule, issued, now>>

StopTimer ==
    /\ timer' = None
    /\ started' = FALSE
    /\ UNCHANGED <<entries, prev, schedule, issued, now>>

(* A receive from TimerChannel(). *)
Receive ==
    /\ timer # None /\ timer <= now
    /\ timer' = None
    /\ UNCHANGED <<entries, prev, schedule, issued, started, now>>

CronTick ==
    /\ now < MaxTime
    /\ now' = now + 1
    /\ UNCHANGED <<entries, prev, schedule, timer, issued, started>>

-----------------------------------------------------------------------------
(* Every entry of the store has exactly one task in the schedule, for the  *)
(* time the entry stands at, and every task has its entry: Pop, which      *)
(* looks the entry up by the key of the task, always finds it.             *)
EveryEntryScheduled ==
    /\ \A e \in Present :
          \E t \in schedule :
             /\ t.occ = prev[e]
             /\ \A u \in schedule : u.key = Key[e] <=> u = t
    /\ \A t \in schedule : entries[t.key] # None

(* The next task of an entry that stays in the store is never moved or     *)
(* lost, by edits and by edits that fail alike: only a Pop takes it, and   *)
(* only the first one.                                                     *)
EditKeepsOthers ==
    [][\A t \in schedule :
          \/ entries'[t.key] # entries[t.key]
          \/ t \in schedule'
          \/ t = First /\ entries' = entries /\ issued' = issued + 1]_cronVars
=============================================================================
