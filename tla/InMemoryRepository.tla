-------------------------- MODULE InMemoryRepository ------------------------
(***************************************************************************)
(* repository/inmemory in full: the binary heap with the index every task  *)
(* carries for Fix and Remove, the ordered map, the insertion counter, and *)
(* Save and Load.  Repository states what all this is to amount to.        *)
(*                                                                         *)
(* InMemoryRepository.mu makes every operation one step, except that       *)
(* AddTask stamps its task before it takes the lock, and Load, which holds *)
(* the lock, is one step per entry because AddTask may stamp in between.   *)
(*                                                                         *)
(* `created' is CreatedAt here, a tick; ties are broken by `order'.        *)
(* Ids are issued 1, 2, ... and never twice, as uuid.NewString does.       *)
(***************************************************************************)
EXTENDS Tasks, SequencesExt

CONSTANTS
    Uses,          (* what the callers of a behaviour may use: operations, *)
                   (* priorities and scheduled times for UpdateById        *)
    CreationTimes, (* bound: the ticks at which tasks are created          *)
    MaxWaiting     (* bound: AddTask calls between their stamp and lock    *)

ASSUME InMemoryAssumption ==
    /\ \A u \in Uses : /\ u.priorities \subseteq Priorities
                       /\ u.updateTimes \subseteq 0 .. MaxTime
    /\ CreationTimes \subseteq 1 .. FarFuture
    /\ MaxWaiting \in Nat
    /\ None \notin Seq(Task)

VARIABLES
    tasks,       (* orderedMap: the values                                 *)
    list,        (* orderedMap: the keys, oldest first                     *)
    order,       (* IndexedTask.InsertionOrder, by id                      *)
    index,       (* IndexedTask.Index, by id                               *)
    heap,        (* the slice of FilterableHeap                            *)
    count,       (* insertionOrderCount                                    *)
    issued,      (* the ids given out so far                               *)
    clock,       (* the latest CreatedAt                                   *)
    waiting,     (* the tasks AddTask has stamped and not inserted         *)
    saved,       (* what the last Save returned                            *)
    savedNext,   (* history: what GetNext answered at that Save, 0: none   *)
    loading,     (* the entries Load still has to add, None: no Load runs  *)
    use,         (* what is used in this behaviour                         *)
    overlapped,  (* history: AddTask has overlapped AddTask or Load        *)
    loaded       (* history: Load has been called                          *)

storeVars == <<tasks, list, order, index, heap>>
ioVars == <<saved, savedNext, loading>>
vars == <<storeVars, count, issued, clock, waiting, ioVars, use, overlapped,
          loaded>>

Stamped == [task : Task, order : 0 .. MaxTasks]

TypeOK ==
    /\ tasks \in [Ids -> Task]
    /\ list \in Seq(Ids)
    /\ order \in [Ids -> 0 .. MaxTasks]
    /\ index \in [Ids -> -1 .. MaxTasks]
    /\ heap \in Seq(Ids)
    /\ count \in 0 .. MaxTasks
    /\ issued \in 0 .. MaxTasks
    /\ clock \in CreationTimes
    /\ waiting \subseteq Stamped
    /\ saved \in Seq(Task)
    /\ savedNext \in 0 .. MaxTasks
    /\ loading = None \/ loading \in Seq(Task)
    /\ use \in Uses
    /\ overlapped \in BOOLEAN
    /\ loaded \in BOOLEAN

Init ==
    /\ tasks = [i \in Ids |-> NoTask]
    /\ list = <<>>
    /\ order = [i \in Ids |-> 0]
    /\ index = [i \in Ids |-> 0]
    /\ heap = <<>>
    /\ count = 0
    /\ issued = 0
    /\ clock \in CreationTimes
    /\ waiting = {}
    /\ saved = <<>>
    /\ savedNext = 0
    /\ loading = None
    /\ use \in Uses
    /\ overlapped = FALSE
    /\ loaded = FALSE

Scheduled == {i \in Ids : tasks[i].state = "scheduled"}

-----------------------------------------------------------------------------
(* The heap as a value: the slice, the indices, and what they are ordered  *)
(* by.  Positions count from 0, as in the code.                            *)
Heap(T, O) == [slice |-> heap, index |-> index, task |-> T, order |-> O]

At(h, k) == h.slice[k + 1]

(* sortable_task.Less *)
HeapLess(h, j, k) ==
    LET t == h.task[At(h, j)]
        u == h.task[At(h, k)]
    IN  \/ t.sched < u.sched
        \/ t.sched = u.sched /\ t.prio > u.prio
        \/ t.sched = u.sched /\ t.prio = u.prio /\ t.created < u.created
        \/ /\ t.sched = u.sched /\ t.prio = u.prio /\ t.created = u.created
           /\ h.order[At(h, j)] < h.order[At(h, k)]

SwapKeepsIndex(h, j, k) ==
    [h EXCEPT !.slice = [@ EXCEPT ![j + 1] = At(h, k), ![k + 1] = At(h, j)]]

swap(h, j, k) ==
    [h EXCEPT !.slice = [@ EXCEPT ![j + 1] = At(h, k), ![k + 1] = At(h, j)],
              !.index = [@ EXCEPT ![At(h, k)] = j, ![At(h, j)] = k]]

push(h, i) == [h EXCEPT !.slice = Append(@, i), !.index[i] = Len(h.slice)]

pop(h) == [h EXCEPT !.slice = Front(@), !.index[Last(h.slice)] = -1]

(* One round of the loop of up: the heap, and where the element is now.    *)
UpMove(a) ==
    LET parent == (a.k - 1) \div 2
    IN  IF a.k > 0 /\ HeapLess(a.h, a.k, parent)
        THEN [h |-> swap(a.h, parent, a.k), k |-> parent]
        ELSE a

(* The loop ends with the first round that moves nothing, which the length *)
(* of the slice bounds: so many rounds are its outcome.                    *)
Up(h, k) ==
    LET at[n \in Nat] == IF n = 0 THEN [h |-> h, k |-> k] ELSE UpMove(at[n - 1])
    IN  at[Len(h.slice)].h

(* One round of the loop of down, among the first n.                       *)
DownMove(a, n) ==
    LET children == {c \in {2 * a.k + 1, 2 * a.k + 2} : c < n}
        smallest == CHOOSE c \in children :
                       \A d \in children \ {c} :
                          IF d < c THEN HeapLess(a.h, c, d)
                                   ELSE ~HeapLess(a.h, d, c)
    IN  IF children # {} /\ HeapLess(a.h, smallest, a.k)
        THEN [h |-> swap(a.h, a.k, smallest), k |-> smallest]
        ELSE a

Down(h, k, n) ==
    LET at[m \in Nat] ==
          IF m = 0 THEN [h |-> h, k |-> k] ELSE DownMove(at[m - 1], n)
    IN  at[Len(h.slice)]

(* Down, and up if that moved nothing. *)
Restore(h, k, n) ==
    LET down == Down(h, k, n) IN IF down.k > k THEN down.h ELSE Up(h, k)

HeapPush(h, i) == Up(push(h, i), Len(h.slice))

HeapFix(h, k) == Restore(h, k, Len(h.slice))

HeapRemove(h, k) ==
    LET n == Len(h.slice) - 1
    IN  pop(IF k = n THEN h ELSE Restore(swap(h, k, n), k, n))

HeapBecomes(h) == heap' = h.slice /\ index' = h.index

-----------------------------------------------------------------------------
(* What Repository says of this module's state.  It orders tasks by one    *)
(* stamp; while no Load has run, that is the insertion order.              *)
CoreTasks == [i \in Ids |-> [tasks[i] EXCEPT !.created = order[i]]]

Core == INSTANCE Repository WITH tasks <- CoreTasks, count <- issued

Unlocked == loading = None

Stamp ==
    /\ "AddTask" \in use.calls
    /\ issued < MaxTasks /\ count < MaxTasks
    /\ Cardinality(waiting) < MaxWaiting
    /\ \E p \in {q \in AddParam : q.prio = None \/ q.prio \in use.priorities},
          created \in CreationTimes :
          /\ clock <= created
          /\ clock' = created
          /\ waiting' = waiting \cup {[task |-> ToTask(p, issued + 1, created),
                                       order |-> count + 1]}
    /\ issued' = issued + 1
    /\ count' = count + 1
    /\ overlapped' = (overlapped \/ waiting # {} \/ ~Unlocked)
    /\ UNCHANGED <<storeVars, ioVars, use, loaded>>

(* The task joins the map and, if it is scheduled, the heap. *)
Store(t, ord, isPushed) ==
    /\ tasks' = [tasks EXCEPT ![t.id] = t]
    /\ order' = [order EXCEPT ![t.id] = ord]
    /\ list' = Append(list, t.id)
    /\ IF isPushed
       THEN HeapBecomes(HeapPush(Heap(tasks', order'), t.id))
       ELSE heap' = heap /\ index' = [index EXCEPT ![t.id] = 0]

Insert ==
    /\ Unlocked
    /\ \E w \in waiting :
          /\ Store(w.task, w.order, TRUE)
          /\ waiting' = waiting \ {w}
    /\ UNCHANGED <<count, issued, clock, ioVars,
                   use, overlapped, loaded>>

(* A call the state guards let through. *)
Accepted(call, i, err) ==
    /\ call \in use.calls
    /\ Unlocked
    /\ err = ""
    /\ UNCHANGED <<list, order, count, issued, clock, waiting, ioVars,
                   use, overlapped, loaded>>

UpdateById(i, p) ==
    /\ Accepted("UpdateById", i, Core!MutateErr(i))
    /\ i \in Scheduled
    /\ tasks' = [tasks EXCEPT ![i] = Update(@, p)]
    /\ HeapBecomes(HeapFix(Heap(tasks', order), index[i]))

CancelWithoutRemove(i) ==
    /\ Accepted("Cancel", i, Core!MutateErr(i))
    /\ i \in Scheduled
    /\ UNCHANGED <<heap, index>>
    /\ tasks' = [tasks EXCEPT ![i].state = "cancelled", ![i].cancelledAt = TRUE]

Cancel(i) ==
    /\ Accepted("Cancel", i, Core!MutateErr(i))
    /\ i \in Scheduled
    /\ HeapBecomes(HeapRemove(Heap(tasks, order), index[i]))
    /\ tasks' = [tasks EXCEPT ![i].state = "cancelled", ![i].cancelledAt = TRUE]

DispatchWithoutTime(i) ==
    /\ Accepted("MarkAsDispatched", i, Core!MutateErr(i))
    /\ i \in Scheduled
    /\ HeapBecomes(HeapRemove(Heap(tasks, order), index[i]))
    /\ tasks' = [tasks EXCEPT ![i].state = "dispatched"]

MarkAsDispatched(i) ==
    /\ Accepted("MarkAsDispatched", i, Core!MutateErr(i))
    /\ i \in Scheduled
    /\ HeapBecomes(HeapRemove(Heap(tasks, order), index[i]))
    /\ tasks' = [tasks EXCEPT ![i].state = "dispatched",
                              ![i].dispatchedAt = TRUE]

MarkAsDone(i, result) ==
    /\ Accepted("MarkAsDone", i, Core!MarkAsDoneErr(i))
    /\ tasks[i].state = "dispatched"
    /\ tasks' = [tasks EXCEPT
                   ![i].state = IF result = "nil" THEN "done" ELSE "err",
                   ![i].doneAt = TRUE]
    /\ UNCHANGED <<heap, index>>

(* What GetNext answers: the id, 0 for Exhausted. *)
GetNext == IF heap = <<>> THEN 0 ELSE Head(heap)

-----------------------------------------------------------------------------
Save ==
    /\ "Save" \in use.calls
    /\ Unlocked
    /\ saved' = [k \in DOMAIN list |-> tasks[list[k]]]
    /\ savedNext' = GetNext
    /\ UNCHANGED <<storeVars, count, issued, clock, waiting, loading,
                   use, overlapped, loaded>>

IsValid(t) == t.sched # ZeroTime

LoadAccepts(kv) == \A k \in DOMAIN kv : IsValid(kv[k])

(* The checks, the lock and init(); all entries are checked first. *)
LoadInit ==
    /\ "Load" \in use.calls
    /\ Unlocked
    /\ LoadAccepts(saved)
    /\ tasks' = [i \in Ids |-> NoTask]
    /\ list' = <<>>
    /\ heap' = <<>>
    /\ order' = [i \in Ids |-> 0]
    /\ index' = [i \in Ids |-> 0]
    /\ count' = 0
    /\ loading' = saved
    /\ overlapped' = (overlapped \/ waiting # {})
    /\ loaded' = TRUE
    /\ UNCHANGED <<issued, clock, waiting, saved, savedNext, use>>

LoadEntryUnstamped ==
    /\ ~Unlocked /\ loading # <<>>
    /\ count' = count + 1
    /\ Store(Head(loading), 0, Head(loading).state = "scheduled")
    /\ loading' = Tail(loading)
    /\ UNCHANGED <<issued, clock, waiting, saved, savedNext, use,
                   overlapped, loaded>>

(* Bound: stamps go to MaxTasks; an AddTask that stamps during Load may    *)
(* use them up, then this behaviour ends here.                             *)
LoadEntry ==
    /\ ~Unlocked /\ loading # <<>>
    /\ count < MaxTasks
    /\ count' = count + 1
    /\ Store(Head(loading), count', Head(loading).state = "scheduled")
    /\ loading' = Tail(loading)
    /\ UNCHANGED <<issued, clock, waiting, saved, savedNext, use,
                   overlapped, loaded>>

LoadReturn ==
    /\ loading = <<>>
    /\ loading' = None
    /\ UNCHANGED <<storeVars, count, issued, clock, waiting, saved, savedNext,
                   use, overlapped, loaded>>

-----------------------------------------------------------------------------
UpdateByIdParam ==
    [sched : Option(use.updateTimes), prio : Option(use.priorities)]

Next ==
    \/ Stamp
    \/ Insert
    \/ \E i \in Ids :
          \/ \E p \in UpdateByIdParam : UpdateById(i, p)
          \/ Cancel(i)
          \/ MarkAsDispatched(i)
          \/ \E result \in {"nil", "err"} : MarkAsDone(i, result)
    \/ Save
    \/ LoadInit
    \/ LoadEntry
    \/ LoadReturn

Spec == Init /\ [][Next]_vars

-----------------------------------------------------------------------------
(* The heap holds the scheduled tasks of the map, each once, and each      *)
(* knows its position: Fix and Remove of an index act on the task it was   *)
(* read from, whatever swaps other operations made in between.             *)
HeapMirrorsStates ==
    /\ {heap[k] : k \in DOMAIN heap} = Scheduled
    /\ Len(heap) = Cardinality(Scheduled)
    /\ \A k \in DOMAIN heap : index[heap[k]] = k - 1

(* The ordered map lists every stored task once: Save writes each task     *)
(* once and Find visits them in the order they were inserted.              *)
ListIsComplete ==
    /\ ToSet(list) = {i \in Ids : tasks[i].state # "absent"}
    /\ IsInjective(list)

(* Map, list and heap tell of the same tasks between any two critical      *)
(* sections, and between any two entries Load adds.                        *)
StoreIsCoherent == HeapMirrorsStates /\ ListIsComplete

(* GetNext answers a task no scheduled one is before, also after any       *)
(* sequence of Fix and Remove and in a loaded repository, and Exhausted    *)
(* exactly when nothing is scheduled; until Load is called that is what    *)
(* Repository allows it to answer.                                         *)
GetNextIsFirst ==
    IF GetNext = 0 THEN Scheduled = {}
    ELSE /\ GetNext \in Scheduled
         /\ \A k \in 1 .. Len(heap) - 1 : ~HeapLess(Heap(tasks, order), k, 0)
         /\ ~loaded => GetNext \in Core!Firsts

(* Load puts the repository back where Save found it, up to the next task  *)
(* GetNext answers, ties in CreatedAt included (TestIo pops both heaps).   *)
(* Insertion order is all that breaks such ties and Load stamps anew, so   *)
(* this needs that no two AddTask overlapped, nor AddTask and Load.        *)
LoadRestoresNext ==
    [][LoadReturn => overlapped \/ GetNext = savedNext]_vars

(* Until Load is called, every step of this module is a step of Repository *)
(* or changes nothing Repository sees: what the other modules assume of    *)
(* the repository, this implementation provides.                           *)
ImplementsRepository ==
    /\ Core!RepositoryInit
    /\ [][loaded' \/ [Core!RepositoryNext]_<<CoreTasks, issued>>]_vars
=============================================================================
