---------------------- MODULE InMemoryRepositoryProofs ----------------------
(***************************************************************************)
(* Proofs about InMemoryRepository, for every number of tasks, priorities, *)
(* times, creation times and waiting AddTask calls, and every use of it:   *)
(*                                                                         *)
(*   TypeCorrect    Spec => []TypeOK                                       *)
(*   StoreCoherent  Spec => []StoreIsCoherent                              *)
(*   NextFirst      Spec => []GetNextIsFirst                               *)
(*   LoadRestores   Spec => LoadRestoresNext                               *)
(*   Implements     Spec => ImplementsRepository, when nobody sets the     *)
(*                  zero time, which Repository does not have              *)
(*                                                                         *)
(* The first half is about the heap as a value.  Ordered says that no      *)
(* element is before its parent; while up works, the one element at k may  *)
(* be (OnlyLow), while down works, k may be after its children (OnlyHigh). *)
(* One round of either loop stops, or moves k and keeps that (UpMoves,     *)
(* DownMoves); a loop that counts up or down stops within the rounds Up    *)
(* and Down take (LoopStops).  So the outcome is ordered, of the same      *)
(* tasks, and each of them knows where it is: PushAdds, FixRepairs,        *)
(* RemoveTakesOne.                                                         *)
(*                                                                         *)
(* The second half is the inductive invariant, IInv.  HeapState: the heap  *)
(* is one, of the scheduled tasks.  MapState: tasks are stored under their *)
(* ids.  WaitingState and SavedState: ids are unique in every place a task *)
(* can be.  LoadingState: Load has added a prefix of what Save returned.   *)
(* StampState, until Load is called: ids, insertion orders and creation    *)
(* times agree.  OrderState, as long as nothing overlaps: the list is in   *)
(* insertion order, so that, SavedNextState, what GetNext answered is the  *)
(* first of the saved tasks in an order Load restores.                     *)
(*                                                                         *)
(* What a loop does is said by induction, which is over a set of naturals  *)
(* here: a set that is not empty has a smallest element (SmallestExists),  *)
(* as the strict subset order of a finite set is well founded.             *)
(***************************************************************************)
EXTENDS InMemoryRepository, TasksProofs, FiniteSetTheorems,
        WellFoundedInduction, SequenceTheorems

-----------------------------------------------------------------------------
(* Induction, over sets of naturals.  Of the intervals that end in members *)
(* of a set one is smallest.                                               *)
LEMMA SmallestExists ==
  ASSUME NEW T \in SUBSET Nat, NEW n \in T
  PROVE  \E m \in T : \A k \in T : m <= k
  <1> DEFINE below(m) == {k \in T : k <= m}
             S == below(n)
             B == {below(m) : m \in S}
             R == StrictSubsetOrdering(S)
  <1>1. \A k \in T : k \in Nat
    OBVIOUS
  <1>2. \A m \in S : m \in T /\ m \in 0 .. n
    BY <1>1
  <1>3. IsFiniteSet(S)
    <2>1. IsFiniteSet(0 .. n)
      BY <1>1, FS_Interval
    <2> HIDE DEF S
    <2> QED BY <1>2, <2>1, FS_Subset
  <1>4. IsWellFoundedOn(R, SUBSET S)
    BY <1>3, FS_StrictSubsetOrderingWellFounded, FS_FiniteSubsetsOfFinite
  <1>5. ASSUME NEW m \in S
        PROVE  below(m) \in SUBSET S
    <2>1. ASSUME NEW k \in T, k <= m
          PROVE  k <= n
      BY <1>1, <1>2, <2>1
    <2> QED BY <2>1
  <1>6. B \subseteq SUBSET S /\ B # {}
    <2>1. n \in S
      BY <1>1
    <2> HIDE DEF S, below
    <2> QED BY <1>5, <2>1
  <1>7. \E x \in B : \A y \in B : ~(<<y, x>> \in R)
    <2> HIDE DEF B, R
    <2> QED BY <1>4, <1>6, WFMin
  <1>8. PICK m \in S : \A y \in B : ~(<<y, below(m)>> \in R)
    BY <1>7
  <1>9. ASSUME NEW k \in T, ~(m <= k)
        PROVE  FALSE
    <2>1. k \in S
      BY <1>1, <1>2, <1>9
    <2>2. m \in below(m) /\ m \notin below(k)
      BY <1>1, <1>2, <1>9
    <2>3. ASSUME NEW i \in T, i <= k
          PROVE  i <= m
      BY <1>1, <1>2, <1>9, <2>3
    <2>4. below(k) \subseteq below(m) /\ below(k) # below(m)
      BY <2>2, <2>3
    <2>5. <<below(k), below(m)>> \in R
      <3>1. below(k) \in SUBSET S /\ below(m) \in SUBSET S
        BY <1>5, <2>1
      <3> HIDE DEF below, S
      <3> QED BY <2>4, <3>1 DEF StrictSubsetOrdering
    <2> QED BY <1>8, <2>1, <2>5
  <1> QED BY <1>2, <1>9

LEMMA SetInduction ==
  ASSUME NEW S, 0 \in S, \A n \in Nat : n \in S => n + 1 \in S
  PROVE  \A n \in Nat : n \in S
  <1> SUFFICES ASSUME NEW n \in Nat \ S PROVE FALSE
    OBVIOUS
  <1>1. PICK m \in Nat \ S : \A k \in Nat \ S : m <= k
    BY SmallestExists
  <1>2. m - 1 \in Nat /\ ~(m <= m - 1)
    BY <1>1
  <1>3. m - 1 \in S
    BY <1>1, <1>2
  <1> QED BY <1>1, <1>2, <1>3

-----------------------------------------------------------------------------
(* Loops: a step repeated from a0 on.                                      *)
Repeats(at, a0, step) ==
    /\ at[0] = a0
    /\ \A n \in Nat : at[n] \in DOMAIN step => at[n + 1] = step[at[n]]

(* There is a sequence that a recursive definition defines. *)
LEMMA RepetitionExists ==
  ASSUME NEW A, NEW a0 \in A, NEW step \in [A -> A]
  PROVE  \E at \in [Nat -> A] :
            at = [n \in Nat |-> IF n = 0 THEN a0 ELSE step[at[n - 1]]]
  <1> DEFINE Upto(n, g) ==
               /\ g \in [0 .. n -> A]
               /\ g[0] = a0
               /\ \A i \in 1 .. n : g[i] = step[g[i - 1]]
             S == {n \in Nat : \E g : Upto(n, g)}
             first(n) == CHOOSE g : Upto(n, g)
  <1>1. \A n \in Nat : n \in S
    <2>1. 0 \in S
      <3>1. Upto(0, [i \in 0 .. 0 |-> a0])
        OBVIOUS
      <3> QED BY <3>1
    <2>2. ASSUME NEW n \in Nat, n \in S
          PROVE  n + 1 \in S
      <3>1. PICK g : Upto(n, g)
        BY <2>2
      <3> DEFINE more == [i \in 0 .. n + 1 |->
                            IF i = n + 1 THEN step[g[n]] ELSE g[i]]
      <3>2. n \in 0 .. n /\ 0 \in 0 .. n /\ step[g[n]] \in A
        BY <3>1
      <3>3. more \in [0 .. n + 1 -> A] /\ more[0] = a0
        BY <3>1, <3>2
      <3>4. ASSUME NEW i \in 1 .. n + 1
            PROVE  more[i] = step[more[i - 1]]
        BY <3>1, <3>2
      <3>5. Upto(n + 1, more)
        BY <3>3, <3>4
      <3> QED BY <3>5
    <2> HIDE DEF S
    <2> QED BY <2>1, <2>2, SetInduction
  <1>2. \A n \in Nat : Upto(n, first(n))
    BY <1>1
  <1>3. ASSUME NEW n \in Nat
        PROVE  first(n + 1)[n] = first(n)[n]
    <2> DEFINE E == {i \in Nat : i <= n => first(n + 1)[i] = first(n)[i]}
    <2>0. Upto(n, first(n)) /\ Upto(n + 1, first(n + 1))
      <3>1. n + 1 \in Nat
        OBVIOUS
      <3> HIDE DEF first, Upto
      <3> QED BY <1>2, <3>1
    <2> HIDE DEF first
    <2>1. 0 \in E
      BY <2>0
    <2>2. ASSUME NEW i \in Nat, i \in E
          PROVE  i + 1 \in E
      <3>1. CASE i + 1 <= n
        <4>1. i + 1 \in 1 .. n /\ i + 1 \in 1 .. n + 1 /\ i + 1 - 1 = i
          BY <3>1
        <4>2. /\ first(n)[i + 1] = step[first(n)[i]]
              /\ first(n + 1)[i + 1] = step[first(n + 1)[i]]
          BY <2>0, <4>1
        <4> QED BY <4>2, <2>2, <3>1
      <3> QED BY <3>1
    <2>3. n \in E
      <3> HIDE DEF E
      <3> QED BY <2>1, <2>2, SetInduction
    <2> QED BY <2>3
  <1> DEFINE at == [n \in Nat |-> first(n)[n]]
  <1>4. ASSUME NEW n \in Nat \ {0}
        PROVE  at[n] = step[at[n - 1]]
    <2>1. n - 1 \in Nat /\ n - 1 + 1 = n /\ n \in 1 .. n
      OBVIOUS
    <2>2. first(n)[n] = step[first(n)[n - 1]]
      <3>1. Upto(n, first(n))
        BY <1>2
      <3> HIDE DEF first
      <3> QED BY <2>1, <3>1
    <2>3. first(n)[n - 1] = first(n - 1)[n - 1]
      <3> HIDE DEF first
      <3> QED BY <1>3, <2>1
    <2> QED BY <2>1, <2>2, <2>3
  <1>5. at[0] = a0
    BY <1>2
  <1>6. at \in [Nat -> A]
    <2>1. ASSUME NEW n \in Nat PROVE first(n)[n] \in A
      <3>1. Upto(n, first(n))
        BY <1>2
      <3> HIDE DEF first
      <3> QED BY <3>1
    <2> QED BY <2>1
  <1>7. at = [n \in Nat |-> IF n = 0 THEN a0 ELSE step[at[n - 1]]]
    <2>1. at = [n \in Nat |-> at[n]]
      OBVIOUS
    <2> HIDE DEF at
    <2>2. ASSUME NEW n \in Nat
          PROVE  at[n] = IF n = 0 THEN a0 ELSE step[at[n - 1]]
      BY <1>4, <1>5
    <2> QED BY <2>1, <2>2
  <1> HIDE DEF at
  <1> QED BY <1>6, <1>7

(* A loop that counts down or stops has stopped after that many rounds. *)
LEMMA LoopStops ==
  ASSUME NEW A, NEW a0 \in A, NEW step \in [A -> A], NEW at,
         Repeats(at, a0, step),
         NEW rank \in [A -> Nat],
         \A a \in A : step[a] = a \/ rank[step[a]] < rank[a],
         NEW N \in Nat, rank[a0] <= N
  PROVE  at[N] \in A /\ step[at[N]] = at[N]
  <1> DEFINE S == {n \in Nat : /\ at[n] \in A
                               /\ \/ step[at[n]] = at[n]
                                  \/ rank[at[n]] + n <= rank[a0]}
  <1>1. 0 \in S
    BY DEF Repeats
  <1>2. ASSUME NEW n \in Nat, n \in S
        PROVE  n + 1 \in S
    <2>1. at[n] \in A /\ at[n + 1] = step[at[n]] /\ at[n + 1] \in A
      BY <1>2 DEF Repeats
    <2>2. /\ rank[at[n]] \in Nat /\ rank[at[n + 1]] \in Nat
          /\ rank[a0] \in Nat
      BY <2>1
    <2>3. CASE step[at[n]] = at[n]
      BY <2>1, <2>3
    <2>4. CASE rank[step[at[n]]] < rank[at[n]] /\ rank[at[n]] + n <= rank[a0]
      BY <2>1, <2>2, <2>4
    <2> QED BY <1>2, <2>1, <2>3, <2>4
  <1>3. N \in S
    <2> HIDE DEF S
    <2> QED BY <1>1, <1>2, SetInduction
  <1>4. CASE rank[at[N]] + N <= rank[a0]
    <2>1. at[N] \in A /\ step[at[N]] \in A
      BY <1>3
    <2>2. /\ rank[at[N]] \in Nat /\ rank[a0] \in Nat
          /\ rank[step[at[N]]] \in Nat
      BY <2>1
    <2>3. ~(rank[step[at[N]]] < rank[at[N]])
      BY <1>4, <2>2
    <2> QED BY <2>1, <2>3
  <1> QED BY <1>3, <1>4

-----------------------------------------------------------------------------
(* The order of the heap, between tasks instead of positions.              *)
Sooner(T, O, i, j) ==
    \/ T[i].sched < T[j].sched
    \/ T[i].sched = T[j].sched /\ T[i].prio > T[j].prio
    \/ /\ T[i].sched = T[j].sched /\ T[i].prio = T[j].prio
       /\ T[i].created < T[j].created
    \/ /\ T[i].sched = T[j].sched /\ T[i].prio = T[j].prio
       /\ T[i].created = T[j].created /\ O[i] < O[j]

NotAfter(T, O, i, j) == ~Sooner(T, O, j, i)

Heaps == [slice : Seq(Ids), index : [Ids -> -1 .. MaxTasks],
          task : [Ids -> Task], order : [Ids -> 0 .. MaxTasks]]

Positions(h) == 0 .. Len(h.slice) - 1
Parent(k) == (k - 1) \div 2
Held(h) == {At(h, k) : k \in Positions(h)}

(* Every task knows its position. *)
Mirrors(h) == \A k \in Positions(h) : h.index[At(h, k)] = k

(* The element at c does not come before its parent. *)
Fit(h, c) == NotAfter(h.task, h.order, At(h, Parent(c)), At(h, c))

(* g holds what h does, and the same in its tail from n on. *)
Rearranges(g, h, n) ==
    /\ g \in Heaps /\ Mirrors(g)
    /\ Len(g.slice) = Len(h.slice) /\ Held(g) = Held(h)
    /\ g.task = h.task /\ g.order = h.order
    /\ \A k \in Positions(h) : k >= n => At(g, k) = At(h, k)

LEMMA ParentIsBefore ==
  \A k \in Nat \ {0} :
     /\ Parent(k) \in Nat /\ Parent(k) < k
     /\ k = 2 * Parent(k) + 1 \/ k = 2 * Parent(k) + 2
  BY DEF Parent

LEMMA ParentOfChild ==
  \A k \in Nat : Parent(2 * k + 1) = k /\ Parent(2 * k + 2) = k
  BY DEF Parent

LEMMA TaskFields ==
  ASSUME NEW t \in Task
  PROVE  t.sched \in Int /\ t.prio \in Int /\ t.created \in Int
  <1>1. t.sched \in 0 .. MaxTime /\ t.prio \in Priorities
        /\ t.created \in 0 .. FarFuture
    BY DEF Task
  <1>2. FarFuture \in Int
    BY TasksAssumption DEF FarFuture
  <1>3. t.sched \in Int
    BY <1>1
  <1>4. t.prio \in Int
    BY <1>1, TasksAssumption
  <1>5. t.created \in Int
    BY <1>1
  <1> QED BY <1>3, <1>4, <1>5

(* Sooner is the strict part of a total preorder. *)
LEMMA SoonerIsOrder ==
  ASSUME NEW T \in [Ids -> Task], NEW O \in [Ids -> 0 .. MaxTasks],
         NEW i \in Ids, NEW j \in Ids, NEW k \in Ids
  PROVE  /\ Sooner(T, O, i, j) => NotAfter(T, O, i, j)
         /\ NotAfter(T, O, i, j) /\ NotAfter(T, O, j, k)
               => NotAfter(T, O, i, k)
         /\ NotAfter(T, O, i, i)
  <1>1. /\ T[i].sched \in Int /\ T[i].prio \in Int /\ T[i].created \in Int
        /\ T[j].sched \in Int /\ T[j].prio \in Int /\ T[j].created \in Int
        /\ T[k].sched \in Int /\ T[k].prio \in Int /\ T[k].created \in Int
        /\ O[i] \in Int /\ O[j] \in Int /\ O[k] \in Int
    BY TaskFields, TasksAssumption
  <1> QED BY <1>1 DEF Sooner, NotAfter

LEMMA HeapFields ==
  ASSUME NEW h \in Heaps
  PROVE  /\ h.slice \in Seq(Ids) /\ h.index \in [Ids -> -1 .. MaxTasks]
         /\ h.task \in [Ids -> Task] /\ h.order \in [Ids -> 0 .. MaxTasks]
         /\ Len(h.slice) \in Nat
         /\ h.slice \in [1 .. Len(h.slice) -> Ids]
         /\ \A k \in Positions(h) : At(h, k) \in Ids
  <1>1. h.slice \in Seq(Ids)
    BY DEF Heaps
  <1>2. Len(h.slice) \in Nat /\ h.slice \in [1 .. Len(h.slice) -> Ids]
    BY <1>1, LenProperties
  <1>3. \A k \in Positions(h) : k + 1 \in 1 .. Len(h.slice)
    BY <1>2 DEF Positions
  <1> QED BY <1>1, <1>2, <1>3 DEF Heaps, At

LEMMA HeapLessIsSooner ==
  ASSUME NEW h, NEW j, NEW k
  PROVE  HeapLess(h, j, k) <=> Sooner(h.task, h.order, At(h, j), At(h, k))
  BY DEF HeapLess, Sooner

(* As many positions as tasks, at most. *)
LEMMA HeapIsBounded ==
  ASSUME NEW h \in Heaps, Mirrors(h)
  PROVE  /\ Len(h.slice) <= MaxTasks
         /\ \A j, k \in Positions(h) : At(h, j) = At(h, k) => j = k
  <1>1. \A j, k \in Positions(h) : At(h, j) = At(h, k) => j = k
    BY DEF Mirrors
  <1> DEFINE n == Len(h.slice)
             f == [k \in 0 .. n - 1 |-> At(h, k)]
  <1>2. n \in Nat /\ f \in [0 .. n - 1 -> Ids]
    BY HeapFields DEF Positions
  <1>3. f \in Injection(0 .. n - 1, Ids)
    BY <1>1, <1>2 DEF Injection, IsInjective, Positions
  <1>4. IsFiniteSet(Ids) /\ Cardinality(Ids) = MaxTasks
    BY FS_Interval, TasksAssumption DEF Ids
  <1>5. Cardinality(0 .. n - 1) = n
    BY <1>2, FS_Interval
  <1>6. n <= MaxTasks
    BY <1>3, <1>4, <1>5, FS_Injection
  <1> QED BY <1>1, <1>6

LEMMA SwapRearranges ==
  ASSUME NEW h \in Heaps, Mirrors(h), NEW n \in Int,
         NEW j \in Positions(h), NEW k \in Positions(h), j # k,
         j < n, k < n
  PROVE  LET g == swap(h, j, k)
         IN  /\ Rearranges(g, h, n)
             /\ At(g, j) = At(h, k) /\ At(g, k) = At(h, j)
             /\ \A i \in Positions(h) \ {j, k} : At(g, i) = At(h, i)
  <1> DEFINE g == swap(h, j, k)
             s == [h.slice EXCEPT ![j + 1] = At(h, k), ![k + 1] = At(h, j)]
             x == [h.index EXCEPT ![At(h, k)] = j, ![At(h, j)] = k]
  <1>1. /\ j \in Nat /\ k \in Nat /\ At(h, j) \in Ids /\ At(h, k) \in Ids
        /\ At(h, j) # At(h, k)
        /\ j + 1 \in 1 .. Len(h.slice) /\ k + 1 \in 1 .. Len(h.slice)
        /\ j <= MaxTasks /\ k <= MaxTasks
    BY HeapFields, HeapIsBounded, TasksAssumption DEF Positions
  <1>2. s \in Seq(Ids) /\ Len(s) = Len(h.slice)
    <2> DEFINE r == [h.slice EXCEPT ![j + 1] = At(h, k)]
    <2>1. r \in Seq(Ids) /\ Len(r) = Len(h.slice)
      BY <1>1, HeapFields, ExceptSeq
    <2>2. s = [r EXCEPT ![k + 1] = At(h, j)]
      OBVIOUS
    <2>3. k + 1 \in 1 .. Len(r)
      BY <1>1, <2>1
    <2> HIDE DEF r, s
    <2>4. [r EXCEPT ![k + 1] = At(h, j)] \in Seq(Ids)
          /\ Len([r EXCEPT ![k + 1] = At(h, j)]) = Len(r)
      BY <1>1, <2>1, <2>3, ExceptSeq
    <2> QED BY <2>1, <2>2, <2>4
  <1>3. x \in [Ids -> -1 .. MaxTasks]
    BY <1>1, HeapFields, TasksAssumption
  <1>4. /\ g.slice = s /\ g.index = x /\ g.task = h.task /\ g.order = h.order
        /\ g = [h EXCEPT !.slice = s, !.index = x]
    <2>1. g = [h EXCEPT !.slice = s, !.index = x]
      BY DEF swap
    <2> HIDE DEF g, s, x
    <2> QED BY <2>1 DEF Heaps
  <1>5. g \in Heaps
    <2> HIDE DEF g, s, x
    <2> QED BY <1>2, <1>3, <1>4 DEF Heaps
  <1>6. /\ At(g, j) = At(h, k) /\ At(g, k) = At(h, j)
        /\ \A i \in Positions(h) \ {j, k} : At(g, i) = At(h, i)
    <2>1. At(g, j) = At(h, k) /\ At(g, k) = At(h, j)
      BY <1>1, <1>4, HeapFields DEF At
    <2>2. ASSUME NEW i \in Positions(h), i # j, i # k
          PROVE  At(g, i) = At(h, i)
      <3>1. i + 1 # j + 1 /\ i + 1 # k + 1 /\ i + 1 \in 1 .. Len(h.slice)
        BY <1>1, <2>2, HeapFields DEF Positions
      <3> QED BY <1>4, <3>1, HeapFields DEF At
    <2> QED BY <2>1, <2>2
  <1>7. Positions(g) = Positions(h)
    BY <1>2, <1>4 DEF Positions
  <1>8. Mirrors(g)
    <2> SUFFICES ASSUME NEW i \in Positions(h)
                 PROVE  x[At(g, i)] = i
      BY <1>4, <1>7 DEF Mirrors
    <2> HIDE DEF g
    <2>1. CASE i = j
      BY <1>1, <1>6, <2>1, HeapFields
    <2>2. CASE i = k
      BY <1>1, <1>6, <2>2, HeapFields
    <2>3. CASE i # j /\ i # k
      <3>1. At(g, i) = At(h, i) /\ At(h, i) \in Ids
        BY <1>6, <2>3, HeapFields
      <3>2. At(h, i) # At(h, j) /\ At(h, i) # At(h, k)
        BY <2>3, HeapIsBounded
      <3> QED BY <3>1, <3>2, HeapFields DEF Mirrors
    <2> QED BY <2>1, <2>2, <2>3
  <1>9. Held(g) = Held(h)
    <2> HIDE DEF g
    <2>1. ASSUME NEW i \in Positions(h)
          PROVE  At(g, i) \in Held(h) /\ At(h, i) \in Held(g)
      <3>1. CASE i \in {j, k}
        BY <1>6, <1>7, <3>1 DEF Held
      <3>2. CASE i \notin {j, k}
        BY <1>6, <1>7, <3>2 DEF Held
      <3> QED BY <3>1, <3>2
    <2> QED BY <1>7, <2>1 DEF Held
  <1>10. \A i \in Positions(h) : i >= n => At(g, i) = At(h, i)
    BY <1>1, <1>6
  <1> HIDE DEF s, x
  <1> QED BY <1>2, <1>4, <1>5, <1>6, <1>8, <1>9, <1>10 DEF Rearranges

LEMMA RearrangesAgain ==
  ASSUME NEW f, NEW g, NEW h, NEW n,
         Rearranges(f, g, n), Rearranges(g, h, n)
  PROVE  Rearranges(f, h, n)
  <1>1. Positions(g) = Positions(h)
    BY DEF Rearranges, Positions
  <1>2. \A k \in Positions(h) : k >= n => At(f, k) = At(h, k)
    BY <1>1 DEF Rearranges
  <1> QED BY <1>2 DEF Rearranges

LEMMA RearrangesItself ==
  ASSUME NEW h \in Heaps, Mirrors(h), NEW n
  PROVE  Rearranges(h, h, n)
  BY DEF Rearranges

-----------------------------------------------------------------------------
(* Up.  Only the element at k may come before its parent; its children do  *)
(* not.                                                                    *)
OnlyLow(h, n, k) ==
    /\ \A c \in 1 .. n - 1 : c # k => Fit(h, c)
    /\ k > 0 => \A c \in 1 .. n - 1 : Parent(c) = k =>
                   NotAfter(h.task, h.order, At(h, Parent(k)), At(h, c))

Ordered(h, n) == \A c \in 1 .. n - 1 : Fit(h, c)

LEMMA UpMoves ==
  ASSUME NEW h \in Heaps, Mirrors(h), NEW n \in 0 .. Len(h.slice),
         NEW k \in 0 .. n - 1, OnlyLow(h, n, k),
         NEW a, a.h = h, a.k = k
  PROVE  LET b == UpMove(a)
         IN  \/ b = a /\ Ordered(h, n)
             \/ /\ b = [h |-> b.h, k |-> b.k]
                /\ b.k \in 0 .. n - 1 /\ b.k < k
                /\ Rearranges(b.h, h, n) /\ OnlyLow(b.h, n, b.k)
  <1> DEFINE p == Parent(k)
             g == swap(h, p, k)
             T == h.task
             O == h.order
             Leq(i, j) == NotAfter(T, O, i, j)
  <1>1. /\ Len(h.slice) \in Nat /\ n \in Nat /\ k \in Nat
        /\ \A c \in 0 .. n - 1 : c \in Positions(h) /\ At(h, c) \in Ids
    BY HeapFields DEF Positions
  <1>2. \A i, j, l \in Ids :
           /\ Sooner(T, O, i, j) => Leq(i, j)
           /\ Leq(i, j) /\ Leq(j, l) => Leq(i, l)
    BY SoonerIsOrder, HeapFields
  <1>3. CASE ~(k > 0 /\ HeapLess(h, k, p))
    <2>1. UpMove(a) = a
      BY <1>3 DEF UpMove, Parent
    <2>2. k > 0 => Fit(h, k)
      BY <1>3, HeapLessIsSooner DEF Fit, NotAfter
    <2>3. Ordered(h, n)
      BY <1>1, <2>2 DEF OnlyLow, Ordered
    <2> QED BY <2>1, <2>3
  <1>4. CASE k > 0 /\ HeapLess(h, k, p)
    <2>1. UpMove(a) = [h |-> g, k |-> p]
      BY <1>4 DEF UpMove, Parent
    <2>2. p \in Nat /\ p < k /\ p \in 0 .. n - 1 /\ p # k
      BY <1>1, <1>4, ParentIsBefore
    <2>3. /\ Rearranges(g, h, n)
          /\ At(g, p) = At(h, k) /\ At(g, k) = At(h, p)
          /\ \A i \in Positions(h) \ {p, k} : At(g, i) = At(h, i)
      <3>1. p \in Positions(h) /\ k \in Positions(h) /\ p < n /\ k < n
        BY <1>1, <2>2
      <3> HIDE DEF p
      <3> QED BY <1>1, <2>2, <3>1, SwapRearranges
    <2>4. g.task = T /\ g.order = O
      BY <2>3 DEF Rearranges
    <2>5. Leq(At(h, k), At(h, p))
      BY <1>1, <1>2, <1>4, <2>2, HeapLessIsSooner
    <2> HIDE DEF g, p, T, O
    <2>6. \A c \in 1 .. n - 1 :
             /\ Parent(c) \in 0 .. n - 1 /\ c \in 0 .. n - 1
             /\ Parent(c) < c
             /\ c # k => Leq(At(h, Parent(c)), At(h, c))
      BY <1>1, ParentIsBefore DEF OnlyLow, Fit, T, O
    <2>7. ASSUME NEW c \in 1 .. n - 1, c # p
          PROVE  Leq(At(g, Parent(c)), At(g, c))
      <3>1. CASE c = k
        BY <2>3, <2>5, <3>1 DEF p
      <3>2. CASE Parent(c) = k /\ c # k
        <4>1. Leq(At(h, p), At(h, c))
          BY <1>4, <3>2 DEF OnlyLow, p, T, O
        <4>2. At(g, c) = At(h, c)
          BY <1>1, <2>3, <2>6, <2>7, <3>2
        <4> QED BY <2>3, <3>2, <4>1, <4>2
      <3>3. CASE Parent(c) = p /\ c # k
        <4>1. Leq(At(h, p), At(h, c))
          BY <2>6, <3>3
        <4>2. At(g, c) = At(h, c)
          BY <1>1, <2>3, <2>6, <2>7, <3>3
        <4>3. Leq(At(h, k), At(h, c))
          BY <1>1, <1>2, <2>2, <2>5, <2>6, <4>1
        <4> QED BY <2>3, <3>3, <4>2, <4>3
      <3>4. CASE Parent(c) # p /\ Parent(c) # k /\ c # k
        <4>1. At(g, c) = At(h, c) /\ At(g, Parent(c)) = At(h, Parent(c))
          BY <1>1, <2>3, <2>6, <2>7, <3>4
        <4> QED BY <2>6, <3>4, <4>1
      <3> QED BY <3>1, <3>2, <3>3, <3>4
    <2>8. ASSUME p > 0, NEW c \in 1 .. n - 1, Parent(c) = p
          PROVE  Leq(At(g, Parent(p)), At(g, c))
      <3>1. /\ Parent(p) \in 0 .. n - 1 /\ Parent(p) # p /\ Parent(p) # k
            /\ Leq(At(h, Parent(p)), At(h, p))
        BY <2>2, <2>6, <2>8
      <3>2. At(g, Parent(p)) = At(h, Parent(p))
        BY <1>1, <2>3, <3>1
      <3>3. CASE c = k
        BY <2>3, <3>1, <3>2, <3>3
      <3>4. CASE c # k
        <4>1. Leq(At(h, p), At(h, c)) /\ c # p
          BY <2>6, <2>8, <3>4
        <4>2. At(g, c) = At(h, c)
          BY <1>1, <2>3, <2>6, <3>4, <4>1
        <4>3. Leq(At(h, Parent(p)), At(h, c))
          BY <1>1, <1>2, <2>2, <2>6, <3>1, <4>1
        <4> QED BY <3>2, <4>2, <4>3
      <3> QED BY <3>3, <3>4
    <2>9. OnlyLow(g, n, p)
      BY <2>4, <2>7, <2>8 DEF OnlyLow, Fit
    <2> QED BY <2>1, <2>2, <2>3, <2>9
  <1> QED BY <1>3, <1>4

(* One element moves up to where it belongs. *)
LEMMA UpOrders ==
  ASSUME NEW h \in Heaps, Mirrors(h), NEW n \in 0 .. Len(h.slice),
         NEW k \in 0 .. n - 1, OnlyLow(h, n, k)
  PROVE  Rearranges(Up(h, k), h, n) /\ Ordered(Up(h, k), n)
  <1> DEFINE A == {a \in [h : Heaps, k : 0 .. n - 1] :
                      Rearranges(a.h, h, n) /\ OnlyLow(a.h, n, a.k)}
             a0 == [h |-> h, k |-> k]
             step == [a \in A |-> UpMove(a)]
             rank == [a \in A |-> a.k]
             Loop(at) == at = [m \in Nat |->
                                 IF m = 0 THEN a0 ELSE UpMove(at[m - 1])]
             at == CHOOSE at : Loop(at)
             N == Len(h.slice)
  <1>1. a0 \in A
    BY RearrangesItself
  <1>2. ASSUME NEW a \in A
        PROVE  /\ UpMove(a) = a => Ordered(a.h, n)
               /\ UpMove(a) # a => UpMove(a) \in A /\ UpMove(a).k < a.k
    <2> DEFINE b == UpMove(a)
    <2>1. /\ a.h \in Heaps /\ Mirrors(a.h) /\ Rearranges(a.h, h, n)
          /\ Len(a.h.slice) = Len(h.slice)
          /\ a.k \in 0 .. n - 1 /\ OnlyLow(a.h, n, a.k)
      BY DEF Rearranges
    <2>2. \/ b = a /\ Ordered(a.h, n)
          \/ /\ b = [h |-> b.h, k |-> b.k]
             /\ b.k \in 0 .. n - 1 /\ b.k < a.k
             /\ Rearranges(b.h, a.h, n) /\ OnlyLow(b.h, n, b.k)
      BY <2>1, UpMoves
    <2> HIDE DEF b
    <2>3. CASE b = [h |-> b.h, k |-> b.k]
               /\ b.k \in 0 .. n - 1 /\ b.k < a.k
               /\ Rearranges(b.h, a.h, n) /\ OnlyLow(b.h, n, b.k)
      <3>1. Rearranges(b.h, h, n) /\ b.h \in Heaps
        BY <2>1, <2>3, RearrangesAgain DEF Rearranges
      <3>2. [h |-> b.h, k |-> b.k] \in [h : Heaps, k : 0 .. n - 1]
        BY <2>3, <3>1
      <3>3. b \in A
        BY <2>3, <3>1, <3>2
      <3>4. b # a
        BY <2>1, <2>3
      <3> QED BY <2>3, <3>3, <3>4 DEF b
    <2> QED BY <2>2, <2>3 DEF b
  <1>3. step \in [A -> A] /\ \A a \in A : step[a] = UpMove(a)
    BY <1>2
  <1>4. rank \in [A -> Nat]
    OBVIOUS
  <1>5. \E f : Loop(f)
    <2>1. PICK f \in [Nat -> A] :
             f = [m \in Nat |-> IF m = 0 THEN a0 ELSE step[f[m - 1]]]
      <3>1. a0 \in A /\ step \in [A -> A]
        BY <1>1, <1>3
      <3> HIDE DEF A, a0, step, Loop, at, N, rank
      <3> QED BY <3>1, RepetitionExists, SMTT(30)
    <2>2. ASSUME NEW m \in Nat
          PROVE  f[m] = IF m = 0 THEN a0 ELSE UpMove(f[m - 1])
      <3>1. CASE m = 0
        BY <2>1, <3>1
      <3>2. CASE m # 0
        <4>1. m - 1 \in Nat
          BY <3>2
        <4> HIDE DEF A, a0, step
        <4> QED BY <1>3, <2>1, <3>2, <4>1
      <3> QED BY <3>1, <3>2
    <2>3. f = [m \in Nat |-> f[m]]
      BY <2>1
    <2>4. Loop(f)
      <3> HIDE DEF A, a0, step
      <3> QED BY <2>2, <2>3
    <2> QED BY <2>4
  <1>6. Loop(at)
    BY <1>5
  <1>7. Up(h, k) = at[N].h
    BY DEF Up
  <1>8. Repeats(at, a0, step)
    <2>1. at[0] = a0
      <3> HIDE DEF at, a0
      <3> QED BY <1>6
    <2>2. ASSUME NEW m \in Nat, at[m] \in A
          PROVE  at[m + 1] = step[at[m]]
      <3>1. m + 1 \in Nat /\ m + 1 # 0 /\ m + 1 - 1 = m
        OBVIOUS
      <3> HIDE DEF at, a0, A, step
      <3> QED BY <1>3, <1>6, <2>2, <3>1
    <2> QED BY <2>1, <2>2 DEF Repeats
  <1>9. \A a \in A : step[a] = a \/ rank[step[a]] < rank[a]
    BY <1>2, <1>3
  <1>10. N \in Nat /\ rank[a0] <= N
    <2>1. N \in Nat
      BY HeapFields
    <2>2. rank[a0] = k
      BY <1>1
    <2> QED BY <2>1, <2>2
  <1>11. at[N] \in A /\ step[at[N]] = at[N]
    <2>1. step \in [A -> A]
      BY <1>3
    <2> HIDE DEF A, a0, step, rank, at, N, Loop
    <2> QED BY <1>1, <2>1, <1>4, <1>8, <1>9, <1>10, LoopStops, SMTT(30)
  <1>12. Ordered(at[N].h, n) /\ Rearranges(at[N].h, h, n)
    <2> HIDE DEF at, N
    <2> QED BY <1>2, <1>3, <1>11
  <1> QED BY <1>7, <1>12

-----------------------------------------------------------------------------
(* Down, from start on.  Only the element at k may come after its          *)
(* children; where the loop starts also before its parent.                 *)
OnlyHigh(h, n, k, start) ==
    /\ \A c \in 1 .. n - 1 :
          Parent(c) # k /\ ~(c = k /\ k = start) => Fit(h, c)
    /\ k > 0 => \A c \in 1 .. n - 1 : Parent(c) = k =>
                   NotAfter(h.task, h.order, At(h, Parent(k)), At(h, c))

LEMMA SmallestChild ==
  ASSUME NEW h \in Heaps, NEW n \in 0 .. Len(h.slice), NEW k \in Nat,
         NEW C, C = {c \in {2 * k + 1, 2 * k + 2} : c < n}, C # {}
  PROVE  LET s == CHOOSE c \in C : \A d \in C \ {c} :
                     IF d < c THEN HeapLess(h, c, d) ELSE ~HeapLess(h, d, c)
         IN  /\ s \in C /\ s \in 1 .. n - 1 /\ Parent(s) = k /\ k < s
             /\ \A c \in 1 .. n - 1 : Parent(c) = k =>
                   NotAfter(h.task, h.order, At(h, s), At(h, c))
  <1> DEFINE T == h.task
             O == h.order
             Best(c) == \A d \in C \ {c} :
                     IF d < c THEN HeapLess(h, c, d) ELSE ~HeapLess(h, d, c)
             s == CHOOSE c \in C : Best(c)
  <1>1. /\ Len(h.slice) \in Nat /\ n \in Nat
        /\ \A c \in 0 .. n - 1 : c \in Positions(h) /\ At(h, c) \in Ids
    BY HeapFields DEF Positions
  <1>2. \E c \in C : Best(c)
    <2>1. CASE 2 * k + 2 \notin C
      <3>1. C = {2 * k + 1}
        BY <2>1
      <3> QED BY <3>1
    <2>2. CASE 2 * k + 2 \in C
      <3>1. C = {2 * k + 1, 2 * k + 2} /\ 2 * k + 1 < 2 * k + 2
        BY <1>1, <2>2
      <3>2. CASE HeapLess(h, 2 * k + 2, 2 * k + 1)
        <4>1. Best(2 * k + 2)
          BY <3>1, <3>2
        <4> QED BY <2>2, <4>1
      <3>3. CASE ~HeapLess(h, 2 * k + 2, 2 * k + 1)
        <4>1. Best(2 * k + 1)
          BY <3>1, <3>3
        <4> QED BY <3>1, <4>1
      <3> QED BY <3>2, <3>3
    <2> QED BY <2>1, <2>2
  <1>3. s \in C /\ Best(s)
    BY <1>2
  <1> HIDE DEF s
  <1>4. s \in 1 .. n - 1 /\ k < s /\ Parent(s) = k
    <2>1. s \in {2 * k + 1, 2 * k + 2} /\ s < n
      BY <1>3
    <2>2. s \in Nat /\ s > 0 /\ k < s
      BY <2>1
    <2>3. Parent(s) = k
      BY <2>1, ParentOfChild
    <2> QED BY <1>1, <2>1, <2>2, <2>3
  <1>5. ASSUME NEW c \in 1 .. n - 1, Parent(c) = k
        PROVE  NotAfter(T, O, At(h, s), At(h, c))
    <2>1. c \in Nat \ {0} /\ c < n
      BY <1>1
    <2>2. c \in C
      BY <1>5, <2>1, ParentIsBefore
    <2>3. At(h, s) \in Ids /\ At(h, c) \in Ids
      BY <1>1, <1>4
    <2>4. CASE c = s
      BY <2>3, <2>4, SoonerIsOrder, HeapFields
    <2>5. CASE c # s /\ c < s
      <3>1. HeapLess(h, s, c)
        BY <1>3, <2>2, <2>5
      <3> QED BY <2>3, <3>1, HeapLessIsSooner, SoonerIsOrder, HeapFields
    <2>6. CASE c # s /\ ~(c < s)
      <3>1. ~HeapLess(h, c, s)
        BY <1>3, <2>2, <2>6
      <3> QED BY <3>1, HeapLessIsSooner DEF NotAfter
    <2> QED BY <2>4, <2>5, <2>6
  <1> QED BY <1>3, <1>4, <1>5 DEF s

LEMMA DownMoves ==
  ASSUME NEW h \in Heaps, Mirrors(h), NEW n \in 0 .. Len(h.slice),
         NEW start \in Nat, NEW k \in start .. n - 1,
         OnlyHigh(h, n, k, start),
         NEW a, a.h = h, a.k = k
  PROVE  LET b == DownMove(a, n)
         IN  \/ /\ b = a
                /\ \A c \in 1 .. n - 1 : ~(c = k /\ k = start) => Fit(h, c)
             \/ /\ b = [h |-> b.h, k |-> b.k]
                /\ b.k \in start .. n - 1 /\ k < b.k
                /\ Rearranges(b.h, h, n) /\ OnlyHigh(b.h, n, b.k, start)
  <1> DEFINE C == {c \in {2 * k + 1, 2 * k + 2} : c < n}
             s == CHOOSE c \in C : \A d \in C \ {c} :
                     IF d < c THEN HeapLess(h, c, d) ELSE ~HeapLess(h, d, c)
             g == swap(h, k, s)
             T == h.task
             O == h.order
             Leq(i, j) == NotAfter(T, O, i, j)
  <1>1. /\ Len(h.slice) \in Nat /\ n \in Nat /\ k \in Nat
        /\ \A c \in 0 .. n - 1 : c \in Positions(h) /\ At(h, c) \in Ids
    BY HeapFields DEF Positions
  <1>2. \A i, j, l \in Ids :
           /\ Sooner(T, O, i, j) => Leq(i, j)
           /\ Leq(i, j) /\ Leq(j, l) => Leq(i, l)
    BY SoonerIsOrder, HeapFields
  <1>3. C # {} => /\ s \in C /\ s \in 1 .. n - 1 /\ Parent(s) = k /\ k < s
                  /\ \A c \in 1 .. n - 1 : Parent(c) = k =>
                        Leq(At(h, s), At(h, c))
    <2> HIDE DEF C
    <2> SUFFICES ASSUME C # {}
                 PROVE  /\ s \in C /\ s \in 1 .. n - 1 /\ Parent(s) = k
                        /\ k < s
                        /\ \A c \in 1 .. n - 1 : Parent(c) = k =>
                              Leq(At(h, s), At(h, c))
      OBVIOUS
    <2>1. C = {c \in {2 * k + 1, 2 * k + 2} : c < n}
      BY DEF C
    <2>2. LET r == CHOOSE c \in C : \A d \in C \ {c} :
                     IF d < c THEN HeapLess(h, c, d) ELSE ~HeapLess(h, d, c)
          IN  /\ r \in C /\ r \in 1 .. n - 1 /\ Parent(r) = k /\ k < r
              /\ \A c \in 1 .. n - 1 : Parent(c) = k =>
                    NotAfter(h.task, h.order, At(h, r), At(h, c))
      <3>1. k \in Nat
        BY <1>1
      <3> HIDE DEF s, g, T, O, Leq
      <3> QED BY <2>1, <3>1, SmallestChild, SMTT(30)
    <2> QED BY <2>2
  <1>4. DownMove(a, n) = IF C # {} /\ HeapLess(h, s, k)
                         THEN [h |-> g, k |-> s] ELSE a
    BY DEF DownMove
  <1> HIDE DEF s
  <1>5. \A c \in 1 .. n - 1 :
           /\ Parent(c) \in 0 .. n - 1 /\ c \in 0 .. n - 1 /\ c \in Nat
           /\ Parent(c) < c
           /\ Parent(c) # k /\ ~(c = k /\ k = start)
                => Leq(At(h, Parent(c)), At(h, c))
           /\ Parent(c) = k => C # {}
    <2> TAKE c \in 1 .. n - 1
    <2>1. c \in Nat \ {0} /\ c < n
      BY <1>1
    <2>2. /\ Parent(c) \in Nat /\ Parent(c) < c
          /\ c = 2 * Parent(c) + 1 \/ c = 2 * Parent(c) + 2
      BY <2>1, ParentIsBefore
    <2>3. Parent(c) = k => c \in C
      BY <2>1, <2>2
    <2> HIDE DEF C
    <2> QED BY <1>1, <2>1, <2>2, <2>3 DEF OnlyHigh, Fit
  <1> HIDE DEF C
  <1>6. CASE ~(C # {} /\ HeapLess(h, s, k))
    <2>1. DownMove(a, n) = a
      BY <1>4, <1>6
    <2>2. ASSUME NEW c \in 1 .. n - 1, ~(c = k /\ k = start)
          PROVE  Fit(h, c)
      <3>1. CASE Parent(c) # k
        BY <2>2, <3>1 DEF OnlyHigh
      <3>2. CASE Parent(c) = k
        <4>1. Leq(At(h, k), At(h, s)) /\ Leq(At(h, s), At(h, c))
          BY <1>3, <1>5, <1>6, <3>2, HeapLessIsSooner DEF NotAfter
        <4>2. /\ At(h, k) \in Ids /\ At(h, s) \in Ids /\ At(h, c) \in Ids
          BY <1>1, <1>3, <1>5, <3>2
        <4> QED BY <1>2, <3>2, <4>1, <4>2 DEF Fit
      <3> QED BY <3>1, <3>2
    <2> QED BY <2>1, <2>2
  <1>7. CASE C # {} /\ HeapLess(h, s, k)
    <2>1. DownMove(a, n) = [h |-> g, k |-> s]
      BY <1>4, <1>7
    <2>2. /\ s \in 1 .. n - 1 /\ s \in 0 .. n - 1 /\ s \in Nat
          /\ Parent(s) = k /\ k < s /\ s # start
          /\ k \in 0 .. n - 1 /\ s \in start .. n - 1
          /\ \A c \in 1 .. n - 1 : Parent(c) = k => Leq(At(h, s), At(h, c))
      BY <1>1, <1>3, <1>7
    <2>3. /\ Rearranges(g, h, n)
          /\ At(g, k) = At(h, s) /\ At(g, s) = At(h, k)
          /\ \A i \in Positions(h) \ {k, s} : At(g, i) = At(h, i)
      <3>1. k \in Positions(h) /\ s \in Positions(h) /\ k < n /\ s < n
        BY <1>1, <2>2
      <3> QED BY <1>1, <2>2, <3>1, SwapRearranges
    <2>4. g.task = T /\ g.order = O
      BY <2>3 DEF Rearranges
    <2>5. Leq(At(h, s), At(h, k))
      BY <1>1, <1>2, <1>7, <2>2, HeapLessIsSooner
    <2> HIDE DEF g, T, O
    <2>6. \A i \in 0 .. n - 1 : i # k /\ i # s => At(g, i) = At(h, i)
      BY <1>1, <2>3
    <2>7. ASSUME NEW c \in 1 .. n - 1, Parent(c) # s
          PROVE  Leq(At(g, Parent(c)), At(g, c))
      <3>1. CASE c = s
        BY <2>2, <2>3, <2>5, <3>1
      <3>2. CASE Parent(c) = k /\ c # s
        <4>1. At(g, c) = At(h, c)
          BY <1>5, <2>6, <3>2
        <4> QED BY <2>2, <2>3, <3>2, <4>1
      <3>3. CASE c = k
        <4>1. Leq(At(h, Parent(k)), At(h, s)) /\ Parent(k) \in 0 .. n - 1
              /\ Parent(k) # k
          BY <1>5, <2>2, <3>3 DEF OnlyHigh, T, O
        <4>2. At(g, Parent(k)) = At(h, Parent(k))
          BY <2>6, <2>7, <3>3, <4>1
        <4> QED BY <2>3, <3>3, <4>1, <4>2
      <3>4. CASE Parent(c) # k /\ c # s /\ c # k
        <4>1. At(g, c) = At(h, c) /\ At(g, Parent(c)) = At(h, Parent(c))
          BY <1>5, <2>6, <2>7, <3>4
        <4> QED BY <1>5, <3>4, <4>1
      <3> QED BY <3>1, <3>2, <3>3, <3>4
    <2>8. ASSUME NEW c \in 1 .. n - 1, Parent(c) = s
          PROVE  Leq(At(g, k), At(g, c))
      <3>1. c # s /\ c # k /\ s < c
        BY <1>5, <2>2, <2>8
      <3>2. Leq(At(h, s), At(h, c)) /\ At(g, c) = At(h, c)
        BY <1>5, <2>2, <2>6, <2>8, <3>1
      <3> QED BY <2>3, <3>2
    <2>9. OnlyHigh(g, n, s, start)
      BY <2>2, <2>4, <2>7, <2>8 DEF OnlyHigh, Fit
    <2> QED BY <2>1, <2>2, <2>3, <2>9
  <1> QED BY <1>6, <1>7

(* One element moves down to where it belongs, or stays where it is.       *)
LEMMA DownOrders ==
  ASSUME NEW h \in Heaps, Mirrors(h), NEW n \in 0 .. Len(h.slice),
         NEW k \in 0 .. n - 1, OnlyHigh(h, n, k, k)
  PROVE  LET d == Down(h, k, n)
         IN  /\ Rearranges(d.h, h, n) /\ d.k \in k .. n - 1
             /\ d.k > k => Ordered(d.h, n)
             /\ d.k = k => d.h = h /\ OnlyLow(h, n, k)
  <1> DEFINE A == {a \in [h : Heaps, k : k .. n - 1] :
                      /\ Rearranges(a.h, h, n) /\ OnlyHigh(a.h, n, a.k, k)
                      /\ a.k = k => a.h = h}
             a0 == [h |-> h, k |-> k]
             step == [a \in A |-> DownMove(a, n)]
             rank == [a \in A |-> n - a.k]
             Loop(at) == at = [m \in Nat |->
                                 IF m = 0 THEN a0 ELSE DownMove(at[m - 1], n)]
             at == CHOOSE at : Loop(at)
             N == Len(h.slice)
             Stopped(a) == \A c \in 1 .. n - 1 :
                              ~(c = a.k /\ a.k = k) => Fit(a.h, c)
  <1>1. a0 \in A
    <2>1. k \in k .. n - 1
      OBVIOUS
    <2> QED BY <2>1, RearrangesItself
  <1>2. ASSUME NEW a \in A
        PROVE  /\ DownMove(a, n) = a => Stopped(a)
               /\ DownMove(a, n) # a =>
                     DownMove(a, n) \in A /\ a.k < DownMove(a, n).k
    <2> DEFINE b == DownMove(a, n)
    <2>1. /\ a.h \in Heaps /\ Mirrors(a.h) /\ Rearranges(a.h, h, n)
          /\ Len(a.h.slice) = Len(h.slice) /\ k \in Nat
          /\ a.k \in k .. n - 1 /\ OnlyHigh(a.h, n, a.k, k)
      BY DEF Rearranges
    <2>2. \/ b = a /\ Stopped(a)
          \/ /\ b = [h |-> b.h, k |-> b.k]
             /\ b.k \in k .. n - 1 /\ a.k < b.k
             /\ Rearranges(b.h, a.h, n) /\ OnlyHigh(b.h, n, b.k, k)
      BY <2>1, DownMoves
    <2> HIDE DEF b, Stopped
    <2>3. CASE b = [h |-> b.h, k |-> b.k]
               /\ b.k \in k .. n - 1 /\ a.k < b.k
               /\ Rearranges(b.h, a.h, n) /\ OnlyHigh(b.h, n, b.k, k)
      <3>1. Rearranges(b.h, h, n) /\ b.h \in Heaps
        BY <2>1, <2>3, RearrangesAgain DEF Rearranges
      <3>2. [h |-> b.h, k |-> b.k] \in [h : Heaps, k : k .. n - 1]
        BY <2>3, <3>1
      <3>3. b.k # k /\ b.k # a.k
        BY <2>1, <2>3
      <3>4. b \in A
        BY <2>3, <3>1, <3>2, <3>3
      <3> QED BY <2>3, <3>3, <3>4 DEF b
    <2> QED BY <2>2, <2>3 DEF b
  <1>3. step \in [A -> A] /\ \A a \in A : step[a] = DownMove(a, n)
    BY <1>2
  <1>4. rank \in [A -> Nat]
    <2> SUFFICES ASSUME NEW a \in A PROVE n - a.k \in Nat
      OBVIOUS
    <2>1. a.k \in k .. n - 1
      OBVIOUS
    <2> QED BY <2>1
  <1>5. \E f : Loop(f)
    <2>1. PICK f \in [Nat -> A] :
             f = [m \in Nat |-> IF m = 0 THEN a0 ELSE step[f[m - 1]]]
      <3>1. a0 \in A /\ step \in [A -> A]
        BY <1>1, <1>3
      <3> HIDE DEF A, a0, step, Loop, at, N, rank
      <3> QED BY <3>1, RepetitionExists, SMTT(30)
    <2>2. ASSUME NEW m \in Nat
          PROVE  f[m] = IF m = 0 THEN a0 ELSE DownMove(f[m - 1], n)
      <3>1. CASE m = 0
        BY <2>1, <3>1
      <3>2. CASE m # 0
        <4>1. m - 1 \in Nat
          BY <3>2
        <4> HIDE DEF A, a0, step
        <4> QED BY <1>3, <2>1, <3>2, <4>1
      <3> QED BY <3>1, <3>2
    <2>3. f = [m \in Nat |-> f[m]]
      BY <2>1
    <2>4. Loop(f)
      <3> HIDE DEF A, a0, step
      <3> QED BY <2>2, <2>3
    <2> QED BY <2>4
  <1>6. Loop(at)
    BY <1>5
  <1>7. Down(h, k, n) = at[N]
    BY DEF Down
  <1>8. Repeats(at, a0, step)
    <2>1. at[0] = a0
      <3> HIDE DEF at, a0
      <3> QED BY <1>6
    <2>2. ASSUME NEW m \in Nat, at[m] \in A
          PROVE  at[m + 1] = step[at[m]]
      <3>1. m + 1 \in Nat /\ m + 1 # 0 /\ m + 1 - 1 = m
        OBVIOUS
      <3> HIDE DEF at, a0, A, step
      <3> QED BY <1>3, <1>6, <2>2, <3>1
    <2> QED BY <2>1, <2>2 DEF Repeats
  <1>9. \A a \in A : step[a] = a \/ rank[step[a]] < rank[a]
    <2> SUFFICES ASSUME NEW a \in A, step[a] # a
                 PROVE  rank[step[a]] < rank[a]
      OBVIOUS
    <2>1. step[a] \in A /\ a.k < step[a].k
      BY <1>2, <1>3
    <2>2. step[a].k \in k .. n - 1 /\ a.k \in k .. n - 1
      BY <2>1
    <2> QED BY <2>1, <2>2
  <1>10. N \in Nat /\ rank[a0] <= N
    <2>1. N \in Nat
      BY HeapFields
    <2>2. rank[a0] = n - k
      BY <1>1
    <2> QED BY <2>1, <2>2
  <1>11. at[N] \in A /\ step[at[N]] = at[N]
    <2>1. step \in [A -> A]
      BY <1>3
    <2> HIDE DEF A, a0, step, rank, at, N, Loop
    <2> QED BY <1>1, <2>1, <1>4, <1>8, <1>9, <1>10, LoopStops, SMTT(30)
  <1> DEFINE d == at[N]
  <1>12. /\ Stopped(d) /\ Rearranges(d.h, h, n) /\ d.k \in k .. n - 1
         /\ OnlyHigh(d.h, n, d.k, k) /\ (d.k = k => d.h = h)
    <2> HIDE DEF at, N
    <2> QED BY <1>2, <1>3, <1>11
  <1> HIDE DEF d, at, N
  <1>13. d.k > k => Ordered(d.h, n)
    BY <1>12 DEF Ordered
  <1>14. d.k = k => OnlyLow(h, n, k)
    <2> SUFFICES ASSUME d.k = k PROVE OnlyLow(h, n, k)
      OBVIOUS
    <2>1. \A c \in 1 .. n - 1 : c # k => Fit(h, c)
      BY <1>12
    <2> QED BY <2>1 DEF OnlyLow, OnlyHigh
  <1> QED BY <1>7, <1>12, <1>13, <1>14 DEF d

-----------------------------------------------------------------------------
(* The operations of the heap.                                             *)
HeapOK(h) == h \in Heaps /\ Mirrors(h) /\ Ordered(h, Len(h.slice))

LEMMA RestoreOrders ==
  ASSUME NEW h \in Heaps, Mirrors(h), NEW n \in 0 .. Len(h.slice),
         NEW k \in 0 .. n - 1, OnlyHigh(h, n, k, k)
  PROVE  Rearranges(Restore(h, k, n), h, n) /\ Ordered(Restore(h, k, n), n)
  <1> DEFINE d == Down(h, k, n)
  <1>1. /\ Rearranges(d.h, h, n) /\ d.k \in k .. n - 1
        /\ d.k > k => Ordered(d.h, n)
        /\ d.k = k => d.h = h /\ OnlyLow(h, n, k)
    BY DownOrders
  <1>2. Restore(h, k, n) = IF d.k > k THEN d.h ELSE Up(h, k)
    BY DEF Restore
  <1> HIDE DEF d
  <1>3. CASE d.k > k
    BY <1>1, <1>2, <1>3
  <1>4. CASE ~(d.k > k)
    <2>1. d.k = k /\ OnlyLow(h, n, k)
      BY <1>1, <1>4
    <2>2. Rearranges(Up(h, k), h, n) /\ Ordered(Up(h, k), n)
      BY <2>1, UpOrders
    <2> QED BY <1>2, <1>4, <2>2
  <1> QED BY <1>3, <1>4

(* What HeapPush(h, i) makes of h. *)
LEMMA PushAdds ==
  ASSUME NEW h, HeapOK(h), NEW i \in Ids \ Held(h)
  PROVE  LET g == HeapPush(h, i)
         IN  /\ HeapOK(g) /\ Held(g) = Held(h) \cup {i}
             /\ g.task = h.task /\ g.order = h.order
  <1> DEFINE n == Len(h.slice)
             p == push(h, i)
             s == Append(h.slice, i)
             x == [h.index EXCEPT ![i] = n]
  <1>1. /\ h \in Heaps /\ Mirrors(h) /\ Ordered(h, n) /\ n \in Nat
        /\ n <= MaxTasks
    BY HeapFields, HeapIsBounded DEF HeapOK
  <1>2. /\ s \in Seq(Ids) /\ Len(s) = n + 1 /\ s[n + 1] = i
        /\ \A k \in 1 .. n : s[k] = h.slice[k]
    BY <1>1, HeapFields, AppendProperties
  <1>3. x \in [Ids -> -1 .. MaxTasks]
    BY <1>1, HeapFields, TasksAssumption
  <1>4. p.slice = s /\ p.index = x /\ p.task = h.task /\ p.order = h.order
        /\ p \in Heaps
    <2>1. p = [h EXCEPT !.slice = s, !.index = x]
      BY DEF push
    <2> HIDE DEF p, s, x
    <2> QED BY <1>1, <1>2, <1>3, <2>1 DEF Heaps
  <1>5. /\ Len(p.slice) = n + 1 /\ At(p, n) = i
        /\ \A k \in 0 .. n - 1 : At(p, k) = At(h, k)
    <2> HIDE DEF s, p
    <2> QED BY <1>1, <1>2, <1>4 DEF At
  <1>6. Positions(p) = 0 .. n /\ Positions(h) = 0 .. n - 1
    BY <1>1, <1>5 DEF Positions
  <1> HIDE DEF s, p
  <1>7. Mirrors(p)
    <2> SUFFICES ASSUME NEW k \in 0 .. n PROVE x[At(p, k)] = k
      BY <1>4, <1>6 DEF Mirrors
    <2>1. CASE k = n
      BY <1>1, <1>5, <2>1, HeapFields
    <2>2. CASE k # n
      <3>1. k \in 0 .. n - 1 /\ At(p, k) = At(h, k) /\ At(h, k) \in Ids
            /\ At(h, k) # i
        BY <1>1, <1>5, <1>6, <2>2, HeapFields DEF Held
      <3> QED BY <1>1, <1>6, <3>1, HeapFields DEF Mirrors
    <2> QED BY <2>1, <2>2
  <1>8. Held(p) = Held(h) \cup {i}
    <2>1. \A k \in 0 .. n : k = n \/ k \in 0 .. n - 1
      BY <1>1
    <2>2. n \in 0 .. n /\ \A k \in 0 .. n - 1 : k \in 0 .. n
      BY <1>1
    <2> QED BY <1>5, <1>6, <2>1, <2>2 DEF Held
  <1>9. OnlyLow(p, n + 1, n)
    <2>1. \A c \in 1 .. n : c \in Nat \ {0} /\ Parent(c) \in 0 .. n - 1
                            /\ Parent(c) < c
      BY <1>1, ParentIsBefore
    <2>2. ASSUME NEW c \in 1 .. n, c # n
          PROVE  Fit(p, c)
      <3>1. c \in 0 .. n - 1 /\ c \in 1 .. n - 1
        BY <1>1, <2>2
      <3>2. At(p, c) = At(h, c) /\ At(p, Parent(c)) = At(h, Parent(c))
        BY <1>5, <2>1, <3>1
      <3>3. Fit(h, c)
        BY <1>1, <3>1 DEF Ordered
      <3> QED BY <1>4, <3>2, <3>3 DEF Fit
    <2>3. \A c \in 1 .. n : Parent(c) # n
      BY <1>1, <2>1
    <2>4. 1 .. (n + 1) - 1 = 1 .. n
      BY <1>1
    <2> HIDE DEF n
    <2> QED BY <2>2, <2>3, <2>4 DEF OnlyLow
  <1>10. Rearranges(Up(p, n), p, n + 1) /\ Ordered(Up(p, n), n + 1)
    <2>1. n + 1 \in 0 .. Len(p.slice) /\ n \in 0 .. (n + 1) - 1
      BY <1>1, <1>5
    <2> HIDE DEF n
    <2> QED BY <1>4, <1>7, <1>9, <2>1, UpOrders
  <1>11. HeapPush(h, i) = Up(p, n)
    BY DEF HeapPush, p
  <1> HIDE DEF n
  <1> QED BY <1>4, <1>5, <1>8, <1>10, <1>11 DEF Rearranges, HeapOK

(* HeapFix repairs a heap one task of which was changed. *)
LEMMA FixRepairs ==
  ASSUME NEW h \in Heaps, Mirrors(h), NEW k \in Positions(h),
         NEW T \in [Ids -> Task],
         \A i \in Ids \ {At(h, k)} : h.task[i] = T[i],
         \A c \in 1 .. Len(h.slice) - 1 :
            NotAfter(T, h.order, At(h, Parent(c)), At(h, c))
  PROVE  LET g == HeapFix(h, k)
         IN  /\ HeapOK(g) /\ Held(g) = Held(h)
             /\ g.task = h.task /\ g.order = h.order
  <1> DEFINE n == Len(h.slice)
  <1>1. /\ n \in Nat /\ k \in 0 .. n - 1 /\ n \in 0 .. Len(h.slice)
        /\ \A j \in 0 .. n - 1 : At(h, j) \in Ids
        /\ \A i, j \in 0 .. n - 1 : At(h, i) = At(h, j) => i = j
    BY HeapFields, HeapIsBounded DEF Positions
  <1>2. \A c \in 1 .. n - 1 : c \in 0 .. n - 1 /\ Parent(c) \in 0 .. n - 1
                              /\ Parent(c) < c
    BY <1>1, ParentIsBefore
  <1>3. ASSUME NEW i \in 0 .. n - 1, NEW j \in 0 .. n - 1, i # k, j # k,
               NotAfter(T, h.order, At(h, i), At(h, j))
        PROVE  NotAfter(h.task, h.order, At(h, i), At(h, j))
    <2>1. h.task[At(h, i)] = T[At(h, i)] /\ h.task[At(h, j)] = T[At(h, j)]
      BY <1>1, <1>3
    <2> QED BY <1>3, <2>1 DEF NotAfter, Sooner
  <1>4. ASSUME NEW c \in 1 .. n - 1, Parent(c) # k, c # k
        PROVE  Fit(h, c)
    BY <1>2, <1>3, <1>4 DEF Fit
  <1>5. ASSUME k > 0, NEW c \in 1 .. n - 1, Parent(c) = k
        PROVE  NotAfter(h.task, h.order, At(h, Parent(k)), At(h, c))
    <2>1. k \in 1 .. n - 1
      BY <1>1, <1>5
    <2>2. /\ NotAfter(T, h.order, At(h, Parent(k)), At(h, k))
          /\ NotAfter(T, h.order, At(h, k), At(h, c))
      BY <1>5, <2>1
    <2>3. NotAfter(T, h.order, At(h, Parent(k)), At(h, c))
      BY <1>1, <1>2, <2>1, <2>2, SoonerIsOrder, HeapFields
    <2>4. Parent(k) # k /\ c # k
      BY <1>1, <1>2, <1>5, <2>1
    <2> QED BY <1>2, <1>3, <2>1, <2>3, <2>4
  <1> HIDE DEF n
  <1>6. OnlyHigh(h, n, k, k)
    BY <1>4, <1>5 DEF OnlyHigh
  <1>7. Rearranges(Restore(h, k, n), h, n) /\ Ordered(Restore(h, k, n), n)
    BY <1>1, <1>6, RestoreOrders
  <1>8. HeapFix(h, k) = Restore(h, k, n)
    BY DEF HeapFix, n
  <1> QED BY <1>7, <1>8 DEF Rearranges, HeapOK, n

LEMMA PopTakesLast ==
  ASSUME NEW h \in Heaps, Mirrors(h), Len(h.slice) > 0,
         Ordered(h, Len(h.slice) - 1)
  PROVE  LET g == pop(h)
         IN  /\ HeapOK(g) /\ Held(g) = Held(h) \ {At(h, Len(h.slice) - 1)}
             /\ g.task = h.task /\ g.order = h.order
  <1> DEFINE n == Len(h.slice) - 1
             g == pop(h)
             s == Front(h.slice)
             l == At(h, n)
             x == [h.index EXCEPT ![l] = -1]
  <1>1. /\ n \in Nat /\ Len(h.slice) = n + 1 /\ l \in Ids
        /\ \A k \in 0 .. n : At(h, k) \in Ids
        /\ \A i, j \in 0 .. n : At(h, i) = At(h, j) => i = j
        /\ Last(h.slice) = l
    <2>1. n \in Nat /\ Len(h.slice) = n + 1 /\ Positions(h) = 0 .. n
      BY HeapFields DEF Positions
    <2>2. \A k \in 0 .. n : At(h, k) \in Ids
      BY <2>1, HeapFields
    <2>3. \A i, j \in 0 .. n : At(h, i) = At(h, j) => i = j
      BY <2>1, HeapIsBounded
    <2>4. Last(h.slice) = l
      BY <2>1 DEF Last, At
    <2>5. n \in 0 .. n
      BY <2>1
    <2> HIDE DEF n
    <2> QED BY <2>1, <2>2, <2>3, <2>4, <2>5
  <1>2. /\ s \in Seq(Ids) /\ Len(s) = n
        /\ \A k \in 1 .. n : s[k] = h.slice[k]
    <2>1. \A k \in 1 .. n : h.slice[k] \in Ids
      BY <1>1, HeapFields
    <2>2. s = SubSeq(h.slice, 1, n)
      BY DEF Front
    <2> HIDE DEF s, n
    <2> QED BY <1>1, <2>1, <2>2, SubSeqProperties
  <1>3. x \in [Ids -> -1 .. MaxTasks]
    BY <1>1, HeapFields, TasksAssumption
  <1>4. /\ g.slice = s /\ g.index = x /\ g.task = h.task
        /\ g.order = h.order /\ g \in Heaps
    <2>1. g = [h EXCEPT !.slice = s, !.index = x]
      BY <1>1 DEF pop
    <2> HIDE DEF g, s, x
    <2> QED BY <1>2, <1>3, <2>1 DEF Heaps
  <1> HIDE DEF s, g
  <1>5. /\ Len(g.slice) = n /\ Positions(g) = 0 .. n - 1
        /\ Positions(h) = 0 .. n
        /\ \A k \in 0 .. n - 1 : At(g, k) = At(h, k)
    BY <1>1, <1>2, <1>4 DEF At, Positions
  <1>6. Mirrors(g)
    <2> SUFFICES ASSUME NEW k \in 0 .. n - 1 PROVE x[At(g, k)] = k
      BY <1>4, <1>5 DEF Mirrors
    <2>1. k \in 0 .. n /\ k # n /\ n \in 0 .. n
      BY <1>1
    <2>2. At(g, k) = At(h, k) /\ At(h, k) \in Ids /\ At(h, k) # l
      BY <1>1, <1>5, <2>1
    <2>3. h.index[At(h, k)] = k
      BY <1>5, <2>1 DEF Mirrors
    <2> QED BY <2>2, <2>3, HeapFields
  <1>7. Held(g) = Held(h) \ {l}
    <2>1. \A k \in 0 .. n : k = n \/ k \in 0 .. n - 1
      BY <1>1
    <2>2. n \in 0 .. n /\ \A k \in 0 .. n - 1 : k \in 0 .. n /\ k # n
      BY <1>1
    <2> HIDE DEF n
    <2> QED BY <1>1, <1>5, <2>1, <2>2 DEF Held
  <1>8. Ordered(g, n)
    <2> SUFFICES ASSUME NEW c \in 1 .. n - 1 PROVE Fit(g, c)
      BY DEF Ordered
    <2>1. c \in 0 .. n - 1 /\ Parent(c) \in 0 .. n - 1
      BY <1>1, ParentIsBefore
    <2>2. At(g, c) = At(h, c) /\ At(g, Parent(c)) = At(h, Parent(c))
      BY <1>5, <2>1
    <2>3. Fit(h, c)
      BY DEF Ordered
    <2> QED BY <1>4, <2>2, <2>3 DEF Fit
  <1> QED BY <1>4, <1>5, <1>6, <1>7, <1>8 DEF HeapOK, g

LEMMA RemoveTakesOne ==
  ASSUME NEW h, HeapOK(h), NEW k \in Positions(h)
  PROVE  LET g == HeapRemove(h, k)
         IN  /\ HeapOK(g) /\ Held(g) = Held(h) \ {At(h, k)}
             /\ g.task = h.task /\ g.order = h.order
  <1> DEFINE n == Len(h.slice) - 1
             g == swap(h, k, n)
             r == IF k = n THEN h ELSE Restore(g, k, n)
  <1>1. /\ h \in Heaps /\ Mirrors(h) /\ Ordered(h, n + 1)
        /\ n \in Nat /\ k \in 0 .. n /\ n + 1 = Len(h.slice)
        /\ n \in Positions(h) /\ Positions(h) = 0 .. n
    BY HeapFields DEF HeapOK, Positions
  <1>2. HeapRemove(h, k) = pop(r)
    BY DEF HeapRemove
  <1>3. /\ r \in Heaps /\ Mirrors(r) /\ Len(r.slice) = n + 1
        /\ r.task = h.task /\ r.order = h.order
        /\ Held(r) = Held(h) /\ At(r, n) = At(h, k) /\ Ordered(r, n)
    <2>1. CASE k = n
      <3>1. Ordered(h, n)
        BY <1>1 DEF Ordered
      <3> QED BY <1>1, <2>1, <3>1
    <2>2. CASE k # n
      <3>1. /\ Rearranges(g, h, n + 1) /\ At(g, k) = At(h, n)
            /\ At(g, n) = At(h, k)
            /\ \A i \in Positions(h) \ {k, n} : At(g, i) = At(h, i)
        <4>1. k < n + 1 /\ n < n + 1 /\ n + 1 \in Int
          BY <1>1
        <4> HIDE DEF n
        <4> QED BY <1>1, <2>2, <4>1, SwapRearranges
      <3>2. /\ g \in Heaps /\ Mirrors(g) /\ Len(g.slice) = n + 1
            /\ g.task = h.task /\ g.order = h.order /\ Held(g) = Held(h)
        BY <1>1, <3>1 DEF Rearranges
      <3> HIDE DEF g
      <3>3. \A c \in 1 .. n - 1 :
               /\ c \in 0 .. n /\ c # n /\ Parent(c) \in 0 .. n - 1
               /\ Parent(c) < c /\ c \in 1 .. (n + 1) - 1
        BY <1>1, ParentIsBefore
      <3>4. ASSUME NEW c \in 1 .. n - 1, Parent(c) # k, c # k
            PROVE  Fit(g, c)
        <4>1. Parent(c) \in Positions(h) \ {k, n}
              /\ c \in Positions(h) \ {k, n}
          <5>1. c \in 0 .. n /\ c # n /\ Parent(c) \in 0 .. n - 1
            BY <3>3
          <5>2. Parent(c) \in 0 .. n /\ Parent(c) # n
            BY <1>1, <5>1
          <5> HIDE DEF n
          <5> QED BY <1>1, <3>4, <5>1, <5>2
        <4>2. Fit(h, c)
          BY <1>1, <3>3 DEF Ordered
        <4> QED BY <3>1, <3>2, <4>1, <4>2 DEF Fit
      <3>5. ASSUME k > 0, NEW c \in 1 .. n - 1, Parent(c) = k
            PROVE  NotAfter(g.task, g.order, At(g, Parent(k)), At(g, c))
        <4>1. k \in 1 .. n - 1 /\ c # k
          BY <1>1, <2>2, <3>3, <3>5
        <4>2. Fit(h, c) /\ Fit(h, k)
          BY <1>1, <3>3, <4>1 DEF Ordered
        <4>3. Parent(k) \in Positions(h) \ {k, n}
              /\ c \in Positions(h) \ {k, n}
          <5>1. c \in 0 .. n /\ c # n /\ Parent(k) \in 0 .. n - 1
                /\ Parent(k) < k /\ k \in Nat
            <6>1. c \in 0 .. n /\ c # n
              BY <3>3
            <6>2. Parent(k) \in 0 .. n - 1 /\ Parent(k) < k
              BY <3>3, <4>1
            <6>3. k \in Nat
              BY <1>1
            <6> QED BY <6>1, <6>2, <6>3
          <5>2. Parent(k) \in 0 .. n /\ Parent(k) # n /\ Parent(k) # k
            BY <1>1, <5>1
          <5> HIDE DEF n
          <5> QED BY <1>1, <4>1, <5>1, <5>2
        <4>4. /\ At(h, Parent(k)) \in Ids /\ At(h, k) \in Ids
              /\ At(h, c) \in Ids
          BY <1>1, <4>3, HeapFields
        <4>5. NotAfter(h.task, h.order, At(h, Parent(k)), At(h, c))
          BY <1>1, <3>5, <4>2, <4>4, SoonerIsOrder, HeapFields DEF Fit
        <4> QED BY <3>1, <3>2, <4>3, <4>5
      <3>6. OnlyHigh(g, n, k, k)
        <4> HIDE DEF n
        <4> QED BY <3>4, <3>5 DEF OnlyHigh
      <3>7. Rearranges(r, g, n) /\ Ordered(r, n)
        <4>1. n \in 0 .. Len(g.slice) /\ k \in 0 .. n - 1
          BY <1>1, <2>2, <3>2
        <4> HIDE DEF n
        <4> QED BY <2>2, <3>2, <3>6, <4>1, RestoreOrders
      <3>8. n \in Positions(g) /\ n >= n
        BY <1>1, <3>2 DEF Positions
      <3> HIDE DEF r, n
      <3> QED BY <3>1, <3>2, <3>7, <3>8 DEF Rearranges
    <2> QED BY <2>1, <2>2
  <1> HIDE DEF r
  <1>4. Len(r.slice) > 0 /\ Len(r.slice) - 1 = n
    BY <1>1, <1>3
  <1> HIDE DEF n
  <1> QED BY <1>2, <1>3, <1>4, PopTakesLast

(* The first element of a heap is one none comes before. *)
LEMMA RootIsFirst ==
  ASSUME NEW h, HeapOK(h), NEW k \in Positions(h)
  PROVE  NotAfter(h.task, h.order, At(h, 0), At(h, k))
  <1> DEFINE Bad == {j \in Positions(h) :
                       ~NotAfter(h.task, h.order, At(h, 0), At(h, j))}
  <1>1. /\ h \in Heaps /\ Len(h.slice) \in Nat
        /\ \A j \in Positions(h) : j \in Nat /\ At(h, j) \in Ids
        /\ 0 \in Positions(h)
    BY HeapFields DEF HeapOK, Positions
  <1> SUFFICES ASSUME k \in Bad PROVE FALSE
    OBVIOUS
  <1>2. PICK m \in Bad : \A j \in Bad : m <= j
    <2>1. Bad \in SUBSET Nat
      BY <1>1
    <2> HIDE DEF Bad
    <2> QED BY <2>1, SmallestExists
  <1>3. m # 0
    BY <1>1, SoonerIsOrder, HeapFields
  <1>4. m \in Nat /\ m \in 1 .. Len(h.slice) - 1
    BY <1>1, <1>3 DEF Positions
  <1>5. Parent(m) \in Nat /\ Parent(m) < m
    BY <1>3, <1>4, ParentIsBefore
  <1>6. Parent(m) \in Positions(h) /\ Parent(m) \notin Bad
    <2>1. Parent(m) \in Positions(h)
      BY <1>1, <1>4, <1>5 DEF Positions
    <2>2. ~(m <= Parent(m))
      BY <1>4, <1>5
    <2> HIDE DEF Bad
    <2> QED BY <1>2, <2>1, <2>2
  <1>7. NotAfter(h.task, h.order, At(h, Parent(m)), At(h, m))
    BY <1>4 DEF HeapOK, Ordered, Fit
  <1>8. NotAfter(h.task, h.order, At(h, 0), At(h, m))
    BY <1>1, <1>6, <1>7, SoonerIsOrder, HeapFields
  <1> QED BY <1>8

(* What makes a heap is what it says of the tasks it holds. *)
LEMMA SameHeap ==
  ASSUME NEW h, HeapOK(h), NEW g \in Heaps, g.slice = h.slice,
         \A i \in Held(h) : /\ g.index[i] = h.index[i]
                            /\ g.task[i] = h.task[i]
                            /\ g.order[i] = h.order[i]
  PROVE  HeapOK(g) /\ Held(g) = Held(h)
  <1>1. /\ Positions(g) = Positions(h)
        /\ \A k \in Int : At(g, k) = At(h, k)
    BY DEF Positions, At
  <1>2. h \in Heaps /\ Len(h.slice) \in Nat
    BY HeapFields DEF HeapOK
  <1>3. \A k \in Positions(h) : k \in Int /\ At(h, k) \in Held(h)
    BY <1>2 DEF Held, Positions
  <1>4. Held(g) = Held(h)
    BY <1>1, <1>3 DEF Held
  <1>5. Mirrors(g)
    BY <1>1, <1>3 DEF HeapOK, Mirrors
  <1>6. ASSUME NEW c \in 1 .. Len(h.slice) - 1
        PROVE  Fit(g, c)
    <2>1. c \in Positions(h) /\ Parent(c) \in Positions(h)
      BY <1>2, ParentIsBefore DEF Positions
    <2>2. Fit(h, c)
      BY DEF HeapOK, Ordered
    <2> QED BY <1>1, <1>3, <2>1, <2>2 DEF Fit, NotAfter, Sooner
  <1> QED BY <1>4, <1>5, <1>6 DEF HeapOK, Ordered

LEMMA HeldHasPosition ==
  ASSUME NEW h, HeapOK(h), NEW i \in Held(h)
  PROVE  h.index[i] \in Positions(h) /\ At(h, h.index[i]) = i
  BY DEF HeapOK, Mirrors, Held


-----------------------------------------------------------------------------
(* The inductive invariant.                                                *)
(* The heap of the code. *)
TheHeap == Heap(tasks, order)

Stored == {i \in Ids : tasks[i].state # "absent"}

(* The heap of the code is one, of the scheduled tasks. *)
HeapState ==
    /\ HeapOK(TheHeap)
    /\ Held(TheHeap) = Scheduled

(* A task is stored under its id. *)
MapState ==
    /\ ListIsComplete
    /\ \A i \in Stored : tasks[i].id = i /\ i <= issued

(* A stamped task is one AddTask made, under an id no other task has. *)
WaitingState ==
    /\ \A w \in waiting :
          /\ w.task.id \in (1 .. issued) \ Stored
          /\ \E p \in AddParam : w.task = ToTask(p, w.task.id, w.task.created)
          /\ \A k \in DOMAIN saved : saved[k].id # w.task.id
    /\ \A v, w \in waiting : v.task.id = w.task.id => v = w

(* Save returned every task once. *)
SavedState ==
    /\ \A k \in DOMAIN saved : /\ saved[k].id \in 1 .. issued
                               /\ saved[k].state # "absent"
    /\ \A j, k \in DOMAIN saved : saved[j].id = saved[k].id => j = k

(* Load has added the first tasks of saved and has the others before it. *)
LoadingState ==
    loading # None =>
       /\ Len(list) + Len(loading) = Len(saved)
       /\ \A k \in DOMAIN list : /\ list[k] = saved[k].id
                                 /\ tasks[list[k]] = saved[k]
       /\ \A k \in DOMAIN loading : loading[k] = saved[Len(list) + k]

(* Until Load is called ids, insertion orders and creation times agree. *)
Known == {tasks[i] : i \in Stored} \cup {w.task : w \in waiting}

StampState ==
    ~loaded =>
       /\ count = issued /\ loading = None
       /\ \A i \in Stored : order[i] = i
       /\ \A i \in Scheduled : ~tasks[i].cancelledAt
       /\ \A w \in waiting : w.order = w.task.id
       /\ \A t \in Known : t.created <= clock
       /\ \A t, u \in Known : t.id < u.id => t.created <= u.created

(* As long as no AddTask overlaps, list is in insertion order. *)
OrderState ==
    ~overlapped =>
       /\ \A v, w \in waiting : v = w
       /\ loading # None => waiting = {}
       /\ \A k \in DOMAIN list : order[list[k]] <= count
       /\ \A j, k \in DOMAIN list : j < k => order[list[j]] < order[list[k]]
       /\ \A w \in waiting : /\ w.order <= count
                             /\ \A k \in DOMAIN list : order[list[k]] < w.order

(* The entry j of saved is before the entry k. *)
SavedBefore(j, k) ==
    LET t == saved[j]
        u == saved[k]
    IN  \/ t.sched < u.sched
        \/ t.sched = u.sched /\ t.prio > u.prio
        \/ t.sched = u.sched /\ t.prio = u.prio /\ t.created < u.created
        \/ /\ t.sched = u.sched /\ t.prio = u.prio /\ t.created = u.created
           /\ j < k

SavedScheduled == {k \in DOMAIN saved : saved[k].state = "scheduled"}

(* GetNext answered the first scheduled task of those Save returned. *)
SavedNextState ==
    ~overlapped =>
       \/ savedNext = 0 /\ SavedScheduled = {}
       \/ \E k \in SavedScheduled :
             /\ saved[k].id = savedNext
             /\ \A j \in SavedScheduled : ~SavedBefore(j, k)

IInv == /\ TypeOK /\ HeapState /\ MapState /\ WaitingState /\ SavedState
        /\ LoadingState /\ StampState /\ OrderState /\ SavedNextState

-----------------------------------------------------------------------------
LEMMA HeapOfModule ==
  ASSUME NEW T, NEW O
  PROVE  /\ Heap(T, O).slice = heap /\ Heap(T, O).index = index
         /\ Heap(T, O).task = T /\ Heap(T, O).order = O
         /\ heap \in Seq(Ids) /\ index \in [Ids -> -1 .. MaxTasks]
            /\ T \in [Ids -> Task] /\ O \in [Ids -> 0 .. MaxTasks]
               => Heap(T, O) \in Heaps
  BY DEF Heap, Heaps

(* The heap after a step that sets it to g. *)
LEMMA HeapAfter ==
  ASSUME NEW g, HeapOK(g), HeapBecomes(g),
         tasks' \in [Ids -> Task], order' \in [Ids -> 0 .. MaxTasks],
         \A i \in Held(g) : tasks'[i] = g.task[i] /\ order'[i] = g.order[i]
  PROVE  /\ HeapOK(TheHeap)' /\ Held(TheHeap)' = Held(g)
         /\ heap' \in Seq(Ids) /\ index' \in [Ids -> -1 .. MaxTasks]
  <1> DEFINE h == TheHeap'
  <1>1. heap' = g.slice /\ index' = g.index
    BY DEF HeapBecomes
  <1>2. heap' \in Seq(Ids) /\ index' \in [Ids -> -1 .. MaxTasks]
    BY <1>1, HeapFields DEF HeapOK
  <1>3. /\ h.slice = heap' /\ h.index = index' /\ h.task = tasks'
        /\ h.order = order' /\ h \in Heaps
    BY <1>2 DEF TheHeap, Heap, Heaps
  <1> HIDE DEF h
  <1>4. HeapOK(h) /\ Held(h) = Held(g)
    BY <1>1, <1>3, SameHeap
  <1> QED BY <1>2, <1>4 DEF h

LEMMA AppendOnce ==
  ASSUME NEW S, NEW s \in Seq(S), IsInjective(s), NEW i \in S \ ToSet(s)
  PROVE  /\ Append(s, i) \in Seq(S) /\ Len(Append(s, i)) = Len(s) + 1
         /\ ToSet(Append(s, i)) = ToSet(s) \cup {i}
         /\ IsInjective(Append(s, i))
         /\ Append(s, i)[Len(s) + 1] = i
         /\ \A k \in 1 .. Len(s) : Append(s, i)[k] = s[k]
  <1> DEFINE a == Append(s, i)
  <1>1. /\ Len(s) \in Nat /\ DOMAIN s = 1 .. Len(s)
        /\ a \in Seq(S) /\ Len(a) = Len(s) + 1 /\ DOMAIN a = 1 .. Len(s) + 1
        /\ a[Len(s) + 1] = i /\ \A k \in 1 .. Len(s) : a[k] = s[k]
    BY AppendProperties, LenProperties
  <1> HIDE DEF a
  <1>2. \A k \in DOMAIN a : k = Len(s) + 1 \/ k \in DOMAIN s
    BY <1>1
  <1>3. Len(s) + 1 \in DOMAIN a /\ \A k \in DOMAIN s : k \in DOMAIN a
    BY <1>1
  <1>4. ToSet(a) = ToSet(s) \cup {i}
    BY <1>1, <1>2, <1>3 DEF ToSet
  <1>5. \A k \in DOMAIN s : s[k] # i
    BY DEF ToSet
  <1>6. IsInjective(a)
    BY <1>1, <1>2, <1>5 DEF IsInjective
  <1> QED BY <1>1, <1>4, <1>6 DEF a

(* Store adds one task, to the map and perhaps to the heap. *)
LEMMA StoreAdds ==
  ASSUME TypeOK, HeapState, MapState, NEW t \in Task, NEW ord \in 0 .. MaxTasks,
         t.id \in Ids \ Stored, t.state # "absent",
         Store(t, ord, t.state = "scheduled"),
         issued' \in 0 .. MaxTasks, issued <= issued', t.id <= issued'
  PROVE  /\ tasks' \in [Ids -> Task] /\ order' \in [Ids -> 0 .. MaxTasks]
         /\ index' \in [Ids -> -1 .. MaxTasks] /\ heap' \in Seq(Ids)
         /\ list' \in Seq(Ids) /\ list' = Append(list, t.id)
         /\ tasks'[t.id] = t /\ order'[t.id] = ord
         /\ \A i \in Ids \ {t.id} : tasks'[i] = tasks[i] /\ order'[i] = order[i]
         /\ Stored' = Stored \cup {t.id} /\ HeapState' /\ MapState'
  <1> DEFINE i == t.id
  <1>1. /\ tasks \in [Ids -> Task] /\ order \in [Ids -> 0 .. MaxTasks]
        /\ index \in [Ids -> -1 .. MaxTasks] /\ heap \in Seq(Ids)
        /\ list \in Seq(Ids) /\ issued \in 0 .. MaxTasks
    BY DEF TypeOK
  <1>2. /\ tasks' = [tasks EXCEPT ![i] = t] /\ order' = [order EXCEPT ![i] = ord]
        /\ list' = Append(list, i)
        /\ IF t.state = "scheduled"
           THEN HeapBecomes(HeapPush(Heap(tasks', order'), i))
           ELSE heap' = heap /\ index' = [index EXCEPT ![i] = 0]
    BY DEF Store
  <1> HIDE DEF i
  <1>3. i \in Ids /\ i \notin Stored /\ i = t.id
    BY DEF i
  <1>4. /\ tasks' \in [Ids -> Task] /\ order' \in [Ids -> 0 .. MaxTasks]
        /\ tasks'[i] = t /\ order'[i] = ord
        /\ \A j \in Ids \ {i} : tasks'[j] = tasks[j] /\ order'[j] = order[j]
    BY <1>1, <1>2, <1>3
  <1>5. Stored' = Stored \cup {i}
    BY <1>3, <1>4 DEF Stored
  <1>6. MapState'
    <2>1. i \notin ToSet(list) /\ IsInjective(list) /\ ToSet(list) = Stored
      BY <1>3 DEF MapState, ListIsComplete, Stored
    <2>2. ToSet(list)' = Stored' /\ IsInjective(list)'
      BY <1>1, <1>2, <1>3, <1>5, <2>1, AppendOnce
    <2>3. ASSUME NEW j \in Stored'
          PROVE  tasks'[j].id = j /\ j <= issued'
      <3>1. CASE j = i
        BY <1>3, <1>4, <3>1
      <3>2. CASE j # i
        <4>1. j \in Stored /\ j \in Ids /\ tasks'[j] = tasks[j]
          BY <1>4, <1>5, <2>3, <3>2 DEF Stored
        <4>2. tasks[j].id = j /\ j <= issued
          BY <4>1 DEF MapState
        <4> QED BY <1>1, <4>1, <4>2 DEF Ids
      <3> QED BY <3>1, <3>2
    <2> QED BY <2>2, <2>3 DEF MapState, ListIsComplete, Stored
  <1> DEFINE h == TheHeap
             g == Heap(tasks', order')
  <1>7. /\ HeapOK(h) /\ Held(h) = Scheduled /\ Scheduled \subseteq Ids \ {i}
        /\ h.slice = heap /\ h.index = index /\ h.task = tasks
        /\ h.order = order
    BY <1>3, HeapOfModule DEF HeapState, Stored, Scheduled, TheHeap
  <1>8. /\ HeapState' /\ heap' \in Seq(Ids)
        /\ index' \in [Ids -> -1 .. MaxTasks]
    <2>1. CASE t.state = "scheduled"
      <3>1. HeapBecomes(HeapPush(g, i))
        BY <1>2, <2>1
      <3>2. /\ g \in Heaps /\ g.slice = heap /\ g.index = index
            /\ g.task = tasks' /\ g.order = order'
        BY <1>1, <1>4 DEF Heap, Heaps
      <3> HIDE DEF g, h
      <3>3. HeapOK(g) /\ Held(g) = Scheduled
        BY <1>4, <1>7, <3>2, SameHeap
      <3>4. /\ HeapOK(HeapPush(g, i))
            /\ Held(HeapPush(g, i)) = Scheduled \cup {i}
            /\ HeapPush(g, i).task = tasks' /\ HeapPush(g, i).order = order'
        BY <1>3, <1>7, <3>2, <3>3, PushAdds
      <3>5. /\ HeapOK(TheHeap)' /\ Held(TheHeap)' = Scheduled \cup {i}
            /\ heap' \in Seq(Ids) /\ index' \in [Ids -> -1 .. MaxTasks]
        BY <1>4, <3>1, <3>4, HeapAfter
      <3>6. Scheduled' = Scheduled \cup {i}
        BY <1>3, <1>4, <2>1 DEF Scheduled
      <3> QED BY <3>5, <3>6 DEF HeapState
    <2>2. CASE t.state # "scheduled"
      <3>1. /\ heap' = heap /\ index' = [index EXCEPT ![i] = 0]
            /\ index' \in [Ids -> -1 .. MaxTasks]
        <4>1. heap' = heap /\ index' = [index EXCEPT ![i] = 0]
          BY <1>2, <2>2
        <4>2. 0 \in -1 .. MaxTasks
          BY TasksAssumption
        <4> QED BY <1>1, <4>1, <4>2
      <3> DEFINE f == TheHeap'
      <3>2. /\ f \in Heaps /\ f.slice = heap /\ f.index = index'
            /\ f.task = tasks' /\ f.order = order'
        BY <1>1, <1>4, <3>1 DEF TheHeap, Heap, Heaps
      <3> HIDE DEF f, h
      <3>3. \A j \in Ids \ {i} : f.index[j] = h.index[j]
        BY <1>1, <1>3, <1>7, <3>1, <3>2
      <3>4. HeapOK(f) /\ Held(f) = Scheduled
        BY <1>4, <1>7, <3>2, <3>3, SameHeap
      <3>5. Scheduled' = Scheduled
        <4>1. \A j \in Ids \ {i} : j \in Scheduled' <=> j \in Scheduled
          BY <1>4 DEF Scheduled
        <4>2. i \notin Scheduled' /\ i \notin Scheduled
          BY <1>4, <1>7, <2>2 DEF Scheduled
        <4>3. Scheduled \subseteq Ids /\ Scheduled' \subseteq Ids
          BY DEF Scheduled
        <4> QED BY <4>1, <4>2, <4>3
      <3> QED BY <1>1, <3>1, <3>4, <3>5 DEF HeapState, f
    <2> QED BY <2>1, <2>2
  <1> QED BY <1>1, <1>2, <1>3, <1>4, <1>5, <1>6, <1>8, AppendOnce
            DEF i, MapState, ListIsComplete, Stored

-----------------------------------------------------------------------------
(* UpdateById may set times UpdateParam does not have. *)
LEMMA UpdateByIdType ==
  ASSUME NEW t \in Task, NEW u \in Uses,
         NEW p \in [sched : Option(u.updateTimes),
                    prio : Option(u.priorities)]
  PROVE  /\ Update(t, p) \in Task
         /\ Update(t, p).id = t.id /\ Update(t, p).state = t.state
         /\ Update(t, p).created = t.created
         /\ Update(t, p).cancelledAt = t.cancelledAt
  <1> DEFINE sched == OrElse(p.sched, t.sched)
             prio  == OrElse(p.prio, t.prio)
  <1>1. u.updateTimes \subseteq 0 .. MaxTime /\ u.priorities \subseteq Priorities
    BY InMemoryAssumption
  <1>2. t.sched \in 0 .. MaxTime /\ t.prio \in Priorities
    BY DEF Task
  <1>3. sched \in 0 .. MaxTime /\ prio \in Priorities
    BY <1>1, <1>2, OrElseType
  <1>4. Update(t, p) = [t EXCEPT !.sched = sched, !.prio = prio]
    BY DEF Update, Assign
  <1> HIDE DEF sched, prio
  <1> QED BY <1>3, <1>4 DEF Task

LEMMA TaskEquality ==
  ASSUME NEW t \in Task, NEW u \in Task, t.id = u.id, t.state = u.state,
         t.sched = u.sched, t.prio = u.prio, t.created = u.created,
         t.cancelledAt = u.cancelledAt, t.dispatchedAt = u.dispatchedAt,
         t.doneAt = u.doneAt
  PROVE  t = u
  BY DEF Task

LEMMA ToTaskFields ==
  ASSUME NEW p \in UpdateParam, NEW i \in 0 .. MaxTasks,
         NEW c \in 0 .. FarFuture
  PROVE  ToTask(p, i, c).created = c /\ ToTask(p, i, c).prio = OrElse(p.prio, 0)
  <1> DEFINE blank == [NoTask EXCEPT !.id = i, !.created = c,
                                     !.state = "scheduled"]
             sched == OrElse(p.sched, 0)
             prio == OrElse(p.prio, 0)
  <1>1. blank \in Task /\ blank.created = c /\ blank.sched = 0 /\ blank.prio = 0
    BY NoTaskType DEF NoTask, Task, States, ZeroTime
  <1>2. ToTask(p, i, c) = [blank EXCEPT !.sched = sched, !.prio = prio]
    <2>1. ToTask(p, i, c) = Update(blank, p)
      BY DEF ToTask
    <2> HIDE DEF blank
    <2> QED BY <1>1, <2>1 DEF Update, Assign
  <1>3. /\ [blank EXCEPT !.sched = sched, !.prio = prio].created = blank.created
        /\ [blank EXCEPT !.sched = sched, !.prio = prio].prio = prio
    <2> HIDE DEF blank, sched, prio
    <2> QED BY <1>1 DEF Task
  <1> QED BY <1>1, <1>2, <1>3

(* A stamped task, and the same one under the stamp of Repository. *)
LEMMA Restamped ==
  ASSUME NEW p \in AddParam, NEW i \in Ids, NEW c \in 0 .. FarFuture
  PROVE  /\ ToTask(p, i, c) \in Task /\ ToTask(p, i, c).id = i
         /\ ToTask(p, i, c).created = c
         /\ ToTask(p, i, c).state = "scheduled"
         /\ ~ToTask(p, i, c).cancelledAt
         /\ [ToTask(p, i, c) EXCEPT !.created = i] = ToTask(p, i, i)
  <1>1. /\ p \in UpdateParam /\ i \in 0 .. MaxTasks /\ i \in 0 .. FarFuture
    BY TasksAssumption DEF AddParam, Ids, FarFuture
  <1> DEFINE t == ToTask(p, i, c)
             u == ToTask(p, i, i)
             v == [t EXCEPT !.created = i]
  <1>2. /\ t \in Task /\ t.id = i /\ t.state = "scheduled" /\ ~t.cancelledAt
        /\ ~t.dispatchedAt /\ ~t.doneAt /\ t.sched = OrElse(p.sched, 0)
        /\ t.created = c /\ t.prio = OrElse(p.prio, 0)
    BY <1>1, ToTaskType, ToTaskFields
  <1>3. /\ u \in Task /\ u.id = i /\ u.state = "scheduled" /\ ~u.cancelledAt
        /\ ~u.dispatchedAt /\ ~u.doneAt /\ u.sched = OrElse(p.sched, 0)
        /\ u.created = i /\ u.prio = OrElse(p.prio, 0)
    BY <1>1, ToTaskType, ToTaskFields
  <1> HIDE DEF t, u
  <1>4. /\ v \in Task /\ v.id = t.id /\ v.state = t.state /\ v.sched = t.sched
        /\ v.prio = t.prio /\ v.created = i /\ v.cancelledAt = t.cancelledAt
        /\ v.dispatchedAt = t.dispatchedAt /\ v.doneAt = t.doneAt
    BY <1>1, <1>2 DEF Task
  <1> HIDE DEF v
  <1>5. /\ ~t.cancelledAt <=> ~u.cancelledAt
        /\ t.cancelledAt = u.cancelledAt /\ t.dispatchedAt = u.dispatchedAt
        /\ t.doneAt = u.doneAt
    BY <1>2, <1>3 DEF Task
  <1>6. v = u
    BY <1>2, <1>3, <1>4, <1>5, TaskEquality
  <1> QED BY <1>2, <1>6 DEF t, u, v

(* A step that puts t in the place of the task i. *)
Changes(i, t) ==
    /\ i \in Stored /\ t \in Task
    /\ tasks' = [tasks EXCEPT ![i] = t]
    /\ t.id = tasks[i].id /\ t.created = tasks[i].created
    /\ t.state # "absent"
    /\ t.state = "scheduled" => /\ tasks[i].state = "scheduled"
                                /\ t.cancelledAt = tasks[i].cancelledAt
    /\ heap' \in Seq(Ids) /\ index' \in [Ids -> -1 .. MaxTasks]
    /\ HeapState'
    /\ Unlocked
    /\ UNCHANGED <<list, order, count, issued, clock, waiting, ioVars,
                   use, overlapped, loaded>>

(* The heap without a task that is not scheduled any more. *)
LEMMA RemoveTakes ==
  ASSUME TypeOK, HeapState, NEW i \in Scheduled, NEW t \in Task,
         HeapBecomes(HeapRemove(Heap(tasks, order), index[i])),
         tasks' = [tasks EXCEPT ![i] = t], t.state # "scheduled",
         order' = order
  PROVE  /\ heap' \in Seq(Ids) /\ index' \in [Ids -> -1 .. MaxTasks]
         /\ HeapState'
  <1> DEFINE h == TheHeap
             g == HeapRemove(h, index[i])
  <1>1. /\ tasks \in [Ids -> Task] /\ order \in [Ids -> 0 .. MaxTasks]
        /\ i \in Ids
    BY DEF TypeOK, Scheduled
  <1>2. /\ HeapOK(h) /\ Held(h) = Scheduled
        /\ h.index = index /\ h.task = tasks /\ h.order = order
    BY HeapOfModule DEF HeapState, TheHeap
  <1>3. HeapBecomes(g)
    BY DEF TheHeap
  <1> HIDE DEF h
  <1>4. index[i] \in Positions(h) /\ At(h, index[i]) = i
    BY <1>2, HeldHasPosition
  <1>5. /\ HeapOK(g) /\ Held(g) = Scheduled \ {i}
        /\ g.task = tasks /\ g.order = order
    BY <1>2, <1>4, RemoveTakesOne
  <1> HIDE DEF g
  <1>6. /\ tasks' \in [Ids -> Task] /\ order' \in [Ids -> 0 .. MaxTasks]
        /\ \A j \in Ids \ {i} : tasks'[j] = tasks[j]
        /\ tasks'[i] = t
    BY <1>1
  <1>7. Scheduled \subseteq Ids
    BY DEF Scheduled
  <1>8. /\ HeapOK(TheHeap)' /\ Held(TheHeap)' = Scheduled \ {i}
        /\ heap' \in Seq(Ids) /\ index' \in [Ids -> -1 .. MaxTasks]
    BY <1>3, <1>5, <1>6, <1>7, HeapAfter
  <1>9. Scheduled' = Scheduled \ {i}
    BY <1>1, <1>6 DEF Scheduled
  <1> QED BY <1>8, <1>9 DEF HeapState

(* The heap with a task that is still scheduled, but elsewhere. *)
LEMMA FixMoves ==
  ASSUME TypeOK, HeapState, NEW i \in Scheduled, NEW t \in Task,
         HeapBecomes(HeapFix(Heap(tasks', order), index[i])),
         tasks' = [tasks EXCEPT ![i] = t], t.state = "scheduled",
         order' = order
  PROVE  /\ heap' \in Seq(Ids) /\ index' \in [Ids -> -1 .. MaxTasks]
         /\ HeapState'
  <1> DEFINE h == TheHeap
             f == Heap(tasks', order)
             g == HeapFix(f, index[i])
  <1>1. /\ tasks \in [Ids -> Task] /\ order \in [Ids -> 0 .. MaxTasks]
        /\ index \in [Ids -> -1 .. MaxTasks] /\ heap \in Seq(Ids)
        /\ i \in Ids
    BY DEF TypeOK, Scheduled
  <1>2. /\ HeapOK(h) /\ Held(h) = Scheduled /\ h.slice = heap
        /\ h.index = index /\ h.task = tasks /\ h.order = order
    BY HeapOfModule DEF HeapState, TheHeap
  <1>3. /\ tasks' \in [Ids -> Task] /\ order' \in [Ids -> 0 .. MaxTasks]
        /\ \A j \in Ids \ {i} : tasks'[j] = tasks[j]
        /\ tasks'[i] = t
    BY <1>1
  <1>4. /\ f \in Heaps /\ f.slice = heap /\ f.index = index
        /\ f.task = tasks' /\ f.order = order
    BY <1>1, <1>3 DEF Heap, Heaps
  <1> HIDE DEF h, f
  <1>5. index[i] \in Positions(h) /\ At(h, index[i]) = i
    BY <1>2, HeldHasPosition
  <1>6. /\ Positions(f) = Positions(h) /\ \A k \in Int : At(f, k) = At(h, k)
        /\ \A k \in Positions(h) : k \in Int
    BY <1>2, <1>4 DEF Positions, At
  <1>7. Mirrors(f) /\ Held(f) = Scheduled
    BY <1>2, <1>4, <1>6 DEF HeapOK, Mirrors, Held
  <1>8. ASSUME NEW c \in 1 .. Len(f.slice) - 1
        PROVE  NotAfter(tasks, f.order, At(f, Parent(c)), At(f, c))
    <2>1. c \in Int /\ Parent(c) \in Int /\ Fit(h, c)
      BY <1>2, <1>4, ParentIsBefore DEF HeapOK, Ordered
    <2> QED BY <1>2, <1>4, <1>6, <2>1 DEF Fit
  <1>9. HeapOK(g) /\ Held(g) = Scheduled /\ g.task = tasks' /\ g.order = order
    <2>1. index[i] \in Positions(f) /\ At(f, index[i]) = i
      BY <1>5, <1>6
    <2>2. PICK k \in Positions(f), T \in [Ids -> Task] : k = index[i] /\ T = tasks
      BY <1>1, <2>1
    <2>3. \A j \in Ids \ {At(f, k)} : f.task[j] = T[j]
      BY <1>3, <1>4, <2>1, <2>2
    <2>4. \A c \in 1 .. Len(f.slice) - 1 :
             NotAfter(T, f.order, At(f, Parent(c)), At(f, c))
      BY <1>8, <2>2
    <2>5. LET r == HeapFix(f, k)
          IN  /\ HeapOK(r) /\ Held(r) = Held(f)
              /\ r.task = f.task /\ r.order = f.order
      BY <1>4, <1>7, <2>3, <2>4, FixRepairs
    <2> QED BY <1>4, <1>7, <2>2, <2>5
  <1>10. HeapBecomes(g)
    BY DEF f
  <1> HIDE DEF g
  <1>11. /\ HeapOK(TheHeap)' /\ Held(TheHeap)' = Scheduled
         /\ heap' \in Seq(Ids) /\ index' \in [Ids -> -1 .. MaxTasks]
    BY <1>3, <1>9, <1>10, HeapAfter
  <1>12. Scheduled' = Scheduled
    <2>1. tasks[i].state = "scheduled"
      BY DEF Scheduled
    <2>2. \A j \in Ids : j \in Scheduled' <=> j \in Scheduled
      BY <1>1, <1>3, <2>1 DEF Scheduled
    <2>3. Scheduled \subseteq Ids /\ Scheduled' \subseteq Ids
      BY DEF Scheduled
    <2> QED BY <2>2, <2>3
  <1> QED BY <1>11, <1>12 DEF HeapState

-----------------------------------------------------------------------------
(* The operations on a stored task.                                        *)
LEMMA EndedTypes ==
  ASSUME NEW t \in Task
  PROVE  /\ LET u == [t EXCEPT !.state = "cancelled", !.cancelledAt = TRUE]
            IN  u \in Task /\ u.id = t.id /\ u.created = t.created
                /\ u.state = "cancelled"
         /\ LET u == [t EXCEPT !.state = "dispatched", !.dispatchedAt = TRUE]
            IN  u \in Task /\ u.id = t.id /\ u.created = t.created
                /\ u.state = "dispatched"
         /\ \A s \in {"done", "err"} :
               LET u == [t EXCEPT !.state = s, !.doneAt = TRUE]
               IN  u \in Task /\ u.id = t.id /\ u.created = t.created
                   /\ u.state = s
  BY DEF Task, States

LEMMA UpdateByIdChanges ==
  ASSUME IInv, NEW i \in Ids, NEW p \in UpdateByIdParam, UpdateById(i, p)
  PROVE  \E t \in Task : Changes(i, t)
  <1>1. /\ TypeOK /\ HeapState /\ i \in Scheduled /\ i \in Stored
        /\ tasks[i] \in Task /\ tasks[i].state = "scheduled" /\ use \in Uses
    BY DEF IInv, TypeOK, UpdateById, Scheduled, Stored
  <1> DEFINE t == Update(tasks[i], p)
  <1>2. PICK u \in Task : u = t
    <2>1. t \in Task
      BY <1>1, UpdateByIdType DEF UpdateByIdParam
    <2> QED BY <2>1
  <1>3. /\ u.id = tasks[i].id /\ u.state = tasks[i].state
        /\ u.created = tasks[i].created
        /\ u.cancelledAt = tasks[i].cancelledAt
    BY <1>1, <1>2, UpdateByIdType DEF UpdateByIdParam
  <1>4. /\ tasks' = [tasks EXCEPT ![i] = u]
        /\ HeapBecomes(HeapFix(Heap(tasks', order), index[i]))
        /\ Unlocked
        /\ UNCHANGED <<list, order, count, issued, clock, waiting, ioVars,
                       use, overlapped, loaded>>
    BY <1>2 DEF UpdateById, Accepted
  <1>5. /\ heap' \in Seq(Ids) /\ index' \in [Ids -> -1 .. MaxTasks]
        /\ HeapState'
    BY <1>1, <1>3, <1>4, FixMoves
  <1> QED BY <1>1, <1>3, <1>4, <1>5 DEF Changes

LEMMA RemovalChanges ==
  ASSUME IInv, NEW i \in Ids, Cancel(i) \/ MarkAsDispatched(i)
  PROVE  \E t \in Task : Changes(i, t)
  <1>1. /\ TypeOK /\ HeapState /\ i \in Scheduled /\ i \in Stored
        /\ tasks \in [Ids -> Task] /\ tasks[i] \in Task
    BY DEF IInv, TypeOK, Cancel, MarkAsDispatched, Scheduled, Stored
  <1>2. PICK t \in Task : /\ tasks' = [tasks EXCEPT ![i] = t]
                          /\ t.id = tasks[i].id /\ t.created = tasks[i].created
                          /\ t.state \in {"cancelled", "dispatched"}
    <2>1. CASE Cancel(i)
      <3> DEFINE u == [tasks[i] EXCEPT !.state = "cancelled",
                                       !.cancelledAt = TRUE]
      <3>1. u \in Task /\ u.id = tasks[i].id /\ u.created = tasks[i].created
            /\ u.state = "cancelled"
        BY <1>1, EndedTypes
      <3>2. tasks' = [tasks EXCEPT ![i] = u]
        BY <1>1, <2>1 DEF Cancel
      <3> HIDE DEF u
      <3> QED BY <3>1, <3>2
    <2>2. CASE MarkAsDispatched(i)
      <3> DEFINE u == [tasks[i] EXCEPT !.state = "dispatched",
                                       !.dispatchedAt = TRUE]
      <3>1. u \in Task /\ u.id = tasks[i].id /\ u.created = tasks[i].created
            /\ u.state = "dispatched"
        BY <1>1, EndedTypes
      <3>2. tasks' = [tasks EXCEPT ![i] = u]
        BY <1>1, <2>2 DEF MarkAsDispatched
      <3> HIDE DEF u
      <3> QED BY <3>1, <3>2
    <2> QED BY <2>1, <2>2
  <1>3. /\ HeapBecomes(HeapRemove(Heap(tasks, order), index[i]))
        /\ Unlocked
        /\ UNCHANGED <<list, order, count, issued, clock, waiting, ioVars,
                       use, overlapped, loaded>>
    BY DEF Cancel, MarkAsDispatched, Accepted
  <1>4. /\ heap' \in Seq(Ids) /\ index' \in [Ids -> -1 .. MaxTasks]
        /\ HeapState'
    BY <1>1, <1>2, <1>3, RemoveTakes
  <1> QED BY <1>1, <1>2, <1>3, <1>4 DEF Changes

LEMMA MarkAsDoneChanges ==
  ASSUME IInv, NEW i \in Ids, NEW result, MarkAsDone(i, result)
  PROVE  \E t \in Task : Changes(i, t)
  <1>1. /\ tasks[i].state = "dispatched" /\ i \in Stored
        /\ tasks \in [Ids -> Task] /\ tasks[i] \in Task
        /\ order \in [Ids -> 0 .. MaxTasks]
        /\ heap \in Seq(Ids) /\ index \in [Ids -> -1 .. MaxTasks]
        /\ heap' = heap /\ index' = index
    BY DEF IInv, TypeOK, MarkAsDone, Stored
  <1> DEFINE s == IF result = "nil" THEN "done" ELSE "err"
             u == [tasks[i] EXCEPT !.state = s, !.doneAt = TRUE]
  <1>2. u \in Task /\ u.id = tasks[i].id /\ u.created = tasks[i].created
        /\ u.state \in {"done", "err"}
    <2>1. s \in {"done", "err"}
      OBVIOUS
    <2>2. \A r \in {"done", "err"} :
             LET v == [tasks[i] EXCEPT !.state = r, !.doneAt = TRUE]
             IN  v \in Task /\ v.id = tasks[i].id
                 /\ v.created = tasks[i].created /\ v.state = r
      BY <1>1, EndedTypes
    <2> HIDE DEF s
    <2> QED BY <2>1, <2>2
  <1>3. tasks' = [tasks EXCEPT ![i] = u]
    BY <1>1 DEF MarkAsDone
  <1> HIDE DEF u
  <1>4. PICK t \in Task : /\ tasks' = [tasks EXCEPT ![i] = t]
                          /\ t.id = tasks[i].id /\ t.created = tasks[i].created
                          /\ t.state \in {"done", "err"}
    BY <1>2, <1>3
  <1>5. /\ Unlocked
        /\ UNCHANGED <<list, order, count, issued, clock, waiting, ioVars,
                       use, overlapped, loaded>>
    BY DEF MarkAsDone, Accepted
  <1>6. /\ tasks' \in [Ids -> Task] /\ tasks'[i] = t
        /\ \A j \in Ids \ {i} : tasks'[j] = tasks[j]
    BY <1>1, <1>4
  <1>7. Scheduled' = Scheduled /\ i \notin Scheduled
    BY <1>1, <1>4, <1>6 DEF Scheduled
  <1> DEFINE h == TheHeap
             g == TheHeap'
  <1>8. /\ HeapOK(h) /\ Held(h) = Scheduled /\ h.slice = heap
        /\ h.index = index /\ h.task = tasks /\ h.order = order
    BY HeapOfModule DEF IInv, HeapState, TheHeap
  <1>9. /\ g \in Heaps /\ g.slice = heap /\ g.index = index
        /\ g.task = tasks' /\ g.order = order
    BY <1>1, <1>5, <1>6 DEF TheHeap, Heap, Heaps
  <1> HIDE DEF h, g
  <1>10. HeapOK(g) /\ Held(g) = Scheduled
    <2>1. Scheduled \subseteq Ids \ {i}
      BY <1>7 DEF Scheduled
    <2> QED BY <1>6, <1>8, <1>9, <2>1, SameHeap
  <1>11. HeapState'
    BY <1>7, <1>10 DEF HeapState, g
  <1> QED BY <1>1, <1>4, <1>5, <1>11 DEF Changes

LEMMA ChangesKeeps ==
  ASSUME IInv, NEW i \in Ids, NEW t \in Task, Changes(i, t)
  PROVE  IInv'
  <1>1. /\ i \in Stored /\ tasks \in [Ids -> Task]
        /\ tasks' = [tasks EXCEPT ![i] = t] /\ loading = None
        /\ t.id = tasks[i].id /\ t.created = tasks[i].created
        /\ t.state # "absent"
        /\ t.state = "scheduled" => /\ tasks[i].state = "scheduled"
                                    /\ t.cancelledAt = tasks[i].cancelledAt
        /\ list' = list /\ order' = order /\ count' = count
        /\ issued' = issued /\ clock' = clock /\ waiting' = waiting
        /\ saved' = saved /\ savedNext' = savedNext /\ loading' = loading
        /\ use' = use /\ overlapped' = overlapped /\ loaded' = loaded
    BY DEF Changes, IInv, TypeOK, Unlocked, ioVars
  <1>2. /\ tasks' \in [Ids -> Task] /\ tasks'[i] = t
        /\ \A j \in Ids \ {i} : tasks'[j] = tasks[j]
    BY <1>1
  <1>3. Stored' = Stored
    <2>1. \A j \in Ids : j \in Stored' <=> j \in Stored
      BY <1>1, <1>2 DEF Stored
    <2>2. Stored \subseteq Ids /\ Stored' \subseteq Ids
      BY DEF Stored
    <2> QED BY <2>1, <2>2
  <1>4. /\ \A j \in Ids : /\ tasks'[j].id = tasks[j].id
                          /\ tasks'[j].created = tasks[j].created
        /\ \A j \in Scheduled' : /\ j \in Scheduled
                                 /\ tasks'[j].cancelledAt = tasks[j].cancelledAt
    BY <1>1, <1>2 DEF Scheduled
  <1>5. TypeOK'
    BY <1>1, <1>2 DEF IInv, TypeOK, Changes
  <1>6. HeapState'
    BY DEF Changes
  <1>7. MapState'
    <2>1. ToSet(list)' = Stored' /\ IsInjective(list)'
      BY <1>1, <1>3 DEF IInv, MapState, ListIsComplete, Stored
    <2>2. \A j \in Stored' : tasks'[j].id = j /\ j <= issued'
      BY <1>1, <1>3, <1>4 DEF IInv, MapState, Stored
    <2> QED BY <2>1, <2>2 DEF MapState, ListIsComplete, Stored
  <1>8. WaitingState' /\ SavedState'
    BY <1>1, <1>3 DEF IInv, WaitingState, SavedState
  <1>9. LoadingState'
    BY <1>1 DEF LoadingState
  <1>10. StampState'
    <2> SUFFICES ASSUME ~loaded PROVE StampState'
      BY <1>1 DEF StampState
    <2>1. /\ count = issued /\ loading = None
          /\ \A j \in Stored : order[j] = j
          /\ \A j \in Scheduled : ~tasks[j].cancelledAt
          /\ \A w \in waiting : w.order = w.task.id
          /\ \A u \in Known : u.created <= clock
          /\ \A u, v \in Known : u.id < v.id => u.created <= v.created
      BY DEF IInv, StampState
    <2>2. \A u \in Known' : \E v \in Known : u.id = v.id /\ u.created = v.created
      BY <1>1, <1>3, <1>4 DEF Known, Stored
    <2>3. /\ \A u \in Known' : u.created <= clock
          /\ \A u, v \in Known' : u.id < v.id => u.created <= v.created
      <3> HIDE DEF Known
      <3> QED BY <2>1, <2>2
    <2>4. \A j \in Scheduled' : ~tasks'[j].cancelledAt
      BY <1>4, <2>1
    <2> QED BY <1>1, <1>3, <2>1, <2>3, <2>4 DEF StampState
  <1>11. OrderState' /\ SavedNextState'
    BY <1>1 DEF IInv, OrderState, SavedNextState, SavedScheduled, SavedBefore
  <1> QED BY <1>5, <1>6, <1>7, <1>8, <1>9, <1>10, <1>11 DEF IInv

-----------------------------------------------------------------------------
(* The other steps.                                                        *)
LEMMA EmptyStore ==
  ASSUME NEW T, T = [i \in Ids |-> NoTask]
  PROVE  /\ T \in [Ids -> Task]
         /\ \A i \in Ids : T[i].state = "absent"
  BY NoTaskType DEF NoTask

LEMMA InitIInv == Init => IInv
  <1> SUFFICES ASSUME Init PROVE IInv
    OBVIOUS
  <1>1. /\ tasks \in [Ids -> Task] /\ \A i \in Ids : tasks[i].state = "absent"
        /\ list = <<>> /\ order = [i \in Ids |-> 0]
        /\ index = [i \in Ids |-> 0] /\ heap = <<>> /\ count = 0
        /\ issued = 0 /\ clock \in CreationTimes /\ waiting = {}
        /\ saved = <<>> /\ savedNext = 0 /\ loading = None /\ use \in Uses
        /\ overlapped = FALSE /\ loaded = FALSE
    BY EmptyStore DEF Init
  <1>2. Stored = {} /\ Scheduled = {}
    BY <1>1 DEF Stored, Scheduled
  <1>3. TypeOK
    <2>1. 0 \in 0 .. MaxTasks /\ 0 \in -1 .. MaxTasks
      BY TasksAssumption
    <2>2. \A S : <<>> \in Seq(S)
      OBVIOUS
    <2> QED BY <1>1, <2>1, <2>2 DEF TypeOK
  <1>4. HeapState
    <2> DEFINE h == TheHeap
    <2>1. h \in Heaps /\ h.slice = <<>>
      BY <1>1, <1>3, HeapOfModule DEF TypeOK, TheHeap
    <2>2. Positions(h) = {} /\ Len(h.slice) = 0
      BY <2>1 DEF Positions
    <2> HIDE DEF h
    <2>3. HeapOK(h) /\ Held(h) = {}
      BY <2>1, <2>2 DEF HeapOK, Held, Mirrors, Ordered
    <2> QED BY <1>2, <2>3 DEF HeapState, h
  <1>5. MapState
    BY <1>1, <1>2 DEF MapState, ListIsComplete, ToSet, IsInjective, Stored
  <1>6. WaitingState /\ SavedState /\ LoadingState
    BY <1>1 DEF WaitingState, SavedState, LoadingState
  <1>7. StampState
    BY <1>1, <1>2 DEF StampState, Known
  <1>8. OrderState /\ SavedNextState
    BY <1>1 DEF OrderState, SavedNextState, SavedScheduled
  <1> QED BY <1>3, <1>4, <1>5, <1>6, <1>7, <1>8 DEF IInv

(* What a step does not touch stays true. *)
LEMMA StoreUnchanged ==
  ASSUME IInv, UNCHANGED storeVars, issued' \in Int, issued <= issued'
  PROVE  /\ HeapState' /\ MapState' /\ Stored' = Stored
         /\ Scheduled' = Scheduled
  <1>1. /\ tasks' = tasks /\ list' = list /\ order' = order
        /\ index' = index /\ heap' = heap
    BY DEF storeVars
  <1>2. Stored' = Stored /\ Scheduled' = Scheduled
    BY <1>1 DEF Stored, Scheduled
  <1>3. TheHeap' = TheHeap
    BY <1>1 DEF TheHeap, Heap
  <1>4. HeapState'
    BY <1>2, <1>3 DEF IInv, HeapState
  <1>5. ListIsComplete'
    BY <1>1 DEF IInv, MapState, ListIsComplete
  <1>6. \A i \in Stored' : tasks'[i].id = i /\ i <= issued'
    BY <1>1, <1>2 DEF IInv, MapState, TypeOK, Stored, Ids
  <1> QED BY <1>2, <1>4, <1>5, <1>6 DEF MapState

(* Every stored and every stamped task has a time, and an id in use. *)
LEMMA KnownTypes ==
  ASSUME IInv, NEW t \in Known
  PROVE  t \in Task /\ t.id \in 1 .. issued /\ t.created \in Int
  <1>1. t \in Task /\ t.id \in 1 .. issued
    <2>1. CASE \E i \in Stored : t = tasks[i]
      <3>1. PICK i \in Stored : t = tasks[i]
        BY <2>1
      <3>2. i \in Ids /\ tasks \in [Ids -> Task]
        BY <3>1 DEF IInv, TypeOK, Stored
      <3>3. tasks[i].id = i /\ i <= issued /\ i \in Nat /\ i >= 1 /\ issued \in Nat
        BY <3>1, <3>2 DEF IInv, MapState, TypeOK, Ids
      <3> QED BY <3>1, <3>2, <3>3
    <2>2. CASE \E w \in waiting : t = w.task
      BY <2>2 DEF IInv, WaitingState, TypeOK, Stamped
    <2> QED BY <2>1, <2>2 DEF Known
  <1> QED BY <1>1, TaskFields

LEMMA StampKeeps ==
  ASSUME IInv, Stamp
  PROVE  IInv'
  <1>1. PICK p \in AddParam, c \in CreationTimes :
           /\ clock <= c /\ clock' = c
           /\ waiting' = waiting \cup {[task |-> ToTask(p, issued + 1, c),
                                        order |-> count + 1]}
    BY DEF Stamp
  <1>2. /\ issued < MaxTasks /\ count < MaxTasks
        /\ issued' = issued + 1 /\ count' = count + 1
        /\ overlapped' = (overlapped \/ waiting # {} \/ ~Unlocked)
        /\ UNCHANGED storeVars
        /\ saved' = saved /\ savedNext' = savedNext /\ loading' = loading
        /\ use' = use /\ loaded' = loaded
        /\ tasks' = tasks /\ list' = list /\ order' = order
        /\ index' = index /\ heap' = heap
    BY DEF Stamp, ioVars, storeVars
  <1>3. /\ count \in 0 .. MaxTasks /\ issued \in 0 .. MaxTasks
        /\ waiting \subseteq Stamped /\ clock \in CreationTimes
        /\ overlapped \in BOOLEAN
    BY DEF IInv, TypeOK
  <1>4. /\ issued + 1 \in Ids /\ issued + 1 \in 0 .. MaxTasks
        /\ count + 1 \in 0 .. MaxTasks /\ MaxTasks \in Nat
        /\ \A d \in CreationTimes : d \in Int /\ d \in 0 .. FarFuture
    BY <1>2, <1>3, TasksAssumption, InMemoryAssumption DEF Ids
  <1>5. PICK t \in Task : t = ToTask(p, issued + 1, c)
    BY <1>4, Restamped
  <1>6. /\ t.id = issued + 1 /\ t.created = c
    BY <1>4, <1>5, Restamped
  <1>7. PICK ord \in 0 .. MaxTasks : ord = count + 1
    BY <1>4
  <1> DEFINE s == [task |-> t, order |-> ord]
  <1>8. s \in Stamped /\ waiting' = waiting \cup {s}
        /\ s.task = t /\ s.order = ord
    BY <1>1, <1>5, <1>7 DEF Stamped
  <1> HIDE DEF s
  <1>9. HeapState' /\ MapState' /\ Stored' = Stored /\ Scheduled' = Scheduled
    BY <1>2, <1>3, <1>4, StoreUnchanged
  <1>10. TypeOK'
    BY <1>1, <1>2, <1>3, <1>4, <1>8 DEF IInv, TypeOK
  <1>11. WaitingState'
    <2>1. \A i \in Stored : i <= issued
      BY DEF IInv, MapState
    <2>2. issued + 1 \in (1 .. issued + 1) \ Stored
      BY <1>3, <2>1
    <2>3. ASSUME NEW w \in waiting
          PROVE  /\ w.task.id \in (1 .. issued + 1) \ Stored
                 /\ w.task.id # issued + 1
                 /\ \E q \in AddParam :
                       w.task = ToTask(q, w.task.id, w.task.created)
                 /\ \A k \in DOMAIN saved : saved[k].id # w.task.id
      BY <1>3 DEF IInv, WaitingState
    <2>4. \A k \in DOMAIN saved : saved[k].id # issued + 1
      BY <1>3 DEF IInv, SavedState
    <2>5. t = ToTask(p, t.id, t.created)
      BY <1>5, <1>6
    <2>6. ASSUME NEW w \in waiting'
          PROVE  /\ w.task.id \in (1 .. issued') \ Stored'
                 /\ \E q \in AddParam :
                       w.task = ToTask(q, w.task.id, w.task.created)
                 /\ \A k \in DOMAIN saved' : saved'[k].id # w.task.id
      BY <1>2, <1>6, <1>8, <1>9, <2>2, <2>3, <2>4, <2>5
    <2>7. ASSUME NEW v \in waiting', NEW w \in waiting', v.task.id = w.task.id
          PROVE  v = w
      BY <1>6, <1>8, <2>3, <2>7 DEF IInv, WaitingState
    <2> QED BY <2>6, <2>7 DEF WaitingState
  <1>12. SavedState'
    BY <1>2, <1>3 DEF IInv, SavedState
  <1>13. LoadingState'
    BY <1>2 DEF IInv, LoadingState
  <1>14. StampState'
    <2> SUFFICES ASSUME ~loaded PROVE StampState'
      BY <1>2 DEF StampState
    <2>1. /\ count = issued /\ loading = None
          /\ \A j \in Stored : order[j] = j
          /\ \A j \in Scheduled : ~tasks[j].cancelledAt
          /\ \A w \in waiting : w.order = w.task.id
          /\ \A u \in Known : u.created <= clock
          /\ \A u, v \in Known : u.id < v.id => u.created <= v.created
      BY DEF IInv, StampState
    <2>2. Known' = Known \cup {t}
      BY <1>2, <1>8, <1>9 DEF Known
    <2>3. ASSUME NEW u \in Known
          PROVE  u.created <= c /\ u.id < t.id /\ u.created \in Int
      BY <1>1, <1>3, <1>4, <1>6, <2>1, KnownTypes
    <2>4. /\ \A u \in Known' : u.created <= clock'
          /\ \A u, v \in Known' : u.id < v.id => u.created <= v.created
      <3>1. ~(t.id < t.id) /\ \A u \in Known : ~(t.id < u.id)
        BY <1>3, <1>6, <2>3, KnownTypes
      <3>2. c <= c
        BY <1>4
      <3> HIDE DEF Known
      <3> QED BY <1>1, <1>6, <2>1, <2>2, <2>3, <3>1, <3>2
    <2>5. \A w \in waiting' : w.order = w.task.id
      BY <1>6, <1>7, <1>8, <2>1
    <2> QED BY <1>2, <1>9, <2>1, <2>4, <2>5 DEF StampState
  <1>15. OrderState'
    <2> SUFFICES ASSUME ~overlapped' PROVE OrderState'
      BY DEF OrderState
    <2>1. ~overlapped /\ waiting = {} /\ loading = None
      BY <1>2, <1>3 DEF Unlocked
    <2>2. ASSUME NEW k \in DOMAIN list
          PROVE  order[list[k]] <= count /\ order[list[k]] \in Int
      BY <2>1 DEF IInv, OrderState, TypeOK
    <2>3. \A k \in DOMAIN list : order[list[k]] < ord /\ order[list[k]] <= ord
      BY <1>3, <1>7, <2>2
    <2>4. waiting' = {s} /\ ord <= ord
      BY <1>7, <1>8, <2>1
    <2>5. \A j, k \in DOMAIN list : j < k => order[list[j]] < order[list[k]]
      BY <2>1 DEF IInv, OrderState
    <2> QED BY <1>2, <1>7, <1>8, <2>1, <2>3, <2>4, <2>5 DEF OrderState
  <1>16. SavedNextState'
    BY <1>2, <1>3 DEF IInv, SavedNextState, SavedScheduled, SavedBefore
  <1> QED BY <1>9, <1>10, <1>11, <1>12, <1>13, <1>14, <1>15, <1>16 DEF IInv

LEMMA ListFacts ==
  ASSUME IInv
  PROVE  /\ list \in Seq(Ids) /\ Len(list) \in Nat
         /\ DOMAIN list = 1 .. Len(list)
         /\ \A k \in DOMAIN list : list[k] \in Stored /\ list[k] \in Ids
         /\ \A i \in Stored : \E k \in DOMAIN list : list[k] = i
         /\ \A j, k \in DOMAIN list : list[j] = list[k] => j = k
  <1>1. list \in Seq(Ids) /\ ToSet(list) = Stored /\ IsInjective(list)
    BY DEF IInv, TypeOK, MapState, ListIsComplete, Stored
  <1>2. Len(list) \in Nat /\ DOMAIN list = 1 .. Len(list)
    BY <1>1, LenProperties
  <1>3. \A k \in DOMAIN list : list[k] \in Stored /\ list[k] \in Ids
    BY <1>1 DEF ToSet, Stored
  <1>4. \A i \in Stored : \E k \in DOMAIN list : list[k] = i
    BY <1>1 DEF ToSet
  <1> QED BY <1>1, <1>2, <1>3, <1>4 DEF IsInjective

LEMMA InsertKeeps ==
  ASSUME IInv, Insert
  PROVE  IInv'
  <1>1. PICK w \in waiting : /\ Store(w.task, w.order, TRUE)
                             /\ waiting' = waiting \ {w}
    BY DEF Insert
  <1>2. /\ loading = None /\ count' = count /\ issued' = issued
        /\ clock' = clock /\ saved' = saved /\ savedNext' = savedNext
        /\ loading' = loading /\ use' = use /\ overlapped' = overlapped
        /\ loaded' = loaded
    BY DEF Insert, Unlocked, ioVars
  <1> DEFINE t == w.task
             i == w.task.id
  <1>3. /\ TypeOK /\ HeapState /\ MapState /\ issued \in 0 .. MaxTasks
        /\ t \in Task /\ w.order \in 0 .. MaxTasks
        /\ CreationTimes \subseteq Int
    BY InMemoryAssumption DEF IInv, TypeOK, Stamped, FarFuture
  <1>4. PICK p \in AddParam : t = ToTask(p, i, t.created)
    BY DEF IInv, WaitingState
  <1>5. i \in (1 .. issued) \ Stored
    BY DEF IInv, WaitingState
  <1>6. i \in Ids /\ i \notin Stored /\ i <= issued
    <2> HIDE DEF t, i
    <2> QED BY <1>3, <1>5, TasksAssumption DEF Ids
  <1>7. t.state = "scheduled" /\ ~t.cancelledAt
    <2>1. p \in UpdateParam /\ i \in 0 .. MaxTasks
      BY <1>6 DEF AddParam, Ids
    <2>2. t.created \in 0 .. FarFuture
      BY <1>3 DEF Task
    <2> HIDE DEF t, i
    <2> QED BY <1>4, <2>1, <2>2, ToTaskType
  <1>8. /\ tasks' \in [Ids -> Task] /\ order' \in [Ids -> 0 .. MaxTasks]
        /\ index' \in [Ids -> -1 .. MaxTasks] /\ heap' \in Seq(Ids)
        /\ list' \in Seq(Ids) /\ list' = Append(list, i)
        /\ tasks'[i] = t /\ order'[i] = w.order
        /\ \A j \in Ids \ {i} : tasks'[j] = tasks[j] /\ order'[j] = order[j]
        /\ Stored' = Stored \cup {i} /\ HeapState' /\ MapState'
    <2>1. /\ Store(t, w.order, t.state = "scheduled")
          /\ issued' \in 0 .. MaxTasks /\ issued <= issued' /\ i <= issued'
      <3>1. Store(t, w.order, t.state = "scheduled")
        BY <1>1, <1>7 DEF Store
      <3> HIDE DEF i
      <3> QED BY <1>2, <1>3, <1>6, <3>1
    <2>2. t.state # "absent" /\ i \in Ids \ Stored
      BY <1>6, <1>7
    <2> HIDE DEF t
    <2> QED BY <1>3, <2>1, <2>2, StoreAdds DEF t
  <1> HIDE DEF t, i
  <1>9. Stored \subseteq Ids \ {i} /\ i = w.task.id /\ t = w.task
    BY <1>6 DEF Stored, i, t
  <1>10. TypeOK'
    BY <1>1, <1>2, <1>3, <1>8 DEF TypeOK
  <1>11. WaitingState'
    <2>1. \A v \in waiting' : v \in waiting /\ v.task.id # i
      BY <1>1, <1>9 DEF IInv, WaitingState
    <2> QED BY <1>2, <1>8, <2>1 DEF IInv, WaitingState
  <1>12. SavedState' /\ LoadingState' /\ SavedNextState'
    BY <1>2 DEF IInv, SavedState, LoadingState, SavedNextState,
                SavedScheduled, SavedBefore
  <1>13. StampState'
    <2> SUFFICES ASSUME ~loaded PROVE StampState'
      BY <1>2 DEF StampState
    <2>1. /\ count = issued /\ loading = None
          /\ \A j \in Stored : order[j] = j
          /\ \A j \in Scheduled : ~tasks[j].cancelledAt
          /\ \A v \in waiting : v.order = v.task.id
          /\ \A u \in Known : u.created <= clock
          /\ \A u, v \in Known : u.id < v.id => u.created <= v.created
      BY DEF IInv, StampState
    <2>2. \A u \in Known' : u \in Known
      <3>1. \A j \in Stored : tasks'[j] \in Known
        BY <1>8, <1>9 DEF Known
      <3>2. tasks'[i] \in Known /\ \A v \in waiting' : v.task \in Known
        BY <1>1, <1>8, <1>9 DEF Known
      <3>3. \A u \in Known' : \/ \E j \in Stored' : u = tasks'[j]
                             \/ \E v \in waiting' : u = v.task
        BY DEF Known
      <3> HIDE DEF Known
      <3> QED BY <1>8, <3>1, <3>2, <3>3
    <2>3. \A j \in Stored' : order'[j] = j
      BY <1>8, <1>9, <2>1
    <2>4. \A j \in Scheduled' : ~tasks'[j].cancelledAt
      BY <1>7, <1>8, <2>1 DEF Scheduled
    <2>5. /\ \A u \in Known' : u.created <= clock
          /\ \A u, v \in Known' : u.id < v.id => u.created <= v.created
      <3> HIDE DEF Known
      <3> QED BY <2>1, <2>2
    <2> QED BY <1>1, <1>2, <2>1, <2>3, <2>4, <2>5 DEF StampState
  <1>14. OrderState'
    <2> SUFFICES ASSUME ~overlapped PROVE OrderState'
      BY <1>2 DEF OrderState
    <2>1. /\ \A v \in waiting : v = w
          /\ \A k \in DOMAIN list : order[list[k]] <= count
          /\ \A j, k \in DOMAIN list : j < k => order[list[j]] < order[list[k]]
          /\ w.order <= count
          /\ \A k \in DOMAIN list : order[list[k]] < w.order
      BY DEF IInv, OrderState
    <2>2. waiting' = {}
      BY <1>1, <2>1
    <2>3. /\ DOMAIN list = 1 .. Len(list) /\ Len(list) \in Nat
          /\ \A k \in DOMAIN list : list[k] \in Stored
      BY ListFacts
    <2>4. /\ DOMAIN list' = 1 .. Len(list) + 1
          /\ list'[Len(list) + 1] = i
          /\ \A k \in 1 .. Len(list) : list'[k] = list[k]
      <3>1. list \in Seq(Ids) /\ i \in Ids
        BY <1>6, ListFacts DEF i
      <3> QED BY <1>8, <3>1, AppendProperties
    <2>5. ASSUME NEW k \in DOMAIN list'
          PROVE  \/ k = Len(list) + 1 /\ order'[list'[k]] = w.order
                 \/ k \in DOMAIN list /\ order'[list'[k]] = order[list[k]]
      <3>1. CASE k = Len(list) + 1
        BY <1>8, <2>4, <3>1
      <3>2. CASE k # Len(list) + 1
        <4>1. k \in DOMAIN list /\ list'[k] = list[k]
          BY <2>3, <2>4, <3>2
        <4> QED BY <1>8, <1>9, <2>3, <4>1
      <3> QED BY <3>1, <3>2
    <2>6. \A k \in DOMAIN list' : order'[list'[k]] <= count
      BY <2>1, <2>5
    <2>7. ASSUME NEW j \in DOMAIN list', NEW k \in DOMAIN list', j < k
          PROVE  order'[list'[j]] < order'[list'[k]]
      <3>1. j # Len(list) + 1
        BY <2>3, <2>4, <2>7
      <3>2. j \in DOMAIN list /\ order'[list'[j]] = order[list[j]]
        BY <2>5, <3>1
      <3>3. CASE k = Len(list) + 1 /\ order'[list'[k]] = w.order
        BY <2>1, <3>2, <3>3
      <3>4. CASE k \in DOMAIN list /\ order'[list'[k]] = order[list[k]]
        BY <2>1, <2>7, <3>2, <3>4
      <3> QED BY <2>5, <3>3, <3>4
    <2> QED BY <1>2, <2>2, <2>6, <2>7 DEF OrderState
  <1> QED BY <1>8, <1>10, <1>11, <1>12, <1>13, <1>14 DEF IInv

(* The root of the heap is the first of the scheduled tasks. *)
LEMMA NextIsFirst ==
  ASSUME IInv
  PROVE  \/ GetNext = 0 /\ heap = <<>> /\ Scheduled = {}
         \/ /\ GetNext \in Scheduled /\ GetNext # 0 /\ GetNext = At(TheHeap, 0)
            /\ \A i \in Scheduled : NotAfter(tasks, order, GetNext, i)
  <1> DEFINE h == TheHeap
  <1>1. /\ HeapOK(h) /\ Held(h) = Scheduled /\ h.slice = heap
        /\ h.task = tasks /\ h.order = order /\ heap \in Seq(Ids)
    BY HeapOfModule DEF IInv, HeapState, TypeOK, TheHeap
  <1>2. Len(heap) \in Nat /\ (Len(heap) = 0 <=> heap = <<>>)
    BY <1>1, LenProperties, EmptySeq
  <1>3. CASE heap = <<>>
    <2>1. Positions(h) = {}
      BY <1>1, <1>2, <1>3 DEF Positions
    <2> HIDE DEF h
    <2> QED BY <1>1, <1>3, <2>1 DEF Held, GetNext
  <1>4. CASE heap # <<>>
    <2>1. 0 \in Positions(h)
      BY <1>1, <1>2, <1>4 DEF Positions
    <2>2. GetNext = At(h, 0)
      BY <1>1, <1>4 DEF GetNext, At
    <2> HIDE DEF h
    <2>3. GetNext \in Scheduled
      BY <1>1, <2>1, <2>2 DEF Held
    <2>4. ASSUME NEW i \in Scheduled
          PROVE  NotAfter(tasks, order, GetNext, i)
      <3>1. PICK k \in Positions(h) : i = At(h, k)
        BY <1>1 DEF Held
      <3> QED BY <1>1, <2>2, <3>1, RootIsFirst
    <2>5. GetNext # 0
      BY <2>3 DEF Scheduled, Ids
    <2> QED BY <2>2, <2>3, <2>4, <2>5 DEF h
  <1> QED BY <1>3, <1>4

LEMMA SaveKeeps ==
  ASSUME IInv, Save
  PROVE  IInv'
  <1>1. /\ saved' = [k \in DOMAIN list |-> tasks[list[k]]]
        /\ savedNext' = GetNext /\ UNCHANGED storeVars
        /\ tasks' = tasks /\ list' = list /\ order' = order
        /\ index' = index /\ heap' = heap
        /\ loading = None /\ count' = count /\ issued' = issued
        /\ clock' = clock /\ waiting' = waiting
        /\ loading' = loading /\ use' = use /\ overlapped' = overlapped
        /\ loaded' = loaded
    BY DEF Save, Unlocked, storeVars
  <1>2. /\ tasks \in [Ids -> Task] /\ issued \in 0 .. MaxTasks
        /\ order \in [Ids -> 0 .. MaxTasks]
    BY DEF IInv, TypeOK
  <1>3. /\ list \in Seq(Ids) /\ Len(list) \in Nat
        /\ DOMAIN list = 1 .. Len(list)
        /\ \A k \in DOMAIN list : list[k] \in Stored /\ list[k] \in Ids
        /\ \A i \in Stored : \E k \in DOMAIN list : list[k] = i
        /\ \A j, k \in DOMAIN list : list[j] = list[k] => j = k
    BY ListFacts
  <1>4. /\ saved' \in Seq(Task) /\ DOMAIN saved' = DOMAIN list
        /\ \A k \in DOMAIN list : saved'[k] = tasks[list[k]]
    <2>1. saved' \in [1 .. Len(list) -> Task]
      BY <1>1, <1>2, <1>3
    <2> QED BY <1>1, <1>3, <2>1
  <1>5. \A i \in Stored : /\ tasks[i].id = i /\ i <= issued
                          /\ tasks[i].state # "absent" /\ i \in 1 .. issued
    BY <1>2 DEF IInv, MapState, Stored, Ids
  <1>6. HeapState' /\ MapState' /\ Stored' = Stored /\ Scheduled' = Scheduled
    BY <1>1, <1>2, StoreUnchanged
  <1>7. TypeOK'
    <2>1. GetNext \in 0 .. MaxTasks
      <3>1. GetNext = 0 \/ GetNext \in Scheduled
        BY NextIsFirst
      <3> QED BY <3>1, TasksAssumption DEF Scheduled, Ids
    <2> QED BY <1>1, <1>4, <2>1 DEF IInv, TypeOK
  <1>8. WaitingState'
    <2>1. ASSUME NEW w \in waiting, NEW k \in DOMAIN saved'
          PROVE  saved'[k].id # w.task.id
      <3>1. w.task.id \notin Stored
        BY DEF IInv, WaitingState
      <3> QED BY <1>3, <1>4, <1>5, <3>1
    <2> QED BY <1>1, <1>6, <2>1 DEF IInv, WaitingState
  <1>9. SavedState'
    BY <1>1, <1>3, <1>4, <1>5 DEF SavedState
  <1>10. LoadingState'
    BY <1>1 DEF LoadingState
  <1>11. StampState' /\ OrderState'
    <2>1. Known' = Known
      BY <1>1, <1>6 DEF Known
    <2> QED BY <1>1, <1>6, <2>1 DEF IInv, StampState, OrderState
  <1>12. SavedNextState'
    <2> SUFFICES ASSUME ~overlapped PROVE SavedNextState'
      BY <1>1 DEF SavedNextState
    <2>1. \A k \in DOMAIN list : k \in SavedScheduled' <=> list[k] \in Scheduled
      BY <1>3, <1>4 DEF SavedScheduled, Scheduled
    <2>2. SavedScheduled' \subseteq DOMAIN list
      BY <1>4 DEF SavedScheduled
    <2>3. CASE GetNext = 0 /\ Scheduled = {}
      BY <1>1, <2>1, <2>2, <2>3 DEF SavedNextState
    <2>4. CASE /\ GetNext \in Scheduled
               /\ \A i \in Scheduled : NotAfter(tasks, order, GetNext, i)
      <3>1. GetNext \in Stored
        BY <2>4 DEF Scheduled, Stored
      <3>2. PICK k \in DOMAIN list : list[k] = GetNext
        BY <1>3, <3>1
      <3>3. k \in SavedScheduled' /\ saved'[k].id = savedNext'
        BY <1>1, <1>4, <1>5, <2>1, <2>4, <3>1, <3>2
      <3>4. ASSUME NEW j \in SavedScheduled'
            PROVE  ~SavedBefore(j, k)'
        <4>1. j \in DOMAIN list /\ list[j] \in Scheduled
          BY <2>1, <2>2
        <4>2. ~Sooner(tasks, order, list[j], list[k])
          BY <2>4, <3>2, <4>1 DEF NotAfter
        <4>3. j < k => order[list[j]] < order[list[k]]
          BY <4>1 DEF IInv, OrderState
        <4> QED BY <1>4, <4>1, <4>2, <4>3 DEF SavedBefore, Sooner
      <3> QED BY <3>3, <3>4 DEF SavedNextState
    <2> QED BY <2>3, <2>4, NextIsFirst
  <1> QED BY <1>6, <1>7, <1>8, <1>9, <1>10, <1>11, <1>12 DEF IInv

LEMMA LoadInitKeeps ==
  ASSUME IInv, LoadInit
  PROVE  IInv'
  <1>1. /\ tasks' \in [Ids -> Task] /\ \A i \in Ids : tasks'[i].state = "absent"
        /\ list' = <<>> /\ heap' = <<>>
        /\ order' = [i \in Ids |-> 0] /\ index' = [i \in Ids |-> 0]
        /\ count' = 0 /\ loading' = saved /\ loaded' = TRUE
        /\ overlapped' = (overlapped \/ waiting # {})
        /\ issued' = issued /\ clock' = clock /\ waiting' = waiting
        /\ saved' = saved /\ savedNext' = savedNext /\ use' = use
    BY EmptyStore DEF LoadInit
  <1>2. Stored' = {} /\ Scheduled' = {}
    BY <1>1 DEF Stored, Scheduled
  <1>3. TypeOK'
    <2>1. 0 \in 0 .. MaxTasks /\ 0 \in -1 .. MaxTasks
      BY TasksAssumption
    <2>2. \A S : <<>> \in Seq(S)
      OBVIOUS
    <2> QED BY <1>1, <2>1, <2>2 DEF IInv, TypeOK
  <1>4. HeapState'
    <2> DEFINE h == TheHeap'
    <2>1. h \in Heaps /\ h.slice = <<>>
      BY <1>1, <1>3 DEF TypeOK, TheHeap, Heap, Heaps
    <2>2. Positions(h) = {} /\ Len(h.slice) = 0
      BY <2>1 DEF Positions
    <2> HIDE DEF h
    <2>3. HeapOK(h) /\ Held(h) = {}
      BY <2>1, <2>2 DEF HeapOK, Held, Mirrors, Ordered
    <2> QED BY <1>2, <2>3 DEF HeapState, h
  <1>5. MapState'
    BY <1>1, <1>2 DEF MapState, ListIsComplete, ToSet, IsInjective, Stored
  <1>6. WaitingState'
    BY <1>1, <1>2 DEF IInv, WaitingState
  <1>7. SavedState' /\ SavedNextState'
    <2>1. ~overlapped' => ~overlapped
      BY <1>1
    <2>2. SavedState'
      BY <1>1 DEF IInv, SavedState
    <2>3. SavedScheduled' = SavedScheduled
          /\ \A j, k : SavedBefore(j, k)' <=> SavedBefore(j, k)
      BY <1>1 DEF SavedScheduled, SavedBefore
    <2> QED BY <1>1, <2>1, <2>2, <2>3 DEF IInv, SavedNextState
  <1>8. LoadingState'
    <2>1. Len(saved) \in Nat /\ DOMAIN saved = 1 .. Len(saved)
      BY LenProperties DEF IInv, TypeOK
    <2>2. Len(list') = 0 /\ DOMAIN list' = {}
      BY <1>1
    <2>3. \A k \in DOMAIN saved : 0 + k = k
      BY <2>1
    <2> QED BY <1>1, <2>1, <2>2, <2>3 DEF LoadingState
  <1>9. StampState'
    BY <1>1 DEF StampState
  <1>10. OrderState'
    <2> SUFFICES ASSUME ~overlapped' PROVE OrderState'
      BY DEF OrderState
    <2>1. waiting' = {}
      BY <1>1
    <2>2. DOMAIN list' = {}
      BY <1>1
    <2> QED BY <2>1, <2>2 DEF OrderState
  <1> QED BY <1>3, <1>4, <1>5, <1>6, <1>7, <1>8, <1>9, <1>10 DEF IInv

LEMMA LoadEntryKeeps ==
  ASSUME IInv, LoadEntry
  PROVE  IInv'
  <1>1. /\ loading # None /\ loading # <<>> /\ count < MaxTasks
        /\ count' = count + 1 /\ loading' = Tail(loading)
        /\ issued' = issued /\ clock' = clock /\ waiting' = waiting
        /\ saved' = saved /\ savedNext' = savedNext /\ use' = use
        /\ overlapped' = overlapped /\ loaded' = loaded
    BY DEF LoadEntry, Unlocked
  <1>2. /\ TypeOK /\ HeapState /\ MapState /\ issued \in 0 .. MaxTasks
        /\ count \in 0 .. MaxTasks /\ loading \in Seq(Task)
        /\ saved \in Seq(Task)
    BY <1>1 DEF IInv, TypeOK
  <1>3. /\ list \in Seq(Ids) /\ Len(list) \in Nat
        /\ DOMAIN list = 1 .. Len(list)
        /\ \A k \in DOMAIN list : list[k] \in Stored /\ list[k] \in Ids
        /\ \A i \in Stored : \E k \in DOMAIN list : list[k] = i
        /\ \A j, k \in DOMAIN list : list[j] = list[k] => j = k
    BY ListFacts
  <1>4. /\ Len(loading) \in Nat /\ Len(loading) > 0
        /\ DOMAIN loading = 1 .. Len(loading) /\ 1 \in DOMAIN loading
        /\ Len(saved) \in Nat /\ DOMAIN saved = 1 .. Len(saved)
        /\ Head(loading) = loading[1] /\ loading[1] \in Task
    BY <1>1, <1>2, LenProperties, EmptySeq
  <1>5. /\ Len(list) + Len(loading) = Len(saved)
        /\ \A k \in DOMAIN list : /\ list[k] = saved[k].id
                                  /\ tasks[list[k]] = saved[k]
        /\ \A k \in DOMAIN loading : loading[k] = saved[Len(list) + k]
    BY <1>1 DEF IInv, LoadingState
  <1>6. PICK t \in Task, ord \in 0 .. MaxTasks :
           t = Head(loading) /\ ord = count + 1
    <2>1. count + 1 \in 0 .. MaxTasks
      BY <1>1, <1>2, TasksAssumption
    <2> QED BY <1>4, <2>1
  <1> DEFINE n == Len(list) + 1
             i == t.id
  <1>7. n \in DOMAIN saved /\ t = saved[n]
    BY <1>3, <1>4, <1>5, <1>6
  <1>8. /\ i \in 1 .. issued /\ t.state # "absent" /\ loaded
    BY <1>1, <1>7 DEF IInv, SavedState, StampState
  <1>9. i \in Ids /\ i <= issued /\ i \notin Stored
    <2>1. i \in Ids /\ i <= issued
      <3> HIDE DEF i
      <3> QED BY <1>2, <1>8, TasksAssumption DEF Ids
    <2>2. ASSUME NEW k \in DOMAIN list
          PROVE  list[k] # i
      <3>1. k # n /\ k \in DOMAIN saved
        BY <1>3, <1>4, <1>5
      <3>2. saved[k].id # saved[n].id
        <4> HIDE DEF n
        <4> QED BY <1>7, <3>1 DEF IInv, SavedState
      <3> QED BY <1>5, <1>7, <3>2
    <2> HIDE DEF i
    <2> QED BY <1>3, <2>1, <2>2
  <1>10. /\ tasks' \in [Ids -> Task] /\ order' \in [Ids -> 0 .. MaxTasks]
         /\ index' \in [Ids -> -1 .. MaxTasks] /\ heap' \in Seq(Ids)
         /\ list' \in Seq(Ids) /\ list' = Append(list, i)
         /\ tasks'[i] = t /\ order'[i] = ord
         /\ \A j \in Ids \ {i} : tasks'[j] = tasks[j] /\ order'[j] = order[j]
         /\ Stored' = Stored \cup {i} /\ HeapState' /\ MapState'
    <2>1. Store(t, ord, t.state = "scheduled")
      BY <1>1, <1>6 DEF LoadEntry
    <2>2. issued' \in 0 .. MaxTasks /\ issued <= issued'
      BY <1>1, <1>2
    <2>3. i \in Ids \ Stored /\ i <= issued'
      BY <1>1, <1>9
    <2> QED BY <1>2, <1>8, <2>1, <2>2, <2>3, StoreAdds
  <1> HIDE DEF i
  <1>11. i = t.id
    BY DEF i
  <1>12. /\ DOMAIN list' = 1 .. n /\ Len(list') = n
         /\ list'[n] = i /\ \A k \in DOMAIN list : list'[k] = list[k]
    BY <1>3, <1>9, <1>10, AppendProperties
  <1>13. /\ loading' \in Seq(Task) /\ Len(loading') = Len(loading) - 1
         /\ DOMAIN loading' = 1 .. Len(loading) - 1
         /\ \A k \in 1 .. Len(loading) - 1 : loading'[k] = loading[k + 1]
    BY <1>1, <1>2, HeadTailProperties
  <1>14. ASSUME NEW k \in DOMAIN list'
         PROVE  \/ k = n
                \/ /\ k \in DOMAIN list /\ list'[k] = list[k]
                   /\ list[k] \in Ids \ {i}
    <2>1. CASE k # n
      <3>1. k \in DOMAIN list
        BY <1>3, <1>12, <2>1
      <3>2. list[k] \in Ids \ {i}
        BY <1>3, <1>9, <3>1
      <3> QED BY <1>12, <3>1, <3>2
    <2> QED BY <2>1
  <1>15. TypeOK'
    <2>1. count' \in 0 .. MaxTasks
      BY <1>1, <1>6
    <2> QED BY <1>1, <1>2, <1>10, <1>13, <2>1 DEF TypeOK
  <1>16. WaitingState'
    <2>1. \A w \in waiting : w.task.id # i
      <3> HIDE DEF n
      <3> QED BY <1>7, <1>11 DEF IInv, WaitingState
    <2> QED BY <1>1, <1>10, <2>1 DEF IInv, WaitingState
  <1>17. SavedState' /\ SavedNextState'
    BY <1>1 DEF IInv, SavedState, SavedNextState, SavedScheduled, SavedBefore
  <1>18. LoadingState'
    <2>1. Len(list') + Len(loading') = Len(saved)
      <3>1. Len(list') = Len(list) + 1 /\ Len(loading') = Len(loading) - 1
        BY <1>12, <1>13
      <3>2. Len(list) + Len(loading) = Len(saved)
        BY <1>5
      <3>3. Len(list) \in Nat /\ Len(loading) \in Nat /\ Len(saved) \in Nat
        BY <1>3, <1>4
      <3> QED BY <3>1, <3>2, <3>3
    <2>2. ASSUME NEW k \in DOMAIN list'
          PROVE  list'[k] = saved[k].id /\ tasks'[list'[k]] = saved[k]
      <3>1. CASE k = n
        <4> HIDE DEF n
        <4> QED BY <1>7, <1>10, <1>11, <1>12, <3>1
      <3>2. CASE k # n
        <4>1. k \in DOMAIN list /\ list'[k] = list[k] /\ list[k] \in Ids \ {i}
          BY <1>14, <3>2
        <4> QED BY <1>5, <1>10, <4>1
      <3> QED BY <3>1, <3>2
    <2>3. ASSUME NEW k \in DOMAIN loading'
          PROVE  loading'[k] = saved[Len(list') + k]
      <3>1. k \in 1 .. Len(loading) - 1 /\ k + 1 \in DOMAIN loading
        BY <1>4, <1>13
      <3>2. loading'[k] = saved[Len(list) + (k + 1)]
        BY <1>5, <1>13, <3>1
      <3>3. Len(list) + (k + 1) = Len(list') + k
        BY <1>3, <1>12, <3>1
      <3> QED BY <3>2, <3>3
    <2> QED BY <1>1, <2>1, <2>2, <2>3 DEF LoadingState
  <1>19. StampState'
    BY <1>1, <1>8 DEF StampState
  <1>20. OrderState'
    <2> SUFFICES ASSUME ~overlapped PROVE OrderState'
      BY <1>1 DEF OrderState
    <2>1. /\ waiting = {}
          /\ \A k \in DOMAIN list : order[list[k]] <= count
          /\ \A j, k \in DOMAIN list : j < k => order[list[j]] < order[list[k]]
      BY <1>1 DEF IInv, OrderState
    <2>2. \A k \in DOMAIN list : order[list[k]] \in Int
      BY <1>2, <1>3 DEF TypeOK
    <2>3. ASSUME NEW k \in DOMAIN list'
          PROVE  \/ k = n /\ order'[list'[k]] = ord
                 \/ /\ k \in DOMAIN list /\ order'[list'[k]] = order[list[k]]
                    /\ order[list[k]] < ord
      <3>1. CASE k = n
        <4> HIDE DEF n
        <4> QED BY <1>10, <1>12, <3>1
      <3>2. CASE k # n
        <4>1. k \in DOMAIN list /\ order'[list'[k]] = order[list[k]]
          BY <1>10, <1>14, <3>2
        <4>2. order[list[k]] < ord
          BY <1>2, <1>6, <2>1, <2>2, <4>1
        <4> QED BY <4>1, <4>2
      <3> QED BY <3>1, <3>2
    <2>4. \A k \in DOMAIN list' : order'[list'[k]] <= count'
      <3>1. ord = count' /\ ord <= ord
        BY <1>1, <1>6
      <3>2. \A k \in DOMAIN list : order[list[k]] < ord => order[list[k]] <= ord
        BY <2>2
      <3> QED BY <2>3, <3>1, <3>2
    <2>5. ASSUME NEW j \in DOMAIN list', NEW k \in DOMAIN list', j < k
          PROVE  order'[list'[j]] < order'[list'[k]]
      <3>1. j # n
        BY <1>3, <1>12, <2>5
      <3>2. /\ j \in DOMAIN list /\ order'[list'[j]] = order[list[j]]
            /\ order[list[j]] < ord
        BY <2>3, <3>1
      <3>3. CASE k = n /\ order'[list'[k]] = ord
        BY <3>2, <3>3
      <3>4. CASE k \in DOMAIN list /\ order'[list'[k]] = order[list[k]]
        BY <2>1, <2>5, <3>2, <3>4
      <3> QED BY <2>3, <3>3, <3>4
    <2> QED BY <1>1, <2>1, <2>4, <2>5 DEF OrderState
  <1> QED BY <1>10, <1>15, <1>16, <1>17, <1>18, <1>19, <1>20 DEF IInv

LEMMA LoadReturnKeeps ==
  ASSUME IInv, LoadReturn
  PROVE  IInv'
  <1>1. /\ loading = <<>> /\ loading' = None /\ UNCHANGED storeVars
        /\ tasks' = tasks /\ list' = list /\ order' = order
        /\ index' = index /\ heap' = heap
        /\ count' = count /\ issued' = issued
        /\ clock' = clock /\ waiting' = waiting /\ saved' = saved
        /\ savedNext' = savedNext /\ use' = use /\ overlapped' = overlapped
        /\ loaded' = loaded
    BY DEF LoadReturn, storeVars
  <1>2. HeapState' /\ MapState' /\ Stored' = Stored /\ Scheduled' = Scheduled
    BY <1>1, StoreUnchanged DEF IInv, TypeOK
  <1>3. TypeOK'
    BY <1>1 DEF IInv, TypeOK
  <1>4. WaitingState' /\ SavedState' /\ SavedNextState'
    BY <1>1, <1>2 DEF IInv, WaitingState, SavedState, SavedNextState,
                      SavedScheduled, SavedBefore
  <1>5. LoadingState'
    BY <1>1 DEF LoadingState
  <1>6. StampState' /\ OrderState'
    <2>1. Known' = Known
      BY <1>1, <1>2 DEF Known
    <2> QED BY <1>1, <1>2, <2>1 DEF IInv, StampState, OrderState
  <1> QED BY <1>2, <1>3, <1>4, <1>5, <1>6 DEF IInv

LEMMA StutterKeeps ==
  ASSUME IInv, UNCHANGED vars
  PROVE  IInv'
  <1>1. /\ UNCHANGED storeVars /\ loading' = loading
        /\ tasks' = tasks /\ list' = list /\ order' = order
        /\ index' = index /\ heap' = heap
        /\ count' = count /\ issued' = issued
        /\ clock' = clock /\ waiting' = waiting /\ saved' = saved
        /\ savedNext' = savedNext /\ use' = use /\ overlapped' = overlapped
        /\ loaded' = loaded
    BY DEF vars, storeVars, ioVars
  <1>2. HeapState' /\ MapState' /\ Stored' = Stored /\ Scheduled' = Scheduled
    BY <1>1, StoreUnchanged DEF IInv, TypeOK
  <1>3. TypeOK'
    BY <1>1 DEF IInv, TypeOK
  <1>4. WaitingState' /\ SavedState' /\ SavedNextState' /\ LoadingState'
    BY <1>1, <1>2 DEF IInv, WaitingState, SavedState, SavedNextState,
                      SavedScheduled, SavedBefore, LoadingState
  <1>5. StampState' /\ OrderState'
    <2>1. Known' = Known
      BY <1>1, <1>2 DEF Known
    <2> QED BY <1>1, <1>2, <2>1 DEF IInv, StampState, OrderState
  <1> QED BY <1>2, <1>3, <1>4, <1>5 DEF IInv

LEMMA StepKeeps ==
  ASSUME IInv, [Next]_vars
  PROVE  IInv'
  <1>1. CASE Stamp
    BY <1>1, StampKeeps
  <1>2. CASE Insert
    BY <1>2, InsertKeeps
  <1>3. ASSUME NEW i \in Ids, \E p \in UpdateByIdParam : UpdateById(i, p)
        PROVE  IInv'
    BY <1>3, UpdateByIdChanges, ChangesKeeps
  <1>4. ASSUME NEW i \in Ids, Cancel(i) \/ MarkAsDispatched(i)
        PROVE  IInv'
    BY <1>4, RemovalChanges, ChangesKeeps
  <1>5. ASSUME NEW i \in Ids, \E result \in {"nil", "err"} : MarkAsDone(i, result)
        PROVE  IInv'
    BY <1>5, MarkAsDoneChanges, ChangesKeeps
  <1>6. CASE Save
    BY <1>6, SaveKeeps
  <1>7. CASE LoadInit
    BY <1>7, LoadInitKeeps
  <1>8. CASE LoadEntry
    BY <1>8, LoadEntryKeeps
  <1>9. CASE LoadReturn
    BY <1>9, LoadReturnKeeps
  <1>10. CASE UNCHANGED vars
    BY <1>10, StutterKeeps
  <1> QED BY <1>1, <1>2, <1>3, <1>4, <1>5, <1>6, <1>7, <1>8, <1>9, <1>10
          DEF Next

LEMMA SpecIInv == Spec => []IInv
  BY InitIInv, StepKeeps, PTL DEF Spec

-----------------------------------------------------------------------------
(* The heap, the map and the list tell of the same tasks. *)
LEMMA CoherentHeap ==
  ASSUME IInv
  PROVE  HeapMirrorsStates
  <1> DEFINE h == TheHeap
             N == Len(heap)
  <1>1. /\ HeapOK(h) /\ Held(h) = Scheduled /\ h.slice = heap
        /\ h.index = index /\ heap \in Seq(Ids)
    BY HeapOfModule DEF IInv, HeapState, TypeOK, TheHeap
  <1>2. N \in Nat /\ DOMAIN heap = 1 .. N /\ heap \in [1 .. N -> Ids]
    BY <1>1, LenProperties
  <1>3. \A k \in 1 .. N : /\ k - 1 \in Positions(h)
                          /\ heap[k] = At(h, k - 1)
    <2> SUFFICES ASSUME NEW k \in 1 .. N
                 PROVE  k - 1 \in Positions(h) /\ heap[k] = At(h, k - 1)
      OBVIOUS
    <2>1. (k - 1) + 1 = k /\ k - 1 \in 0 .. N - 1
      BY <1>2
    <2> HIDE DEF h
    <2> QED BY <1>1, <2>1 DEF Positions, At
  <1>4. \A k \in Positions(h) : /\ k + 1 \in 1 .. N
                                /\ heap[k + 1] = At(h, k)
    BY <1>1, <1>2 DEF Positions, At
  <1> HIDE DEF h
  <1>5. {heap[k] : k \in DOMAIN heap} = Scheduled
    <2>1. \A k \in 1 .. N : heap[k] \in Scheduled
      BY <1>1, <1>3 DEF Held
    <2>2. \A i \in Scheduled : \E k \in 1 .. N : heap[k] = i
      BY <1>1, <1>4 DEF Held
    <2> QED BY <1>2, <2>1, <2>2
  <1>6. \A k \in DOMAIN heap : index[heap[k]] = k - 1
    BY <1>1, <1>2, <1>3 DEF HeapOK, Mirrors
  <1>7. N = Cardinality(Scheduled)
    <2>1. heap \in [1 .. N -> Scheduled]
      BY <1>2, <1>5
    <2>2. \A j, k \in 1 .. N : heap[j] = heap[k] => j = k
      <3> SUFFICES ASSUME NEW j \in 1 .. N, NEW k \in 1 .. N, heap[j] = heap[k]
                   PROVE  j = k
        OBVIOUS
      <3>1. j - 1 = k - 1
        BY <1>2, <1>6
      <3> QED BY <1>2, <3>1
    <2>3. heap \in Injection(1 .. N, Scheduled)
      BY <2>1, <2>2 DEF Injection, IsInjective
    <2>4. heap \in Surjection(1 .. N, Scheduled)
      BY <1>2, <1>5, <2>1 DEF Surjection
    <2>5. ExistsBijection(1 .. N, Scheduled)
      BY <2>3, <2>4 DEF ExistsBijection, Bijection
    <2> QED BY <1>2, <2>5, FS_CountingElements
  <1> QED BY <1>5, <1>6, <1>7 DEF HeapMirrorsStates

(* What Repository sees of a task. *)
LEMMA CoreFields ==
  ASSUME IInv, NEW i \in Ids
  PROVE  /\ CoreTasks[i] \in Task /\ CoreTasks[i].id = tasks[i].id
         /\ CoreTasks[i].state = tasks[i].state
         /\ CoreTasks[i].sched = tasks[i].sched
         /\ CoreTasks[i].prio = tasks[i].prio
         /\ CoreTasks[i].created = order[i]
         /\ CoreTasks[i].cancelledAt = tasks[i].cancelledAt
  <1>1. tasks[i] \in Task /\ order[i] \in 0 .. FarFuture
    BY TasksAssumption DEF IInv, TypeOK, FarFuture
  <1>2. CoreTasks[i] = [tasks[i] EXCEPT !.created = order[i]]
    BY DEF CoreTasks
  <1> QED BY <1>1, <1>2 DEF Task

LEMMA CoreSets ==
  ASSUME IInv
  PROVE  Core!Scheduled = Scheduled /\ Core!Stored = Stored
  BY CoreFields DEF Core!Scheduled, Core!Stored, Scheduled, Stored, Core!Ids, Ids

LEMMA NextIsAllowed ==
  ASSUME IInv
  PROVE  GetNextIsFirst
  <1>1. CASE GetNext = 0 /\ Scheduled = {}
    BY <1>1 DEF GetNextIsFirst
  <1>2. CASE /\ GetNext \in Scheduled /\ GetNext # 0 /\ GetNext = At(TheHeap, 0)
             /\ \A i \in Scheduled : NotAfter(tasks, order, GetNext, i)
    <2> DEFINE h == TheHeap
    <2>1. /\ HeapOK(h) /\ h.slice = heap /\ Len(heap) \in Nat
          /\ h = Heap(tasks, order)
      <3>1. heap \in Seq(Ids)
        BY DEF IInv, TypeOK
      <3> QED BY <3>1, HeapOfModule, LenProperties DEF IInv, HeapState, TheHeap
    <2> HIDE DEF h
    <2>2. \A k \in 1 .. Len(heap) - 1 : ~HeapLess(h, k, 0)
      <3> SUFFICES ASSUME NEW k \in 1 .. Len(heap) - 1
                   PROVE  ~HeapLess(h, k, 0)
        OBVIOUS
      <3>1. k \in Positions(h)
        BY <2>1 DEF Positions
      <3> QED BY <2>1, <3>1, RootIsFirst, HeapLessIsSooner DEF NotAfter
    <2>3. ASSUME ~loaded
          PROVE  GetNext \in Core!Firsts
      <3> DEFINE n == GetNext
      <3>1. /\ \A j \in Stored : order[j] = j
            /\ \A j \in Scheduled : ~tasks[j].cancelledAt
            /\ \A u, v \in Known : u.id < v.id => u.created <= v.created
        BY <2>3 DEF IInv, StampState
      <3>2. ASSUME NEW j \in Scheduled
            PROVE  ~Core!Less(CoreTasks[j], CoreTasks[n])
        <4>1. /\ j \in Ids /\ n \in Ids /\ j \in Stored /\ n \in Stored
              /\ n \in Scheduled
          BY <1>2 DEF Scheduled, Stored
        <4> HIDE DEF n
        <4>2. /\ tasks[j] \in Known /\ tasks[n] \in Known
              /\ tasks[j].id = j /\ tasks[n].id = n
              /\ tasks[j] \in Task /\ tasks[n] \in Task
          BY <4>1 DEF IInv, MapState, TypeOK, Known
        <4>3. /\ tasks[j].sched \in Int /\ tasks[j].prio \in Int
              /\ tasks[j].created \in Int /\ tasks[n].sched \in Int
              /\ tasks[n].prio \in Int /\ tasks[n].created \in Int
              /\ j \in Int /\ n \in Int
          BY <4>1, <4>2, TaskFields DEF Ids
        <4>4. order[j] = j /\ order[n] = n /\ ~tasks[j].cancelledAt
          BY <3>1, <4>1
        <4>5. j < n => tasks[j].created <= tasks[n].created
          BY <3>1, <4>2
        <4>6. ~Sooner(tasks, order, j, n)
          BY <1>2 DEF NotAfter, n
        <4>7. /\ CoreTasks[j].sched = tasks[j].sched
              /\ CoreTasks[j].prio = tasks[j].prio
              /\ CoreTasks[j].created = j
              /\ ~CoreTasks[j].cancelledAt
              /\ CoreTasks[n].sched = tasks[n].sched
              /\ CoreTasks[n].prio = tasks[n].prio
              /\ CoreTasks[n].created = n
          BY <4>1, <4>4, CoreFields
        <4> QED BY <4>3, <4>4, <4>5, <4>6, <4>7 DEF Core!Less, Sooner
      <3> HIDE DEF n
      <3>3. n \in Core!Scheduled /\ Core!Scheduled = Scheduled
        BY <1>2, CoreSets DEF n
      <3> QED BY <3>2, <3>3 DEF Core!Firsts, n
    <2> QED BY <1>2, <2>1, <2>2, <2>3 DEF GetNextIsFirst
  <1> QED BY <1>1, <1>2, NextIsFirst

(* When Load has added every entry. *)
LEMMA LoadedNext ==
  ASSUME IInv, loading = <<>>, ~overlapped
  PROVE  GetNext = savedNext
  <1>1. /\ list \in Seq(Ids) /\ Len(list) \in Nat
        /\ DOMAIN list = 1 .. Len(list)
        /\ \A k \in DOMAIN list : list[k] \in Stored /\ list[k] \in Ids
        /\ \A i \in Stored : \E k \in DOMAIN list : list[k] = i
    BY ListFacts
  <1>2. loading # None /\ Len(loading) = 0
    <2>1. <<>> \in Seq(Task)
      OBVIOUS
    <2> QED BY <2>1, InMemoryAssumption
  <1>3. /\ DOMAIN saved = DOMAIN list
        /\ \A k \in DOMAIN list : list[k] = saved[k].id
                                  /\ tasks[list[k]] = saved[k]
    <2>1. Len(saved) \in Nat /\ DOMAIN saved = 1 .. Len(saved)
      BY LenProperties DEF IInv, TypeOK
    <2>2. Len(list) + Len(loading) = Len(saved)
      BY <1>2 DEF IInv, LoadingState
    <2>3. \A k \in DOMAIN list : list[k] = saved[k].id
                                 /\ tasks[list[k]] = saved[k]
      BY <1>2 DEF IInv, LoadingState
    <2>4. Len(saved) = Len(list)
      <3>1. Len(list) \in Nat /\ Len(saved) \in Nat /\ Len(loading) = 0
        BY <1>1, <1>2, <2>1
      <3> QED BY <2>2, <3>1
    <2> QED BY <1>1, <2>1, <2>3, <2>4
  <1>4. \A j, k \in DOMAIN list : j < k => order[list[j]] < order[list[k]]
    BY DEF IInv, OrderState
  <1>5. \A k \in DOMAIN list : k \in SavedScheduled <=> list[k] \in Scheduled
    BY <1>1, <1>3 DEF SavedScheduled, Scheduled
  <1>6. SavedScheduled \subseteq DOMAIN list
    BY <1>3 DEF SavedScheduled
  <1>7. \/ savedNext = 0 /\ SavedScheduled = {}
        \/ \E k \in SavedScheduled :
              /\ saved[k].id = savedNext
              /\ \A j \in SavedScheduled : ~SavedBefore(j, k)
    BY DEF IInv, SavedNextState
  <1>8. CASE GetNext = 0 /\ Scheduled = {}
    BY <1>5, <1>6, <1>7, <1>8
  <1>9. CASE /\ GetNext \in Scheduled
             /\ \A i \in Scheduled : NotAfter(tasks, order, GetNext, i)
    <2>1. GetNext \in Stored
      BY <1>9 DEF Scheduled, Stored
    <2>2. PICK a \in DOMAIN list : list[a] = GetNext
      BY <1>1, <2>1
    <2>3. a \in SavedScheduled
      BY <1>5, <1>9, <2>2
    <2>4. PICK b \in SavedScheduled : /\ saved[b].id = savedNext
                                      /\ ~SavedBefore(a, b)
      BY <1>7, <2>3
    <2>5. b \in DOMAIN list /\ list[b] \in Scheduled /\ list[b] = savedNext
      BY <1>3, <1>5, <1>6, <2>4
    <2>6. ~Sooner(tasks, order, list[b], list[a])
      BY <1>9, <2>2, <2>5 DEF NotAfter
    <2>7. /\ saved[a].sched \in Int /\ saved[a].prio \in Int
          /\ saved[a].created \in Int /\ saved[b].sched \in Int
          /\ saved[b].prio \in Int /\ saved[b].created \in Int
          /\ a \in Int /\ b \in Int
          /\ tasks[list[a]] = saved[a] /\ tasks[list[b]] = saved[b]
      <3>1. saved[a] \in Task /\ saved[b] \in Task
        BY <1>3, <2>5 DEF IInv, TypeOK
      <3> QED BY <1>1, <1>3, <2>5, <3>1, TaskFields
    <2>8. /\ a < b => order[list[a]] < order[list[b]]
          /\ b < a => order[list[b]] < order[list[a]]
      BY <1>4, <2>5
    <2>9. a = b
      BY <2>4, <2>6, <2>7, <2>8 DEF SavedBefore, Sooner
    <2> QED BY <2>2, <2>5, <2>9
  <1> QED BY <1>8, <1>9, NextIsFirst

-----------------------------------------------------------------------------
(* The steps of Repository.                                                *)
LEMMA CoreOperators ==
  /\ Core!Ids = Ids /\ Core!NoTask = NoTask /\ Core!AddParam = AddParam
  /\ Core!UpdateParam = UpdateParam
  /\ \A t, p : Core!Update(t, p) = Update(t, p)
  /\ \A p, i, c : Core!ToTask(p, i, c) = ToTask(p, i, c)
  BY DEF Core!Ids, Ids, Core!NoTask, NoTask, Core!AddParam, AddParam,
         Core!UpdateParam, UpdateParam, Core!Update, Update, Core!ToTask,
         ToTask, Core!Assign, Assign, Core!OrElse, OrElse, Core!Option, Option,
         Core!Times, Times, Core!ZeroTime, ZeroTime

(* A step that puts t in the place of the task i, as Repository sees it. *)
LEMMA CoreChanges ==
  ASSUME tasks \in [Ids -> Task], order \in [Ids -> 0 .. MaxTasks],
         NEW i \in Ids, NEW t, NEW n \in 0 .. MaxTasks,
         tasks' = [tasks EXCEPT ![i] = t], order' = [order EXCEPT ![i] = n]
  PROVE  CoreTasks' = [CoreTasks EXCEPT ![i] = [t EXCEPT !.created = n]]
  <1>1. /\ CoreTasks = [j \in Ids |-> [tasks[j] EXCEPT !.created = order[j]]]
        /\ CoreTasks' = [j \in Ids |-> [tasks'[j] EXCEPT !.created = order'[j]]]
    BY DEF CoreTasks
  <1>2. /\ tasks'[i] = t /\ order'[i] = n
        /\ \A j \in Ids \ {i} : tasks'[j] = tasks[j] /\ order'[j] = order[j]
    OBVIOUS
  <1> QED BY <1>1, <1>2

LEMMA CoreUpdates ==
  ASSUME NEW t \in Task, NEW n \in 0 .. MaxTasks, NEW p
  PROVE  [Update(t, p) EXCEPT !.created = n]
            = Update([t EXCEPT !.created = n], p)
  <1> DEFINE u == [t EXCEPT !.created = n]
             a == OrElse(p.sched, t.sched)
             b == OrElse(p.prio, t.prio)
  <1>1. Update(t, p) = [t EXCEPT !.sched = a, !.prio = b]
    BY DEF Update, Assign
  <1>2. u.sched = t.sched /\ u.prio = t.prio
    BY DEF Task
  <1>3. Update(u, p) = [u EXCEPT !.sched = a, !.prio = b]
    <2> HIDE DEF u
    <2> QED BY <1>2 DEF Update, Assign
  <1> HIDE DEF a, b
  <1> QED BY <1>1, <1>3 DEF Task

LEMMA CoreEnds ==
  ASSUME NEW t \in Task, NEW n \in 0 .. MaxTasks
  PROVE  LET u == [t EXCEPT !.created = n]
         IN  /\ [[t EXCEPT !.state = "cancelled", !.cancelledAt = TRUE]
                    EXCEPT !.created = n]
                  = [u EXCEPT !.state = "cancelled", !.cancelledAt = TRUE]
             /\ [[t EXCEPT !.state = "dispatched", !.dispatchedAt = TRUE]
                    EXCEPT !.created = n]
                  = [u EXCEPT !.state = "dispatched", !.dispatchedAt = TRUE]
             /\ \A s : [[t EXCEPT !.state = s, !.doneAt = TRUE]
                          EXCEPT !.created = n]
                         = [u EXCEPT !.state = s, !.doneAt = TRUE]
  BY DEF Task

(* Repository has no task that is scheduled at the zero time: that of      *)
(* UpdateById is one of Times.                                             *)
TimesAreSet == \A u \in Uses : u.updateTimes \subseteq Times

LEMMA CoreEditOfTask ==
  ASSUME IInv, TimesAreSet, NEW i \in Ids,
         \/ \E p \in UpdateByIdParam : UpdateById(i, p)
         \/ Cancel(i)
         \/ MarkAsDispatched(i)
         \/ \E result \in {"nil", "err"} : MarkAsDone(i, result)
  PROVE  Core!RepositoryNext
  <1> DEFINE t == tasks[i]
             u == CoreTasks[i]
  <1>1. /\ tasks \in [Ids -> Task] /\ order \in [Ids -> 0 .. MaxTasks]
        /\ tasks[i] \in Task /\ order[i] \in 0 .. MaxTasks /\ use \in Uses
        /\ CoreTasks \in [Ids -> Task]
        /\ CoreTasks[i] = [t EXCEPT !.created = order[i]]
        /\ CoreTasks[i].state = tasks[i].state
    <2>1. CoreTasks = [j \in Ids |-> CoreTasks[j]]
      BY DEF CoreTasks
    <2>2. \A j \in Ids : CoreTasks[j] \in Task
      BY CoreFields
    <2>3. CoreTasks \in [Ids -> Task]
      <3> HIDE DEF CoreTasks
      <3> QED BY <2>1, <2>2
    <2> QED BY <2>3, CoreFields DEF IInv, TypeOK, CoreTasks
  <1>2. order' = [order EXCEPT ![i] = order[i]] /\ issued' = issued
    <2>1. order' = order /\ issued' = issued
      BY DEF UpdateById, Cancel, MarkAsDispatched, MarkAsDone, Accepted
    <2> QED BY <1>1, <2>1
  <1>3. ASSUME NEW v, tasks' = [tasks EXCEPT ![i] = v]
        PROVE  CoreTasks' = [CoreTasks EXCEPT ![i] =
                                [v EXCEPT !.created = order[i]]]
    <2>1. PICK n \in 0 .. MaxTasks : n = order[i]
      BY <1>1
    <2>2. /\ tasks \in [Ids -> Task] /\ order \in [Ids -> 0 .. MaxTasks]
          /\ order' = [order EXCEPT ![i] = n]
      BY <1>1, <1>2, <2>1
    <2>3. CoreTasks' = [CoreTasks EXCEPT ![i] = [v EXCEPT !.created = n]]
      BY <1>3, <2>2, CoreChanges
    <2> QED BY <2>1, <2>3
  <1>4. ASSUME NEW p \in UpdateByIdParam, UpdateById(i, p)
        PROVE  Core!RepositoryNext
    <2>1. p \in Core!UpdateParam /\ i \in Core!Scheduled
      <3>1. p \in UpdateParam
        BY <1>1, InMemoryAssumption
           DEF TimesAreSet, UpdateByIdParam, UpdateParam, Option
      <3> QED BY <1>4, <3>1, CoreSets, CoreOperators DEF UpdateById
    <2>2. CoreTasks' = [CoreTasks EXCEPT ![i] = Core!Update(u, p)]
      <3>1. tasks' = [tasks EXCEPT ![i] = Update(t, p)]
        BY <1>4 DEF UpdateById
      <3>2. CoreTasks' = [CoreTasks EXCEPT ![i] =
                             [Update(t, p) EXCEPT !.created = order[i]]]
        BY <1>3, <3>1
      <3>3. [Update(t, p) EXCEPT !.created = order[i]] = Update(u, p)
        BY <1>1, CoreUpdates
      <3> QED BY <3>2, <3>3, CoreOperators
    <2>3. Core!CoreUpdateById(i, p)
      BY <1>1, <1>2, <1>4, <2>1, <2>2
         DEF Core!CoreUpdateById, UpdateById, Accepted
    <2> QED BY <2>1, <2>3, CoreOperators DEF Core!RepositoryNext
  <1>5. CASE Cancel(i)
    <2> DEFINE v == [t EXCEPT !.state = "cancelled", !.cancelledAt = TRUE]
    <2>1. i \in Core!Scheduled
      BY <1>5, CoreSets DEF Cancel
    <2>2. tasks' = [tasks EXCEPT ![i] = v]
      BY <1>1, <1>5 DEF Cancel
    <2>3. [v EXCEPT !.created = order[i]]
             = [u EXCEPT !.state = "cancelled", !.cancelledAt = TRUE]
      BY <1>1, CoreEnds
    <2> HIDE DEF v
    <2>4. CoreTasks' = [CoreTasks EXCEPT ![i].state = "cancelled",
                                         ![i].cancelledAt = TRUE]
      <3>1. CoreTasks' = [CoreTasks EXCEPT ![i] = [v EXCEPT !.created = order[i]]]
        BY <1>3, <2>2
      <3>2. CoreTasks' = [CoreTasks EXCEPT ![i] = [u EXCEPT
                             !.state = "cancelled", !.cancelledAt = TRUE]]
        BY <2>3, <3>1
      <3> QED BY <1>1, <3>2
    <2>5. Core!CoreCancel(i)
      BY <1>2, <1>5, <2>1, <2>4 DEF Core!CoreCancel, Cancel, Accepted
    <2> QED BY <2>5, CoreOperators DEF Core!RepositoryNext
  <1>6. CASE MarkAsDispatched(i)
    <2> DEFINE v == [t EXCEPT !.state = "dispatched", !.dispatchedAt = TRUE]
    <2>1. i \in Core!Scheduled
      BY <1>6, CoreSets DEF MarkAsDispatched
    <2>2. tasks' = [tasks EXCEPT ![i] = v]
      BY <1>1, <1>6 DEF MarkAsDispatched
    <2>3. [v EXCEPT !.created = order[i]]
             = [u EXCEPT !.state = "dispatched", !.dispatchedAt = TRUE]
      BY <1>1, CoreEnds
    <2> HIDE DEF v
    <2>4. CoreTasks' = [CoreTasks EXCEPT ![i].state = "dispatched",
                                         ![i].dispatchedAt = TRUE]
      <3>1. CoreTasks' = [CoreTasks EXCEPT ![i] = [v EXCEPT !.created = order[i]]]
        BY <1>3, <2>2
      <3>2. CoreTasks' = [CoreTasks EXCEPT ![i] = [u EXCEPT
                             !.state = "dispatched", !.dispatchedAt = TRUE]]
        BY <2>3, <3>1
      <3> QED BY <1>1, <3>2
    <2>5. Core!CoreMarkAsDispatched(i)
      BY <1>2, <1>6, <2>1, <2>4
         DEF Core!CoreMarkAsDispatched, MarkAsDispatched, Accepted
    <2> QED BY <2>5, CoreOperators DEF Core!RepositoryNext
  <1>7. ASSUME NEW result \in {"nil", "err"}, MarkAsDone(i, result)
        PROVE  Core!RepositoryNext
    <2> DEFINE s == IF result = "nil" THEN "done" ELSE "err"
               v == [t EXCEPT !.state = s, !.doneAt = TRUE]
    <2>1. CoreTasks[i].state = "dispatched"
      BY <1>1, <1>7 DEF MarkAsDone
    <2>2. tasks' = [tasks EXCEPT ![i] = v]
      BY <1>1, <1>7 DEF MarkAsDone
    <2>3. [v EXCEPT !.created = order[i]]
             = [u EXCEPT !.state = s, !.doneAt = TRUE]
      <3> HIDE DEF s
      <3> QED BY <1>1, CoreEnds
    <2> HIDE DEF v
    <2>4. CoreTasks' = [CoreTasks EXCEPT ![i].state = s, ![i].doneAt = TRUE]
      <3>1. CoreTasks' = [CoreTasks EXCEPT ![i] = [v EXCEPT !.created = order[i]]]
        BY <1>3, <2>2
      <3>2. CoreTasks' = [CoreTasks EXCEPT ![i] =
                             [u EXCEPT !.state = s, !.doneAt = TRUE]]
        BY <2>3, <3>1
      <3> QED BY <1>1, <3>2
    <2>5. Core!CoreMarkAsDone(i, result)
      BY <1>2, <1>7, <2>1, <2>4 DEF Core!CoreMarkAsDone, MarkAsDone, Accepted
    <2> QED BY <2>5, CoreOperators DEF Core!RepositoryNext
  <1> QED BY <1>4, <1>5, <1>6, <1>7

LEMMA CoreInsert ==
  ASSUME IInv, Insert, ~loaded
  PROVE  Core!RepositoryNext
  <1>1. PICK w \in waiting : Store(w.task, w.order, TRUE)
    BY DEF Insert
  <1> DEFINE t == w.task
             i == w.task.id
  <1>2. /\ tasks \in [Ids -> Task] /\ order \in [Ids -> 0 .. MaxTasks]
        /\ issued \in 0 .. MaxTasks /\ clock \in CreationTimes
        /\ issued' = issued /\ t \in Task
    BY DEF IInv, TypeOK, Stamped, Insert
  <1>3. /\ i \in (1 .. issued) \ Stored
        /\ \E p \in AddParam : t = ToTask(p, i, t.created)
    BY DEF IInv, WaitingState
  <1>4. w.order = i
    BY DEF IInv, StampState
  <1>5. /\ tasks' = [tasks EXCEPT ![i] = t]
        /\ order' = [order EXCEPT ![i] = w.order]
    BY <1>1 DEF Store
  <1> HIDE DEF t, i
  <1>6. PICK p \in AddParam : t = ToTask(p, i, t.created)
    BY <1>3
  <1>7. i \in Ids /\ i \in 0 .. MaxTasks /\ t.created \in 0 .. FarFuture
    <2>1. i \in 1 .. issued
      BY <1>3
    <2>2. t.created \in 0 .. FarFuture
      BY <1>2 DEF Task
    <2> QED BY <1>2, <2>1, <2>2, TasksAssumption DEF Ids
  <1>8. [t EXCEPT !.created = i] = Core!ToTask(p, i, i)
    BY <1>6, <1>7, Restamped, CoreOperators
  <1>9. CoreTasks' = [CoreTasks EXCEPT ![i] = Core!ToTask(p, i, i)]
    <2>1. order' = [order EXCEPT ![i] = i]
      BY <1>4, <1>5
    <2>2. PICK j \in Ids, n \in 0 .. MaxTasks : j = i /\ n = i
      BY <1>7
    <2>3. PICK v : v = t
      OBVIOUS
    <2>4. /\ tasks' = [tasks EXCEPT ![j] = v]
          /\ order' = [order EXCEPT ![j] = n]
      BY <1>5, <2>1, <2>2, <2>3
    <2>5. CoreTasks' = [CoreTasks EXCEPT ![j] = [v EXCEPT !.created = n]]
      BY <1>2, <2>4, CoreChanges
    <2> QED BY <1>8, <2>2, <2>3, <2>5
  <1>10. Core!Insert(i, p) /\ i \notin Core!Stored
    BY <1>2, <1>3, <1>9, CoreSets DEF Core!Insert
  <1> QED BY <1>3, <1>10, CoreOperators DEF Core!RepositoryNext

LEMMA CoreStep ==
  ASSUME IInv, TimesAreSet, [Next]_vars, ~loaded'
  PROVE  [Core!RepositoryNext]_<<CoreTasks, issued>>
  <1>1. ASSUME tasks' = tasks, order' = order
        PROVE  CoreTasks' = CoreTasks
    BY <1>1 DEF CoreTasks
  <1>2. CASE Stamp
    <2>1. CoreTasks' = CoreTasks
      BY <1>1, <1>2 DEF Stamp, storeVars
    <2>2. Core!Stamp
      BY <1>2, <2>1 DEF Stamp, Core!Stamp
    <2> QED BY <2>2 DEF Core!RepositoryNext
  <1>3. CASE Insert
    <2>1. ~loaded
      BY <1>3 DEF Insert
    <2> QED BY <1>3, <2>1, CoreInsert
  <1>4. CASE \E i \in Ids :
               \/ \E p \in UpdateByIdParam : UpdateById(i, p)
               \/ Cancel(i)
               \/ MarkAsDispatched(i)
               \/ \E result \in {"nil", "err"} : MarkAsDone(i, result)
    BY <1>4, CoreEditOfTask
  <1>5. CASE Save
    BY <1>1, <1>5 DEF Save, storeVars
  <1>6. CASE LoadInit
    BY <1>6 DEF LoadInit
  <1>7. CASE LoadEntry
    <2>1. ~loaded
      BY <1>7 DEF LoadEntry
    <2>2. loading = None
      BY <2>1 DEF IInv, StampState
    <2> QED BY <1>7, <2>2 DEF LoadEntry, Unlocked
  <1>8. CASE LoadReturn
    BY <1>1, <1>8 DEF LoadReturn, storeVars
  <1>9. CASE UNCHANGED vars
    BY <1>1, <1>9 DEF vars, storeVars
  <1> QED BY <1>2, <1>3, <1>4, <1>5, <1>6, <1>7, <1>8, <1>9 DEF Next

LEMMA CoreInit == Init => Core!RepositoryInit
  <1> SUFFICES ASSUME Init PROVE Core!RepositoryInit
    OBVIOUS
  <1>1. [NoTask EXCEPT !.created = 0] = NoTask
    <2>1. NoTask.created = 0
      BY DEF NoTask
    <2> QED BY <2>1, NoTaskType DEF Task
  <1>2. CoreTasks = [i \in Ids |-> NoTask]
    BY <1>1 DEF Init, CoreTasks
  <1> QED BY <1>2, CoreOperators DEF Core!RepositoryInit, Init

-----------------------------------------------------------------------------
(* Every variable keeps its type: whatever is pushed, moved or taken, the  *)
(* slice holds ids of the map and an index is a position or -1.            *)
THEOREM TypeCorrect == Spec => []TypeOK
  <1>1. IInv => TypeOK
    BY DEF IInv
  <1> QED BY <1>1, SpecIInv, PTL

(* Heap, index, map and list tell of the same tasks, whatever sequence of  *)
(* Push, Fix and Remove swapped the elements of the heap.                  *)
THEOREM StoreCoherent == Spec => []StoreIsCoherent
  <1>1. IInv => StoreIsCoherent
    BY CoherentHeap DEF IInv, MapState, StoreIsCoherent
  <1> QED BY <1>1, SpecIInv, PTL

(* GetNext answers a task no scheduled one is before, or Exhausted when    *)
(* none is scheduled.                                                      *)
THEOREM NextFirst == Spec => []GetNextIsFirst
  <1>1. IInv => GetNextIsFirst
    BY NextIsAllowed
  <1> QED BY <1>1, SpecIInv, PTL

(* A repository Load has filled answers the next task Save found, if no    *)
(* AddTask overlapped another or Load.                                     *)
THEOREM LoadRestores == Spec => LoadRestoresNext
  <1>1. IInv /\ [Next]_vars =>
           [LoadReturn => overlapped \/ GetNext = savedNext]_vars
    BY LoadedNext DEF LoadReturn
  <1> QED BY <1>1, SpecIInv, PTL DEF Spec, LoadRestoresNext

(* The in-memory repository implements Repository, step by step, until     *)
(* Load is called.                                                         *)
THEOREM Implements ==
  ASSUME TimesAreSet
  PROVE  Spec => ImplementsRepository
  <1>1. Init => Core!RepositoryInit
    BY CoreInit
  <1>2. IInv /\ [Next]_vars =>
           [loaded' \/ [Core!RepositoryNext]_<<CoreTasks, issued>>]_vars
    BY CoreStep
  <1> QED BY <1>1, <1>2, SpecIInv, PTL DEF Spec, ImplementsRepository
=============================================================================
