----------------------- MODULE TwinRepositoriesProofs -----------------------
(***************************************************************************)
(* Proofs about TwinRepositories, for any parameters, scripts, durations   *)
(* and number of calls and tasks:                                          *)
(*                                                                         *)
(*   RowsAgree         Spec => []SameRows                                  *)
(*   ErrorsAgree       Spec => []AnswersAgree                              *)
(*   ShiftInRange      Spec => []ShiftStaysInRange                         *)
(*   FindAndNextAgree  Spec => []ReadsAgree                                *)
(*   EveryFindAgrees   the same of Find for every query, offset and limit  *)
(*                                                                         *)
(* The invariant, TwinInv, is about every task: Twins says that the        *)
(* tasks are numbered, that each is one AddTask and Update may leave       *)
(* behind (TaskOK), and that its row means it (RowMeans) in every column   *)
(* the two have not parted in.                                             *)
(*                                                                         *)
(* The way there is that of a call through the ent builders.  A builder is *)
(* told columns one method call at a time: each call is a step of Builds   *)
(* (MethodSet, MethodClear, MethodWhere), and BuildsMore puts the steps of *)
(* an operation together to the mutation it leads to (StateMutations,      *)
(* UpdateMutation, AddCalls).  Executing it writes a known row (OneSaved,  *)
(* ManySaved, EntAdds), which means what the in-memory repository makes of *)
(* its task (StampedRow, UpdatedRow, TwinsAdded); where no row is written, *)
(* both refuse for the same reason (SameKinds, EntExplains).  TwinOutcomes *)
(* says that once for all operations on one task, RepairTwins for those on *)
(* the tasks in some states.                                               *)
(*                                                                         *)
(* Reads follow from that: a row that means a task passes WHERE iff the    *)
(* task matches (WhereMatches), so the loop of Find collects the tasks     *)
(* SELECT selects (MatchingHits) and leaves the same window of them        *)
(* (WindowIsAnswer).  The loop goes in the order of the store, SELECT in   *)
(* that of created_at: they are one as long as the clock does not go back, *)
(* which is a second invariant, OrderInv.                                  *)
(*                                                                         *)
(* Facts handed from one operation to the next are named (Alike, Parted,   *)
(* Added, ...), so that a lemma is used without unfolding what it is about. *)
(***************************************************************************)
EXTENDS TwinRepositories, FiniteSetTheorems, WellFoundedInduction,
        SequenceTheorems, TLAPS

-----------------------------------------------------------------------------
(* Both stores are made of the operators of TaskData. *)
LEMMA MemoryOperators ==
  /\ Memory!Fields = Fields /\ Memory!Maps = Maps
  /\ \A t, p : Memory!Update(t, p) = Update(t, p)
  /\ \A p, id, now : Memory!ToTask(p, id, now) = ToTask(p, id, now)
  /\ \A p : Memory!NormalizeParam(p) = NormalizeParam(p)
  /\ \A t : Memory!IsValid(t) <=> IsValid(t)
  /\ \A t : Memory!ErrKindUpdate(t) = ErrKindUpdate(t)
  /\ \A t : Memory!ErrKindMarkAsDone(t) = ErrKindMarkAsDone(t)
  /\ \A v : Memory!NormalizeTime(v) = NormalizeTime(v)
  <1>1. Memory!Fields = Fields /\ Memory!Maps = Maps
    BY DEF Memory!Fields, Fields, Memory!ZeroTask, ZeroTask, Memory!Maps,
           Maps, Memory!ZeroTime, ZeroTime
  <1>2. ASSUME NEW t, NEW p
        PROVE  Memory!Update(t, p) = Update(t, p)
    BY <1>1
       DEF Memory!Update, Update, Memory!NormalizeTask, NormalizeTask,
           Memory!AssignIfSome, AssignIfSome, Memory!Updatable, Updatable,
           Memory!Times, Times, Memory!OptionalTimes, OptionalTimes,
           Memory!MapOf, MapOf, Memory!NormalizeOption, NormalizeOption,
           Memory!NormalizeTime, NormalizeTime, Memory!TicksPerMilli,
           TicksPerMilli, Memory!EmptyMap, EmptyMap
  <1>3. ASSUME NEW p, NEW id, NEW now
        PROVE  Memory!ToTask(p, id, now) = ToTask(p, id, now)
    BY <1>2 DEF Memory!ToTask, ToTask, Memory!NormalizeTime, NormalizeTime,
                Memory!TicksPerMilli, TicksPerMilli, Memory!ZeroTask, ZeroTask,
                Memory!ZeroTime, ZeroTime
  <1>4. ASSUME NEW p
        PROVE  Memory!NormalizeParam(p) = NormalizeParam(p)
    BY DEF Memory!NormalizeParam, NormalizeParam, Memory!NormalizeOption,
           NormalizeOption, Memory!NormalizeTime, NormalizeTime,
           Memory!TicksPerMilli, TicksPerMilli
  <1>5. ASSUME NEW t
        PROVE  /\ Memory!IsValid(t) <=> IsValid(t)
               /\ Memory!ErrKindUpdate(t) = ErrKindUpdate(t)
               /\ Memory!ErrKindMarkAsDone(t) = ErrKindMarkAsDone(t)
    BY DEF Memory!IsValid, IsValid, Memory!IsState, IsState, Memory!States,
           States, Memory!ZeroTime, ZeroTime, Memory!ErrKindUpdate,
           ErrKindUpdate, Memory!ErrKindMarkAsDone, ErrKindMarkAsDone,
           Memory!ErrKind, ErrKind
  <1>6. ASSUME NEW v
        PROVE  Memory!NormalizeTime(v) = NormalizeTime(v)
    BY DEF Memory!NormalizeTime, NormalizeTime, Memory!TicksPerMilli,
           TicksPerMilli
  <1> QED BY <1>1, <1>2, <1>3, <1>4, <1>5, <1>6

LEMMA EntOperators ==
  /\ Ent!Fields = Fields /\ Ent!Maps = Maps /\ Ent!Columns = Fields
  /\ Ent!OptionalTimes = OptionalTimes /\ Ent!Nullable = OptionalTimes
  /\ Ent!States = States
  /\ \A t, p : Ent!Update(t, p) = Update(t, p)
  /\ \A p, id, now : Ent!ToTask(p, id, now) = ToTask(p, id, now)
  /\ \A p : Ent!NormalizeParam(p) = NormalizeParam(p)
  /\ \A t : Ent!IsValid(t) <=> IsValid(t)
  /\ \A t : Ent!ErrKindUpdate(t) = ErrKindUpdate(t)
  /\ \A t : Ent!ErrKindMarkAsDone(t) = ErrKindMarkAsDone(t)
  /\ \A v : Ent!NormalizeTime(v) = NormalizeTime(v)
  /\ \A v : Ent!MapOf(v) = MapOf(v)
  <1>1. /\ Ent!Fields = Fields /\ Ent!Maps = Maps /\ Ent!Columns = Fields
        /\ Ent!OptionalTimes = OptionalTimes /\ Ent!Nullable = OptionalTimes
        /\ Ent!States = States
    BY DEF Ent!Fields, Fields, Ent!ZeroTask, ZeroTask, Ent!Maps, Maps,
           Ent!ZeroTime, ZeroTime, Ent!Columns, Ent!OptionalTimes,
           OptionalTimes, Ent!Nullable, Ent!States, States
  <1>2. ASSUME NEW t, NEW p
        PROVE  Ent!Update(t, p) = Update(t, p)
    BY <1>1
       DEF Ent!Update, Update, Ent!NormalizeTask, NormalizeTask,
           Ent!AssignIfSome, AssignIfSome, Ent!Updatable, Updatable, Ent!Times,
           Times, Ent!MapOf, MapOf, Ent!NormalizeOption, NormalizeOption,
           Ent!NormalizeTime, NormalizeTime, Ent!TicksPerMilli, TicksPerMilli,
           Ent!EmptyMap, EmptyMap
  <1>3. ASSUME NEW p, NEW id, NEW now
        PROVE  Ent!ToTask(p, id, now) = ToTask(p, id, now)
    BY <1>2 DEF Ent!ToTask, ToTask, Ent!NormalizeTime, NormalizeTime,
                Ent!TicksPerMilli, TicksPerMilli, Ent!ZeroTask, ZeroTask,
                Ent!ZeroTime, ZeroTime
  <1>4. ASSUME NEW p
        PROVE  Ent!NormalizeParam(p) = NormalizeParam(p)
    BY DEF Ent!NormalizeParam, NormalizeParam, Ent!NormalizeOption,
           NormalizeOption, Ent!NormalizeTime, NormalizeTime,
           Ent!TicksPerMilli, TicksPerMilli
  <1>5. ASSUME NEW t
        PROVE  /\ Ent!IsValid(t) <=> IsValid(t)
               /\ Ent!ErrKindUpdate(t) = ErrKindUpdate(t)
               /\ Ent!ErrKindMarkAsDone(t) = ErrKindMarkAsDone(t)
    BY DEF Ent!IsValid, IsValid, Ent!IsState, IsState, Ent!States, States,
           Ent!ZeroTime, ZeroTime, Ent!ErrKindUpdate, ErrKindUpdate,
           Ent!ErrKindMarkAsDone, ErrKindMarkAsDone, Ent!ErrKind, ErrKind
  <1>6. ASSUME NEW v
        PROVE  Ent!NormalizeTime(v) = NormalizeTime(v) /\ Ent!MapOf(v) = MapOf(v)
    BY DEF Ent!NormalizeTime, NormalizeTime, Ent!TicksPerMilli, TicksPerMilli,
           Ent!MapOf, MapOf, Ent!EmptyMap, EmptyMap
  <1> QED BY <1>1, <1>2, <1>3, <1>4, <1>5, <1>6

-----------------------------------------------------------------------------
(* Times: what is truncated stays as it is. *)
LEMMA Truncated ==
  ASSUME NEW v \in Int \cup {None}
  PROVE  /\ NormalizeOption(v) \in Int \cup {None}
         /\ NormalizeOption(v) = None <=> v = None
         /\ NormalizeOption(NormalizeOption(v)) = NormalizeOption(v)
         /\ v \in Int => /\ NormalizeOption(v) = NormalizeTime(v)
                         /\ NormalizeTime(v) \in Int
                         /\ NormalizeTime(NormalizeTime(v)) = NormalizeTime(v)
  BY DurationsAssumption DEF NormalizeOption, NormalizeTime, TicksPerMilli

(* The fields of a task, one by one. *)
LEMMA FieldNames ==
  /\ Fields = {"id", "work_id", "priority", "state", "err", "param", "meta",
               "scheduled_at", "created_at", "deadline", "cancelled_at",
               "dispatched_at", "done_at"}
  /\ Updatable \subseteq Fields /\ Maps \subseteq Updatable
  /\ Times \subseteq Fields /\ OptionalTimes \subseteq Times
  /\ Maps \cap Times = {}
  BY DEF Fields, ZeroTask, Updatable, Maps, Times, OptionalTimes

-----------------------------------------------------------------------------
(* A stored task: a time that is set is truncated, no field is Null. *)
TaskOK(t, id) ==
    /\ t = [f \in Fields |-> t[f]]
    /\ t.id = id
    /\ t.priority \in Int
    /\ \A f \in Times : /\ t[f] \in Int \cup {None}
                        /\ NormalizeOption(t[f]) = t[f]
    /\ \A f \in Times \ OptionalTimes : t[f] \in Int
    /\ \A f \in Fields \ OptionalTimes : t[f] # Null
    /\ t.state # "err" => t.err = ""

LEMMA NormalizedParam ==
  ASSUME NEW p, IsParam(p)
  PROVE  /\ IsParam(NormalizeParam(p))
         /\ DOMAIN NormalizeParam(p) = DOMAIN p
         /\ \A f \in DOMAIN p :
               NormalizeParam(p)[f] = IF f \in Times THEN NormalizeOption(p[f])
                                      ELSE p[f]
         /\ \A f \in DOMAIN p \cap Times : p[f] \in Int \cup {None}
         /\ \A f \in (DOMAIN p \cap Times) \ OptionalTimes : p[f] \in Int
         /\ \A f \in DOMAIN p \ OptionalTimes : p[f] # Null
  <1>1. \A f \in DOMAIN p \cap Times : p[f] \in Int \cup {None}
    BY DEF IsParam, Times, OptionalTimes, Updatable
  <1>2. \A f \in (DOMAIN p \cap Times) \ OptionalTimes : p[f] \in Int
    BY DEF IsParam, Times, OptionalTimes, Updatable
  <1>3. DOMAIN p \cap Times \subseteq {"scheduled_at", "deadline"}
    BY DEF IsParam, Times, OptionalTimes, Updatable
  <1>4. /\ DOMAIN NormalizeParam(p) = DOMAIN p
        /\ \A f \in DOMAIN p :
              NormalizeParam(p)[f] = IF f \in Times THEN NormalizeOption(p[f])
                                     ELSE p[f]
    BY <1>3 DEF NormalizeParam, Times, OptionalTimes
  <1>5. \A f \in DOMAIN p \ OptionalTimes : p[f] # Null
    BY TwinAssumption DEF IsParam, OptionalTimes, Updatable, Maps
  <1>6. IsParam(NormalizeParam(p))
    <2>1. \A f \in DOMAIN p \ Times : NormalizeParam(p)[f] = p[f]
      BY <1>4
    <2>2. "scheduled_at" \in DOMAIN p => NormalizeParam(p)["scheduled_at"] \in Int
      BY <1>2, <1>4, Truncated DEF Times, OptionalTimes
    <2>3. "deadline" \in DOMAIN p =>
             NormalizeParam(p)["deadline"] \in Int \cup {None}
      <3>1. "deadline" \in Times
        BY DEF Times, OptionalTimes
      <3>2. "deadline" \in DOMAIN p =>
               /\ p["deadline"] \in Int \cup {None}
               /\ NormalizeParam(p)["deadline"] = NormalizeOption(p["deadline"])
        BY <1>1, <1>4, <3>1
      <3> QED BY <3>2, Truncated
    <2>4. "work_id" \notin Times /\ "priority" \notin Times /\ Maps \cap Times = {}
      BY DEF Times, OptionalTimes, Maps
    <2> QED BY <1>4, <2>1, <2>2, <2>3, <2>4 DEF IsParam
  <1> QED BY <1>1, <1>2, <1>4, <1>5, <1>6

(* What Update leaves in a field. *)
Updated(t, p, f) ==
    LET v == IF f \in Updatable THEN AssignIfSome(t[f], p, f) ELSE t[f]
    IN  IF f \in Times THEN NormalizeOption(v) ELSE v

LEMMA UpdateFields ==
  ASSUME NEW t, NEW p
  PROVE  /\ Update(t, p) = [f \in Fields |-> Updated(t, p, f)]
         /\ \A f \in Fields : Update(t, p)[f] = Updated(t, p, f)
  BY FieldNames DEF Update, NormalizeTask, Updated

LEMMA UpdateNormalized ==
  ASSUME NEW t, NEW p, IsParam(p)
  PROVE  Update(t, NormalizeParam(p)) = Update(t, p)
  <1> DEFINE n == NormalizeParam(p)
  <1>1. ASSUME NEW f \in Fields
        PROVE  Updated(t, n, f) = Updated(t, p, f)
    <2>1. CASE f \in DOMAIN p /\ f \in Times
      <3>1. n[f] = NormalizeOption(p[f]) /\ p[f] \in Int \cup {None}
        BY <2>1, NormalizedParam
      <3>2. NormalizeOption(n[f]) = NormalizeOption(p[f])
        BY <3>1, Truncated
      <3>3. f \in DOMAIN n /\ f \notin Maps
        BY <2>1, NormalizedParam, FieldNames
      <3> HIDE DEF n
      <3> QED BY <2>1, <3>2, <3>3 DEF Updated, AssignIfSome
    <2>2. CASE ~(f \in DOMAIN p /\ f \in Times)
      <3>1. f \in DOMAIN p <=> f \in DOMAIN n
        BY NormalizedParam
      <3>2. f \in DOMAIN p => n[f] = p[f]
        BY <2>2, NormalizedParam
      <3> HIDE DEF n
      <3> QED BY <3>1, <3>2 DEF Updated, AssignIfSome
    <2> QED BY <2>1, <2>2
  <1> HIDE DEF n
  <1>2. Update(t, n) = Update(t, p)
    BY <1>1, UpdateFields
  <1> QED BY <1>2 DEF n

LEMMA UpdateOK ==
  ASSUME NEW t, NEW id, TaskOK(t, id), NEW p, IsParam(p)
  PROVE  TaskOK(Update(t, p), id)
  <1> DEFINE u == Update(t, p)
  <1>1. u = [f \in Fields |-> u[f]] /\ \A f \in Fields : u[f] = Updated(t, p, f)
    BY UpdateFields
  <1> HIDE DEF u
  <1>2. u.id = id
    <2>1. "id" \in Fields /\ "id" \notin Updatable /\ "id" \notin Times
      BY DEF Updatable, Times, OptionalTimes, Fields, ZeroTask
    <2> QED BY <1>1, <2>1 DEF Updated, TaskOK
  <1>3. u.priority \in Int
    <2>1. /\ "priority" \in Fields /\ "priority" \in Updatable
          /\ "priority" \notin Times /\ "priority" \notin Maps
      BY DEF Updatable, Times, OptionalTimes, Fields, ZeroTask, Maps
    <2> QED BY <1>1, <2>1 DEF Updated, TaskOK, AssignIfSome, IsParam
  <1>4. ASSUME NEW f \in Times
        PROVE  /\ u[f] \in Int \cup {None} /\ NormalizeOption(u[f]) = u[f]
               /\ f \notin OptionalTimes => u[f] \in Int
    <2> DEFINE v == IF f \in Updatable THEN AssignIfSome(t[f], p, f) ELSE t[f]
    <2>1. v \in Int \cup {None} /\ (f \notin OptionalTimes => v \in Int)
      <3>1. f \notin Maps
        BY FieldNames
      <3>2. v = t[f] \/ (f \in DOMAIN p /\ v = p[f])
        BY <3>1 DEF AssignIfSome
      <3>3. t[f] \in Int \cup {None} /\ (f \notin OptionalTimes => t[f] \in Int)
        BY DEF TaskOK
      <3>4. f \in DOMAIN p => /\ p[f] \in Int \cup {None}
                              /\ f \notin OptionalTimes => p[f] \in Int
        BY NormalizedParam
      <3> HIDE DEF v
      <3> QED BY <3>2, <3>3, <3>4
    <2>2. u[f] = NormalizeOption(v)
      BY <1>1, FieldNames DEF Updated
    <2> HIDE DEF v
    <2> QED BY <2>1, <2>2, Truncated, DurationsAssumption
  <1>5. ASSUME NEW f \in Fields \ OptionalTimes
        PROVE  u[f] # Null
    <2>1. CASE f \in Times
      BY <1>4, <2>1, TwinAssumption
    <2>2. CASE f \notin Times
      <3>1. u[f] = t[f] \/ (f \in DOMAIN p /\ u[f] = p[f]) \/ u[f] = EmptyMap
        BY <1>1, <2>2 DEF Updated, AssignIfSome, MapOf
      <3> QED BY <3>1, NormalizedParam, TwinAssumption DEF TaskOK
    <2> QED BY <2>1, <2>2
  <1>7. u.state = t.state /\ u.err = t.err
    <2>1. /\ {"state", "err"} \subseteq Fields
          /\ {"state", "err"} \cap (Updatable \cup Times) = {}
      BY DEF Updatable, Times, OptionalTimes, Fields, ZeroTask
    <2> QED BY <1>1, <2>1 DEF Updated
  <1>6. TaskOK(u, id)
    BY <1>1, <1>2, <1>3, <1>4, <1>5, <1>7 DEF TaskOK
  <1> QED BY <1>6 DEF u

LEMMA ToTaskOK ==
  ASSUME NEW p, IsParam(p), NEW id \in Int, NEW now \in Int
  PROVE  /\ ToTask(NormalizeParam(p), id, now) = ToTask(p, id, now)
         /\ TaskOK(ToTask(p, id, now), id)
         /\ ToTask(p, id, now).state = "scheduled"
  <1> DEFINE t == [ZeroTask EXCEPT !.id = id, !.state = "scheduled",
                                   !.created_at = NormalizeTime(now)]
  <1>1. ToTask(p, id, now) = Update(t, p)
        /\ ToTask(NormalizeParam(p), id, now) = Update(t, NormalizeParam(p))
    BY DEF ToTask
  <1>2. TaskOK(t, id)
    <2>1. NormalizeTime(now) \in Int
          /\ NormalizeOption(NormalizeTime(now)) = NormalizeTime(now)
      BY Truncated DEF NormalizeOption, NormalizeTime, TicksPerMilli
    <2>2. NormalizeOption(0) = 0 /\ NormalizeOption(None) = None
      BY DurationsAssumption DEF NormalizeOption, NormalizeTime, TicksPerMilli
    <2>3. /\ t = [f \in Fields |-> t[f]] /\ t.id = id /\ t.priority = 0
          /\ t.state = "scheduled" /\ t.work_id = "" /\ t.err = ""
          /\ t.param = Nil /\ t.meta = Nil /\ t.scheduled_at = 0
          /\ t.created_at = NormalizeTime(now)
          /\ \A f \in OptionalTimes : t[f] = None
      <3>1. t \in [id : {id}, work_id : {""}, priority : {0},
                    state : {"scheduled"}, err : {""}, param : {Nil},
                    meta : {Nil}, scheduled_at : {0},
                    created_at : {NormalizeTime(now)}, deadline : {None},
                    cancelled_at : {None}, dispatched_at : {None},
                    done_at : {None}]
        BY DEF ZeroTask, ZeroTime
      <3> HIDE DEF t
      <3> QED BY <3>1, FieldNames DEF OptionalTimes
    <2> HIDE DEF t
    <2>4. ASSUME NEW f \in Times
          PROVE  /\ t[f] \in Int \cup {None} /\ NormalizeOption(t[f]) = t[f]
                 /\ f \notin OptionalTimes => t[f] \in Int
      <3>1. CASE f \in OptionalTimes
        BY <2>2, <2>3, <3>1
      <3>2. CASE f \notin OptionalTimes
        <4>1. f \in {"scheduled_at", "created_at"}
          BY <3>2 DEF Times
        <4>2. t["scheduled_at"] = 0 /\ t["created_at"] = NormalizeTime(now)
          BY <2>3
        <4> QED BY <2>1, <2>2, <3>2, <4>1, <4>2
      <3> QED BY <3>1, <3>2
    <2>5. ASSUME NEW f \in Fields \ OptionalTimes
          PROVE  t[f] # Null
      <3>1. f \in {"id", "work_id", "priority", "state", "err", "param", "meta",
                   "scheduled_at", "created_at"}
        BY FieldNames DEF OptionalTimes
      <3>2. "scheduled" \in States
        BY DEF States
      <3>3. /\ t["id"] = id /\ t["work_id"] = "" /\ t["priority"] = 0
            /\ t["state"] = "scheduled" /\ t["err"] = "" /\ t["param"] = Nil
            /\ t["meta"] = Nil /\ t["scheduled_at"] = 0
            /\ t["created_at"] = NormalizeTime(now)
        BY <2>3
      <3>4. {id, 0, NormalizeTime(now)} \subseteq Int
        BY <2>1
      <3>5. Null \notin {id, 0, NormalizeTime(now), "scheduled", "", Nil}
        BY <3>2, <3>4, TwinAssumption DEF Results
      <3> HIDE DEF t
      <3> QED BY <3>1, <3>3, <3>5
    <2>6. t.priority \in Int
      <3>1. t.priority = 0
        BY <2>3
      <3> QED BY <3>1
    <2>7. \A f \in Times \ OptionalTimes : t[f] \in Int
      BY <2>4
    <2> QED BY <2>3, <2>4, <2>5, <2>6, <2>7 DEF TaskOK
  <1>3. Update(t, p).state = "scheduled"
    <2>1. "state" \in Fields /\ "state" \notin Updatable /\ "state" \notin Times
      BY DEF Updatable, Times, OptionalTimes, Fields, ZeroTask
    <2>2. t.state = "scheduled"
      BY DEF ZeroTask
    <2> HIDE DEF t
    <2> QED BY <2>1, <2>2, UpdateFields DEF Updated
  <1> HIDE DEF t
  <1> QED BY <1>1, <1>2, <1>3, UpdateOK, UpdateNormalized

-----------------------------------------------------------------------------
(* Induction, as a set of naturals that is not empty has a smallest one. *)
LEMMA SetInduction ==
  ASSUME NEW S, 0 \in S, \A n \in Nat : n \in S => n + 1 \in S
  PROVE  \A n \in Nat : n \in S
  <1> SUFFICES ASSUME Nat \ S # {} PROVE FALSE
    OBVIOUS
  <1> DEFINE R == OpToRel(<, Nat)
  <1>1. IsWellFoundedOn(R, Nat)
    BY NatLessThanWellFounded, Zenon
  <1> HIDE DEF R
  <1>2. PICK m \in Nat \ S : \A k \in Nat \ S : ~(<<k, m>> \in R)
    BY <1>1, WFMin
  <1>3. m - 1 \in Nat /\ m - 1 < m
    BY <1>2
  <1>4. m - 1 \in S
    BY <1>2, <1>3 DEF R, OpToRel
  <1> QED BY <1>2, <1>3, <1>4

-----------------------------------------------------------------------------
(* u is s, then t. *)
Joins(u, s, t) == u = s \o t

LEMMA JoinFacts ==
  ASSUME NEW T, NEW s \in Seq(T), NEW t \in Seq(T), NEW u, Joins(u, s, t)
  PROVE  /\ u \in Seq(T)
         /\ Len(u) = Len(s) + Len(t)
         /\ \A i \in 1 .. Len(s) : u[i] = s[i]
         /\ \A i \in 1 .. Len(t) : u[Len(s) + i] = t[i]
  <1>1. u \in Seq(T) /\ Len(u) = Len(s) + Len(t)
    BY ConcatProperties DEF Joins
  <1>2. \A i \in 1 .. Len(s) + Len(t) :
           u[i] = IF i <= Len(s) THEN s[i] ELSE t[i - Len(s)]
    BY ConcatProperties DEF Joins
  <1>3. Len(s) \in Nat /\ Len(t) \in Nat
    OBVIOUS
  <1>4. ASSUME NEW i \in 1 .. Len(s)
        PROVE  u[i] = s[i]
    BY <1>2, <1>3
  <1>5. ASSUME NEW i \in 1 .. Len(t)
        PROVE  u[Len(s) + i] = t[i]
    <2>1. PICK k, n : k = n + i /\ n = Len(s)
      OBVIOUS
    <2>2. k \in 1 .. Len(s) + Len(t) /\ ~(k <= n) /\ k - n = i
      BY <1>3, <2>1
    <2> QED BY <1>2, <2>1, <2>2
  <1> QED BY <1>1, <1>4, <1>5

LEMMA JoinPair ==
  ASSUME NEW a, NEW b, NEW c
  PROVE  <<a>> \o <<b, c>> = <<a, b, c>>
  <1>1. PICK T : T = {a, b, c}
    OBVIOUS
  <1>2. PICK s, x, y : s = <<a>> /\ x = <<b, c>> /\ y = <<a, b, c>>
    OBVIOUS
  <1>3. s \in Seq(T) /\ x \in Seq(T) /\ y \in Seq(T)
    BY <1>1, <1>2
  <1>4. /\ Len(s) = 1 /\ s[1] = a
        /\ Len(x) = 2 /\ x[1] = b /\ x[2] = c
        /\ Len(y) = 3 /\ y[1] = a /\ y[2] = b /\ y[3] = c
    BY <1>2
  <1>5. PICK w : Joins(w, s, x)
    BY DEF Joins
  <1>6. w \in Seq(T) /\ Len(w) = 3 /\ w[1] = a /\ w[2] = b /\ w[3] = c
    <2>1. /\ w \in Seq(T) /\ Len(w) = Len(s) + Len(x)
          /\ \A i \in 1 .. Len(s) : w[i] = s[i]
          /\ \A i \in 1 .. Len(x) : w[Len(s) + i] = x[i]
      BY <1>3, <1>5, JoinFacts
    <2>2. w[1] = s[1] /\ w[1 + 1] = x[1] /\ w[1 + 2] = x[2]
      BY <1>4, <2>1
    <2> QED BY <1>4, <2>1, <2>2
  <1>7. w = y
    <2>1. \A k \in 1 .. 3 : w[k] = y[k]
      BY <1>4, <1>6
    <2> QED BY <1>3, <1>4, <1>6, <2>1, SeqEqual
  <1>8. w = <<a>> \o <<b, c>> /\ y = <<a, b, c>>
    BY <1>2, <1>5 DEF Joins
  <1> QED BY <1>7, <1>8

LEMMA JoinThree ==
  ASSUME NEW a, NEW b, NEW c, NEW d
  PROVE  <<a>> \o <<b, c, d>> = <<a, b, c, d>>
  <1>1. PICK T : T = {a, b, c, d}
    OBVIOUS
  <1>2. PICK s, x, y : s = <<a>> /\ x = <<b, c, d>> /\ y = <<a, b, c, d>>
    OBVIOUS
  <1>3. s \in Seq(T) /\ x \in Seq(T) /\ y \in Seq(T)
    BY <1>1, <1>2
  <1>4. /\ Len(s) = 1 /\ s[1] = a
        /\ Len(x) = 3 /\ x[1] = b /\ x[2] = c /\ x[3] = d
        /\ Len(y) = 4 /\ y[1] = a /\ y[2] = b /\ y[3] = c /\ y[4] = d
    BY <1>2
  <1>5. PICK w : Joins(w, s, x)
    BY DEF Joins
  <1>6. w \in Seq(T) /\ Len(w) = 4 /\ w[1] = a /\ w[2] = b /\ w[3] = c /\ w[4] = d
    <2>1. /\ w \in Seq(T) /\ Len(w) = Len(s) + Len(x)
          /\ \A i \in 1 .. Len(s) : w[i] = s[i]
          /\ \A i \in 1 .. Len(x) : w[Len(s) + i] = x[i]
      BY <1>3, <1>5, JoinFacts
    <2>2. w[1] = s[1] /\ w[1 + 1] = x[1] /\ w[1 + 2] = x[2] /\ w[1 + 3] = x[3]
      BY <1>4, <2>1
    <2> QED BY <1>4, <2>1, <2>2
  <1>7. w = y
    <2>1. \A k \in 1 .. 4 : w[k] = y[k]
      BY <1>4, <1>6
    <2> QED BY <1>3, <1>4, <1>6, <2>1, SeqEqual
  <1>8. w = <<a>> \o <<b, c, d>> /\ y = <<a, b, c, d>>
    BY <1>2, <1>5 DEF Joins
  <1> QED BY <1>7, <1>8

(* A mutation after the first k of some method calls. *)
Builds(op, id, calls, g, n) ==
    g = [k \in 0 .. n |-> IF k = 0 THEN Ent!NewMutation(op, id)
                          ELSE Ent!BuilderMethod(g[k - 1], calls[k])]

LEMMA BuildExists ==
  ASSUME NEW op, NEW id, NEW calls, NEW n \in Nat
  PROVE  \E g : Builds(op, id, calls, g, n)
  <1> DEFINE S == {m \in Nat : \E g : Builds(op, id, calls, g, m)}
  <1>1. 0 \in S
    <2>1. Builds(op, id, calls, [k \in 0 .. 0 |-> Ent!NewMutation(op, id)], 0)
      BY DEF Builds
    <2> QED BY <2>1
  <1>2. ASSUME NEW m \in Nat, m \in S
        PROVE  m + 1 \in S
    <2>1. PICK g : Builds(op, id, calls, g, m)
      BY <1>2
    <2> DEFINE h == [k \in 0 .. m + 1 |->
                       IF k = m + 1 THEN Ent!BuilderMethod(g[m], calls[m + 1])
                       ELSE g[k]]
    <2>2. ASSUME NEW k \in 0 .. m + 1
          PROVE  h[k] = IF k = 0 THEN Ent!NewMutation(op, id)
                        ELSE Ent!BuilderMethod(h[k - 1], calls[k])
      <3>1. CASE k = m + 1
        BY <3>1
      <3>2. CASE k # m + 1
        <4>1. k \in 0 .. m /\ h[k] = g[k] /\ (k # 0 => h[k - 1] = g[k - 1])
          BY <3>2
        <4> HIDE DEF h
        <4> QED BY <2>1, <4>1 DEF Builds
      <3> QED BY <3>1, <3>2
    <2>3. h = [k \in 0 .. m + 1 |-> h[k]]
      OBVIOUS
    <2> HIDE DEF h
    <2>4. Builds(op, id, calls, h, m + 1)
      BY <2>2, <2>3 DEF Builds
    <2> QED BY <2>4
  <1> HIDE DEF S
  <1>3. n \in S
    BY <1>1, <1>2, SetInduction
  <1> QED BY <1>3 DEF S

SameUpto(c, d, m) == \A k \in 1 .. m : c[k] = d[k]

LEMMA BuildUnique ==
  ASSUME NEW op, NEW id, NEW c, NEW d, NEW g, NEW h, NEW m \in Nat, NEW n \in Nat,
         Builds(op, id, c, g, m), Builds(op, id, d, h, n), m <= n,
         SameUpto(c, d, m)
  PROVE  g[m] = h[m]
  <1> DEFINE S == {k \in Nat : k <= m => g[k] = h[k]}
  <1>1. 0 \in S
    BY DEF Builds
  <1>2. ASSUME NEW k \in Nat, k \in S
        PROVE  k + 1 \in S
    <2>1. ASSUME k + 1 <= m
          PROVE  g[k + 1] = h[k + 1]
      <3>1. g[k] = h[k] /\ c[k + 1] = d[k + 1]
        BY <1>2, <2>1 DEF SameUpto
      <3>2. /\ k + 1 \in 0 .. m /\ k + 1 \in 0 .. n /\ k + 1 # 0
            /\ (k + 1) - 1 = k
        BY <2>1
      <3>3. g[k + 1] = Ent!BuilderMethod(g[k], c[k + 1])
        BY <3>2 DEF Builds
      <3>4. h[k + 1] = Ent!BuilderMethod(h[k], d[k + 1])
        BY <3>2 DEF Builds
      <3> QED BY <3>1, <3>3, <3>4
    <2> QED BY <2>1
  <1> HIDE DEF S
  <1>3. m \in S
    BY <1>1, <1>2, SetInduction
  <1> QED BY <1>3 DEF S

LEMMA BuiltIs ==
  ASSUME NEW op, NEW id, NEW calls, NEW T, calls \in Seq(T)
  PROVE  \E g : /\ Builds(op, id, calls, g, Len(calls))
                /\ Ent!Built(op, id, calls) = g[Len(calls)]
  <1> DEFINE g == CHOOSE g : Builds(op, id, calls, g, Len(calls))
  <1>1. Ent!Built(op, id, calls) = g[Len(calls)]
    BY DEF Ent!Built, Builds
  <1>2. Builds(op, id, calls, g, Len(calls))
    BY BuildExists
  <1> QED BY <1>1, <1>2

LEMMA BuiltNone ==
  ASSUME NEW op, NEW id
  PROVE  Ent!Built(op, id, <<>>) = Ent!NewMutation(op, id)
  <1>1. PICK g : Builds(op, id, <<>>, g, 0) /\ Ent!Built(op, id, <<>>) = g[0]
    <2>1. <<>> \in Seq({}) /\ Len(<<>>) = 0
      OBVIOUS
    <2> QED BY <2>1, BuiltIs
  <1> QED BY <1>1 DEF Builds

(* t is s and one more call. *)
Extends(t, s, c) == (\E T : s \in Seq(T) /\ c \in T) /\ t = Append(s, c)

LEMMA BuiltMore ==
  ASSUME NEW op, NEW id, NEW s, NEW c, NEW t, Extends(t, s, c)
  PROVE  Ent!Built(op, id, t) = Ent!BuilderMethod(Ent!Built(op, id, s), c)
  <1>1. PICK T : s \in Seq(T) /\ c \in T /\ t = Append(s, c)
    BY DEF Extends
  <1>2. PICK n \in Nat, z \in Nat : n = Len(s) /\ z = n + 1
    BY <1>1
  <1>3. /\ t \in Seq(T) /\ Len(t) = z /\ t[z] = c
        /\ \A k \in 1 .. n : s[k] = t[k]
    BY <1>1, <1>2
  <1>4. PICK g : Builds(op, id, s, g, n) /\ Ent!Built(op, id, s) = g[n]
    BY <1>1, <1>2, BuiltIs
  <1>5. PICK h : Builds(op, id, t, h, z) /\ Ent!Built(op, id, t) = h[z]
    BY <1>3, BuiltIs
  <1>6. h[z] = Ent!BuilderMethod(h[n], c)
    <2>1. z \in 0 .. z /\ z # 0 /\ z - 1 = n
      BY <1>2
    <2> QED BY <1>3, <1>5, <2>1 DEF Builds
  <1>7. g[n] = h[n]
    <2>1. n \in Nat /\ z \in Nat /\ n <= z
      BY <1>2
    <2>2. SameUpto(s, t, n)
      BY <1>3 DEF SameUpto
    <2>3. Builds(op, id, s, g, n) /\ Builds(op, id, t, h, z)
      BY <1>4, <1>5
    <2> QED BY <2>1, <2>2, <2>3, BuildUnique
  <1> QED BY <1>4, <1>5, <1>6, <1>7

-----------------------------------------------------------------------------
(* What the methods of a builder make of its mutation. *)
Mutation(op, id, set, cleared, where) ==
    [op |-> op, id |-> id, set |-> set, add |-> None, cleared |-> cleared,
     where |-> where]

NothingSet == [c \in {} |-> 0]

MutationNames == {"op", "id", "set", "add", "cleared", "where"}

LEMMA MutationFields ==
  ASSUME NEW op, NEW id, NEW set, NEW cleared, NEW where,
         NEW m, m = Mutation(op, id, set, cleared, where)
  PROVE  /\ m = [f \in MutationNames |-> m[f]]
         /\ m.op = op /\ m.id = id /\ m.set = set /\ m.add = None
         /\ m.cleared = cleared /\ m.where = where
  BY DEF Mutation, MutationNames

LEMMA NewIsMutation ==
  ASSUME NEW op, NEW id
  PROVE  Ent!NewMutation(op, id) = Mutation(op, id, NothingSet, {}, <<>>)
  BY DEF Ent!NewMutation, Mutation, NothingSet

LEMMA PriorityIsRequired == "priority" \notin Ent!Nullable
  BY EntOperators DEF OptionalTimes

LEMMA MethodWhere ==
  ASSUME NEW op \in {"UpdateOne", "Update", "Delete"}, NEW id, NEW set,
         NEW cleared, NEW where, NEW p
  PROVE  Ent!BuilderMethod(Mutation(op, id, set, cleared, where), Ent!Where(p))
            = Mutation(op, id, set, cleared, Append(where, p))
  <1> DEFINE m == Mutation(op, id, set, cleared, where)
             n == Mutation(op, id, set, cleared, Append(where, p))
             call == Ent!Where(p)
  <1>1. /\ m = [f \in MutationNames |-> m[f]]
        /\ m.op = op /\ m.id = id /\ m.add = None /\ m.cleared = cleared
        /\ m.where = where
        /\ m.set = set
    BY MutationFields
  <1>n. /\ n = [f \in MutationNames |-> n[f]]
        /\ n.op = op /\ n.id = id /\ n.add = None /\ n.cleared = cleared
        /\ n.where = Append(where, p)
        /\ n.set = set
    BY DEF Mutation, MutationNames
  <1>3. /\ call.method = "Where" /\ call.value = p
        /\ call.column # "priority" /\ call.column \notin Ent!Nullable
    BY EntOperators DEF Ent!Where, OptionalTimes
  <1> HIDE DEF m, n, call
  <1>2. [m EXCEPT !.where = Append(where, p)] = n
    BY <1>1, <1>n DEF MutationNames
  <1>4. Ent!MutationMethod(m, call) = n
    BY <1>1, <1>2, <1>3 DEF Ent!MutationMethod
  <1>5. Ent!UpdateOneMethod(m, call) = n
    BY <1>3, <1>4 DEF Ent!UpdateOneMethod, Ent!CreateMethod
  <1>6. Ent!BuilderMethod(m, call) = n
    BY <1>1, <1>4, <1>5 DEF Ent!BuilderMethod, Ent!UpdateMethod
  <1> QED BY <1>6 DEF m, n, call

(* The mutation's own SetX, of any column. *)
LEMMA MutationSet ==
  ASSUME NEW op, NEW id, NEW set, NEW cleared, NEW where, NEW c, NEW v
  PROVE  Ent!MutationMethod(Mutation(op, id, set, cleared, where), Ent!Set(c, v))
            = Mutation(op, id, Ent!With(set, c, v), cleared, where)
  <1> DEFINE m == Mutation(op, id, set, cleared, where)
             n == Mutation(op, id, Ent!With(set, c, v), cleared, where)
             call == Ent!Set(c, v)
  <1>1. /\ m = [f \in MutationNames |-> m[f]]
        /\ m.op = op /\ m.id = id /\ m.add = None /\ m.cleared = cleared
        /\ m.where = where
        /\ m.set = set
    BY MutationFields
  <1>n. /\ n = [f \in MutationNames |-> n[f]]
        /\ n.op = op /\ n.id = id /\ n.add = None /\ n.cleared = cleared
        /\ n.where = where
        /\ n.set = Ent!With(set, c, v)
    BY MutationFields
  <1>3. call.method = "Set" /\ call.column = c /\ call.value = v
    BY DEF Ent!Set
  <1> HIDE DEF m, n, call
  <1>2. /\ [m EXCEPT !.set = Ent!With(set, c, v)] = n
        /\ [m EXCEPT !.set = Ent!With(set, c, v), !.add = None] = n
    BY <1>1, <1>n DEF MutationNames
  <1>4. CASE c = "priority"
    <2>1. Ent!MutationMethod(m, call) = Ent!PriorityMethod(m, call)
      BY <1>3, <1>4, PriorityIsRequired DEF Ent!MutationMethod
    <2>2. Ent!PriorityMethod(m, call)
             = [m EXCEPT !.set = Ent!With(set, c, v), !.add = None]
      BY <1>1, <1>3, <1>4 DEF Ent!PriorityMethod
    <2> QED BY <1>2, <2>1, <2>2 DEF m, n, call
  <1>5. CASE c # "priority"
    <2>1. \/ Ent!MutationMethod(m, call) = Ent!NullableMethod(m, call)
          \/ Ent!MutationMethod(m, call) = Ent!RequiredMethod(m, call)
      BY <1>3, <1>5 DEF Ent!MutationMethod
    <2>2. /\ Ent!NullableMethod(m, call) = [m EXCEPT !.set = Ent!With(set, c, v)]
          /\ Ent!RequiredMethod(m, call) = [m EXCEPT !.set = Ent!With(set, c, v)]
      BY <1>1, <1>3 DEF Ent!NullableMethod, Ent!RequiredMethod
    <2> QED BY <1>2, <2>1, <2>2 DEF m, n, call
  <1> QED BY <1>4, <1>5

LEMMA MethodSet ==
  ASSUME NEW op \in {"Create", "UpdateOne", "Update"}, NEW id, NEW set,
         NEW cleared, NEW where, NEW c, NEW v
  PROVE  Ent!BuilderMethod(Mutation(op, id, set, cleared, where), Ent!Set(c, v))
            = Mutation(op, id, Ent!With(set, c, v), cleared, where)
  <1> DEFINE m == Mutation(op, id, set, cleared, where)
             n == Mutation(op, id, Ent!With(set, c, v), cleared, where)
             call == Ent!Set(c, v)
  <1>1. /\ m = [f \in MutationNames |-> m[f]]
        /\ m.op = op /\ m.id = id /\ m.add = None /\ m.cleared = cleared
        /\ m.where = where
        /\ m.set = set
    BY MutationFields
  <1>2. Ent!MutationMethod(m, call) = n
    BY MutationSet
  <1>3. call.method = "Set" /\ call.column = c
    BY DEF Ent!Set
  <1>4. CASE c # "priority" \/ op = "Create"
    <2> HIDE DEF m, n, call
    <2>1. Ent!BuilderMethod(m, call) = n
      BY <1>1, <1>2, <1>3, <1>4
         DEF Ent!BuilderMethod, Ent!UpdateMethod, Ent!UpdateOneMethod,
             Ent!CreateMethod
    <2> QED BY <2>1 DEF m, n, call
  <1>5. CASE c = "priority" /\ op # "Create"
    <2> DEFINE less == Ent!Without(set, c)
               r == Mutation(op, id, less, cleared, where)
               reset == Ent!Reset(c)
    <2>1. reset.method = "Reset" /\ reset.column = "priority"
      BY <1>5 DEF Ent!Reset
    <2>2. /\ r = [f \in MutationNames |-> r[f]]
          /\ r.op = op /\ r.id = id /\ r.add = None /\ r.cleared = cleared
          /\ r.where = where
          /\ r.set = less
      BY MutationFields
    <2>3. Ent!MutationMethod(r, call)
             = Mutation(op, id, Ent!With(less, c, v), cleared, where)
      BY MutationSet
    <2>4. Ent!With(less, c, v) = Ent!With(set, c, v)
      BY DEF Ent!With, Ent!Without
    <2>5. Ent!MutationMethod(r, call) = n
      BY <2>3, <2>4
    <2> HIDE DEF m, n, call, r, reset
    <2>c. [m EXCEPT !.set = less, !.add = None] = r
      BY <1>1, <2>2 DEF MutationNames
    <2>6. Ent!MutationMethod(m, reset) = Ent!PriorityMethod(m, reset)
      BY <2>1, PriorityIsRequired DEF Ent!MutationMethod
    <2>7. Ent!PriorityMethod(m, reset) = [m EXCEPT !.set = less, !.add = None]
      BY <1>1, <1>5, <2>1 DEF Ent!PriorityMethod
    <2>8. Ent!UpdateOneMethod(m, call) = Ent!MutationMethod(r, call)
      BY <1>3, <1>5, <2>c, <2>6, <2>7 DEF Ent!UpdateOneMethod, reset
    <2>9. Ent!BuilderMethod(m, call) = n
      BY <1>1, <1>5, <2>5, <2>8 DEF Ent!BuilderMethod, Ent!UpdateMethod
    <2> QED BY <2>9 DEF m, n, call
  <1> QED BY <1>4, <1>5

LEMMA MethodClear ==
  ASSUME NEW op \in {"Create", "UpdateOne", "Update"}, NEW id, NEW set,
         NEW cleared, NEW where, NEW c \in OptionalTimes
  PROVE  Ent!BuilderMethod(Mutation(op, id, set, cleared, where), Ent!Clear(c))
            = Mutation(op, id, Ent!Without(set, c), cleared \cup {c}, where)
  <1> DEFINE m == Mutation(op, id, set, cleared, where)
             n == Mutation(op, id, Ent!Without(set, c), cleared \cup {c}, where)
             call == Ent!Clear(c)
  <1>1. /\ m = [f \in MutationNames |-> m[f]]
        /\ m.op = op /\ m.id = id /\ m.add = None /\ m.cleared = cleared
        /\ m.where = where
        /\ m.set = set
    BY MutationFields
  <1>n. /\ n = [f \in MutationNames |-> n[f]]
        /\ n.op = op /\ n.id = id /\ n.add = None /\ n.cleared = cleared \cup {c}
        /\ n.where = where
        /\ n.set = Ent!Without(set, c)
    BY MutationFields
  <1>3. /\ call.method = "Clear" /\ call.column = c
        /\ c # "priority" /\ c \in Ent!Nullable
    BY EntOperators DEF Ent!Clear, OptionalTimes
  <1> HIDE DEF m, n, call
  <1>2. [m EXCEPT !.set = Ent!Without(set, c), !.cleared = cleared \cup {c}] = n
    BY <1>1, <1>n DEF MutationNames
  <1>4. Ent!MutationMethod(m, call) = Ent!NullableMethod(m, call)
    BY <1>3 DEF Ent!MutationMethod
  <1>5. Ent!NullableMethod(m, call)
           = [m EXCEPT !.set = Ent!Without(set, c), !.cleared = cleared \cup {c}]
    BY <1>1, <1>3 DEF Ent!NullableMethod
  <1>6. Ent!BuilderMethod(m, call) = Ent!MutationMethod(m, call)
    BY <1>1, <1>3 DEF Ent!BuilderMethod, Ent!UpdateMethod, Ent!UpdateOneMethod,
                      Ent!CreateMethod
  <1> QED BY <1>2, <1>4, <1>5, <1>6 DEF m, n, call

LEMMA MethodSetNillable ==
  ASSUME NEW id, NEW set, NEW cleared, NEW where, NEW c, NEW v
  PROVE  Ent!BuilderMethod(Mutation("Create", id, set, cleared, where),
                           Ent!SetNillable(c, v))
            = IF v = None THEN Mutation("Create", id, set, cleared, where)
              ELSE Mutation("Create", id, Ent!With(set, c, v), cleared, where)
  <1> DEFINE m == Mutation("Create", id, set, cleared, where)
             n == Mutation("Create", id, Ent!With(set, c, v), cleared, where)
             call == Ent!SetNillable(c, v)
  <1>1. m.op = "Create"
    BY MutationFields
  <1>2. call.method = "SetNillable" /\ call.column = c /\ call.value = v
    BY DEF Ent!SetNillable
  <1>3. Ent!MutationMethod(m, Ent!Set(c, v)) = n
    BY MutationSet
  <1> HIDE DEF m, n, call
  <1>4. Ent!BuilderMethod(m, call) = IF v = None THEN m ELSE n
    BY <1>1, <1>2, <1>3 DEF Ent!BuilderMethod, Ent!CreateMethod
  <1> QED BY <1>4 DEF m, n, call

-----------------------------------------------------------------------------
(* The mutations the operations build. *)
(* A method takes the mutation m to n. *)
Makes(m, call, n) == n = Ent!BuilderMethod(m, call)

BuildsTo(op, id, calls, m) == m = Ent!Built(op, id, calls)

LEMMA BuildsMore ==
  ASSUME NEW op, NEW id, NEW s, NEW m, BuildsTo(op, id, s, m),
         NEW c, NEW t, Extends(t, s, c), NEW n, Makes(m, c, n)
  PROVE  BuildsTo(op, id, t, n)
  BY BuiltMore DEF BuildsTo, Makes

LEMMA Tuples ==
  ASSUME NEW a, NEW b, NEW c, NEW d
  PROVE  /\ Extends(<<a>>, <<>>, a) /\ Extends(<<a, b>>, <<a>>, b)
         /\ Extends(<<a, b, c>>, <<a, b>>, c)
         /\ Extends(<<a, b, c, d>>, <<a, b, c>>, d)
  <1>1. PICK T : T = {a, b, c, d}
    OBVIOUS
  <1>2. PICK r, s, t, u, v : /\ r = <<>> /\ s = <<a>> /\ t = <<a, b>>
                             /\ u = <<a, b, c>> /\ v = <<a, b, c, d>>
    OBVIOUS
  <1>3. r \in Seq(T) /\ s \in Seq(T) /\ t \in Seq(T) /\ u \in Seq(T)
    BY <1>1, <1>2
  <1>4. /\ s = Append(r, a) /\ t = Append(s, b) /\ u = Append(t, c)
        /\ v = Append(u, d)
    BY <1>2
  <1>5. /\ Extends(s, r, a) /\ Extends(t, s, b) /\ Extends(u, t, c)
        /\ Extends(v, u, d)
    BY <1>1, <1>3, <1>4 DEF Extends
  <1> QED BY <1>2, <1>5

(* The calls of an UPDATE of the state, and what they set. *)
StateCalls(from, s) == <<Ent!Where(from), Ent!Set("state", s)>>
StampCalls(from, s, f, v) ==
    <<Ent!Where(from), Ent!Set("state", s), Ent!Set(f, v)>>
FailCalls(from, s, f, v, g, w) ==
    <<Ent!Where(from), Ent!Set("state", s), Ent!Set(f, v), Ent!Set(g, w)>>

StateSet(s) == Ent!With(NothingSet, "state", s)
StampSet(s, f, v) == Ent!With(StateSet(s), f, v)

LEMMA StateMutations ==
  ASSUME NEW op \in {"UpdateOne", "Update"}, NEW id, NEW from, NEW to,
         NEW f, NEW v, NEW g, NEW w
  PROVE  /\ BuildsTo(op, id, StateCalls(from, to),
                     Mutation(op, id, StateSet(to), {}, <<from>>))
         /\ BuildsTo(op, id, StampCalls(from, to, f, v),
                     Mutation(op, id, StampSet(to, f, v), {}, <<from>>))
         /\ BuildsTo(op, id, FailCalls(from, to, f, v, g, w),
                     Mutation(op, id, Ent!With(StampSet(to, f, v), g, w), {},
                              <<from>>))
  <1> DEFINE state == StateSet(to)
             both == StampSet(to, f, v)
             all == Ent!With(both, g, w)
             where == <<from>>
  <1>1. PICK m0, m1, m2, m3, m4 :
             /\ m0 = Ent!NewMutation(op, id)
             /\ m1 = Mutation(op, id, NothingSet, {}, where)
             /\ m2 = Mutation(op, id, state, {}, where)
             /\ m3 = Mutation(op, id, both, {}, where)
             /\ m4 = Mutation(op, id, all, {}, where)
    OBVIOUS
  <1>2. PICK a, b, c, d :
             /\ a = Ent!Where(from) /\ b = Ent!Set("state", to)
             /\ c = Ent!Set(f, v) /\ d = Ent!Set(g, w)
    OBVIOUS
  <1>3. Makes(m0, a, m1)
    <2>1. PICK none : none = <<>>
      OBVIOUS
    <2>2. Append(none, from) = where
      BY <2>1
    <2>3. Ent!BuilderMethod(Mutation(op, id, NothingSet, {}, none),
                            Ent!Where(from))
             = Mutation(op, id, NothingSet, {}, Append(none, from))
      BY MethodWhere
    <2>4. m0 = Mutation(op, id, NothingSet, {}, none)
      BY <1>1, <2>1, NewIsMutation
    <2> QED BY <1>1, <1>2, <2>2, <2>3, <2>4 DEF Makes
  <1>4. Makes(m1, b, m2)
    BY <1>1, <1>2, MethodSet DEF Makes, StateSet
  <1>5. Makes(m2, c, m3)
    BY <1>1, <1>2, MethodSet DEF Makes, StampSet
  <1>6. Makes(m3, d, m4)
    BY <1>1, <1>2, MethodSet DEF Makes
  <1>7. BuildsTo(op, id, <<>>, m0)
    BY <1>1, BuiltNone DEF BuildsTo
  <1>8. PICK r, s, t, u, x : /\ r = <<>> /\ s = <<a>> /\ t = <<a, b>>
                             /\ u = <<a, b, c>> /\ x = <<a, b, c, d>>
    OBVIOUS
  <1>9. /\ Extends(s, r, a) /\ Extends(t, s, b) /\ Extends(u, t, c)
        /\ Extends(x, u, d)
    BY <1>8, Tuples
  <1>10. BuildsTo(op, id, r, m0)
    BY <1>7, <1>8
  <1>11. BuildsTo(op, id, s, m1)
    BY <1>3, <1>9, <1>10, BuildsMore
  <1>12. BuildsTo(op, id, t, m2)
    BY <1>4, <1>9, <1>11, BuildsMore
  <1>13. BuildsTo(op, id, u, m3)
    BY <1>5, <1>9, <1>12, BuildsMore
  <1>14. BuildsTo(op, id, x, m4)
    BY <1>6, <1>9, <1>13, BuildsMore
  <1>15. /\ t = StateCalls(from, to) /\ u = StampCalls(from, to, f, v)
         /\ x = FailCalls(from, to, f, v, g, w)
    BY <1>2, <1>8 DEF StateCalls, StampCalls, FailCalls
  <1> QED BY <1>1, <1>12, <1>13, <1>14, <1>15

(* The statements. *)
LEMMA Executed ==
  ASSUME NEW op, NEW id, NEW set, NEW cleared, NEW where, NEW row
  PROVE  Ent!ExecUpdate(Mutation(op, id, set, cleared, where), row)
            = [c \in Fields |-> IF c \in DOMAIN set THEN set[c]
                                ELSE IF c \in cleared THEN Null ELSE row[c]]
  BY MutationFields, EntOperators DEF Ent!ExecUpdate

LEMMA SelectsState ==
  ASSUME NEW row, NEW s
  PROVE  /\ Ent!SelectsAll(<<Ent!StateEQ(s)>>, row)
               <=> row["state"] # Null /\ row["state"] = s
         /\ Ent!SelectsAll(<<Ent!StateIn(s)>>, row)
               <=> row["state"] # Null /\ row["state"] \in s
  <1> DEFINE eq == Ent!StateEQ(s)
             in == Ent!StateIn(s)
  <1>1. /\ eq.column = "state" /\ eq.op = "EQ" /\ eq.value = s
        /\ in.column = "state" /\ in.op = "IN" /\ in.value = s
    BY DEF Ent!StateEQ, Ent!StateIn, Ent!FieldIs
  <1>2. "state" \notin Ent!Maps
    BY EntOperators DEF Maps
  <1> HIDE DEF eq, in
  <1>3. Ent!Selects(eq, row) <=> row["state"] # Null /\ row["state"] = s
    BY <1>1, <1>2 DEF Ent!Selects
  <1>4. Ent!Selects(in, row) <=> row["state"] # Null /\ row["state"] \in s
    BY <1>1, <1>2 DEF Ent!Selects
  <1>5. \A p : Ent!SelectsAll(<<p>>, row) <=> Ent!Selects(p, row)
    BY DEF Ent!SelectsAll
  <1> QED BY <1>3, <1>4, <1>5 DEF eq, in

-----------------------------------------------------------------------------
(* What a row says of a task. *)
RowMeans(row, t, fields) ==
    \A f \in fields :
        IF f \in Maps THEN row[f] \notin {Null, Nil} /\ MapOf(row[f]) = MapOf(t[f])
        ELSE row[f] = IF f \in OptionalTimes /\ t[f] = None THEN Null ELSE t[f]

RowTask(row) == Ent!mapEntToDefTask(Ent!EntityOf(row))

LEMMA RowRead ==
  ASSUME NEW row, NEW t, NEW id, TaskOK(t, id), NEW fields \in SUBSET Fields,
         RowMeans(row, t, fields), NEW f \in fields
  PROVE  IF f \in Maps THEN MapOf(RowTask(row)[f]) = MapOf(t[f])
         ELSE RowTask(row)[f] = t[f]
  <1>1. RowTask(row)[f] = IF f \in OptionalTimes
                          THEN Ent!mapPointerToOption(IF row[f] = Null THEN Nil ELSE row[f])
                          ELSE IF row[f] = Null THEN Nil ELSE row[f]
    BY EntOperators DEF RowTask, Ent!mapEntToDefTask, Ent!EntityOf
  <1>2. CASE f \in OptionalTimes
    <2>1. f \in Fields /\ f \in Times /\ f \notin Maps
      BY <1>2, FieldNames
    <2>2. t[f] \in Int \cup {None}
      BY <2>1 DEF TaskOK
    <2>3. row[f] = IF t[f] = None THEN Null ELSE t[f]
      BY <1>2, <2>1 DEF RowMeans
    <2>4. Null \notin Int /\ Nil \notin Int
      BY TwinAssumption
    <2> QED BY <1>1, <1>2, <2>1, <2>2, <2>3, <2>4 DEF Ent!mapPointerToOption
  <1>3. CASE f \notin OptionalTimes
    <2>1. f \in Maps => row[f] \notin {Null, Nil} /\ MapOf(row[f]) = MapOf(t[f])
      BY DEF RowMeans
    <2>2. f \notin Maps => row[f] = t[f] /\ row[f] # Null
      BY <1>3 DEF RowMeans, TaskOK
    <2> QED BY <1>1, <1>3, <2>1, <2>2
  <1> QED BY <1>2, <1>3

(* The statements that update one row. *)
Selected(tbl, id, s) ==
    id \in DOMAIN tbl /\ tbl[id]["state"] # Null /\ tbl[id]["state"] = s

Written(set, cleared, row) ==
    [c \in Fields |-> IF c \in DOMAIN set THEN set[c]
                      ELSE IF c \in cleared THEN Null ELSE row[c]]

ValidSet(set) ==
    /\ "work_id" \in DOMAIN set => set["work_id"] # ""
    /\ "state" \in DOMAIN set => set["state"] \in States

LEMMA OneSaved ==
  ASSUME NEW tbl, NEW id, NEW calls, NEW set, NEW cleared, NEW s,
         BuildsTo("UpdateOne", id, calls,
                  Mutation("UpdateOne", id, set, cleared, <<Ent!StateEQ(s)>>)),
         ValidSet(set)
  PROVE  LET saved == Ent!UpdateOneSave(tbl, id, calls)
         IN  /\ Selected(tbl, id, s) =>
                   /\ saved.err = ""
                   /\ saved.table = Ent!With(tbl, id, Written(set, cleared, tbl[id]))
             /\ ~Selected(tbl, id, s) => /\ saved.err = "not_found"
                                         /\ saved.table = tbl
  <1> DEFINE where == <<Ent!StateEQ(s)>>
             m == Mutation("UpdateOne", id, set, cleared, where)
             row == tbl[id]
  <1>1. m.set = set /\ m.where = where
    BY MutationFields
  <1>2. Ent!ExecUpdate(m, row) = Written(set, cleared, row)
    BY Executed DEF Written
  <1>3. Ent!SelectsAll(where, row) <=> row["state"] # Null /\ row["state"] = s
    BY SelectsState
  <1>4. Ent!Built("UpdateOne", id, calls) = m
    BY DEF BuildsTo
  <1> HIDE DEF m, where
  <1>5. Ent!UpdateOneCheck(m)
    BY <1>1, EntOperators
       DEF ValidSet, Ent!UpdateOneCheck, Ent!Validated, Ent!StateValidator
  <1>6. (id \in DOMAIN tbl /\ Ent!SelectsAll(m.where, row)) <=> Selected(tbl, id, s)
    BY <1>1, <1>3 DEF Selected
  <1>7. Selected(tbl, id, s) =>
           Ent!UpdateOneSave(tbl, id, calls)
             = [table |-> Ent!With(tbl, id, Written(set, cleared, row)), err |-> ""]
    BY <1>2, <1>4, <1>5, <1>6 DEF Ent!UpdateOneSave
  <1>8. ~Selected(tbl, id, s) =>
           Ent!UpdateOneSave(tbl, id, calls) = [table |-> tbl, err |-> "not_found"]
    BY <1>4, <1>5, <1>6 DEF Ent!UpdateOneSave
  <1>9. PICK new, saved : /\ new = Ent!With(tbl, id, Written(set, cleared, row))
                          /\ saved = Ent!UpdateOneSave(tbl, id, calls)
    OBVIOUS
  <1>10. ASSUME Selected(tbl, id, s)
         PROVE  saved.err = "" /\ saved.table = new
    <2>1. saved = [table |-> new, err |-> ""]
      BY <1>7, <1>9, <1>10
    <2> QED BY <2>1
  <1>11. ASSUME ~Selected(tbl, id, s)
         PROVE  saved.err = "not_found" /\ saved.table = tbl
    BY <1>8, <1>9, <1>11
  <1> QED BY <1>9, <1>10, <1>11

LEMMA EntCardinality ==
  ASSUME NEW S
  PROVE  Ent!Cardinality(S) = Cardinality(S)
  BY DEF Ent!Cardinality, Cardinality

LEMMA GetFinds ==
  ASSUME NEW tbl, \A j \in DOMAIN tbl : tbl[j]["id"] = j /\ j # Null, NEW id
  PROVE  Ent!Get(tbl, id) <=> id \in DOMAIN tbl
  <1> DEFINE where == <<Ent!IDEQ(id)>>
             q == [where |-> where, order |-> <<>>, limit |-> 2, offset |-> 0]
             hit == {j \in DOMAIN tbl : Ent!SelectsAll(q.where, tbl[j])}
             s == <<id>>
  <1>1. Ent!Get(tbl, id) <=> Ent!IsAnswer(q, tbl, s)
    <2> DEFINE Names == {"where", "order", "limit", "offset"}
               new == Ent!NewQuery
               set == [new EXCEPT !.where = where, !.limit = 2]
    <2>1. /\ new = [f \in Names |-> new[f]]
          /\ new.order = <<>> /\ new.offset = None
      BY DEF Ent!NewQuery
    <2>2. /\ set = [f \in Names |-> set[f]]
          /\ set.where = where /\ set.order = <<>> /\ set.limit = 2
          /\ set.offset = None
      <3> HIDE DEF new, where
      <3> QED BY <2>1
    <2>3. /\ q = [f \in Names |-> q[f]]
          /\ q.where = where /\ q.order = <<>> /\ q.limit = 2 /\ q.offset = 0
      <3> HIDE DEF where
      <3> QED OBVIOUS
    <2>4. Ent!QuerySpec(set) = q
      <3>1. 2 # None
        BY DurationsAssumption
      <3> HIDE DEF set, q, where
      <3>2. Ent!QuerySpec(set) = [set EXCEPT !.limit = 2, !.offset = 0]
        BY <2>2, <3>1 DEF Ent!QuerySpec
      <3>3. [set EXCEPT !.limit = 2, !.offset = 0] = q
        <4>1. PICK r : r = [set EXCEPT !.limit = 2, !.offset = 0]
          OBVIOUS
        <4>2. DOMAIN r = Names /\ r = [f \in Names |-> r[f]]
          BY <2>2, <4>1
        <4>3. r.where = where /\ r.order = <<>> /\ r.limit = 2 /\ r.offset = 0
          BY <2>2, <4>1
        <4> QED BY <2>3, <4>1, <4>2, <4>3
      <3> QED BY <3>2, <3>3
    <2> QED BY <2>4 DEF Ent!Get, Ent!IsAll
  <1>2. hit = IF id \in DOMAIN tbl THEN {id} ELSE {}
    <2>1. ASSUME NEW j \in DOMAIN tbl
          PROVE  Ent!SelectsAll(where, tbl[j]) <=> j = id
      <3> DEFINE p == Ent!IDEQ(id)
      <3>1. p.column = "id" /\ p.op = "EQ" /\ p.value = id
        BY DEF Ent!IDEQ, Ent!FieldIs
      <3>2. "id" \notin Ent!Maps
        BY EntOperators DEF Maps
      <3> HIDE DEF p
      <3>3. Ent!Selects(p, tbl[j]) <=> j = id
        BY <3>1, <3>2 DEF Ent!Selects
      <3>4. Ent!SelectsAll(<<p>>, tbl[j]) <=> Ent!Selects(p, tbl[j])
        BY DEF Ent!SelectsAll
      <3> QED BY <3>3, <3>4 DEF p
    <2> QED BY <2>1
  <1>3. Ent!ToSet(s) = {id} /\ Len(s) = 1 /\ DOMAIN s = {1} /\ s[1] = id
    BY DEF Ent!ToSet
  <1>4. CASE id \notin DOMAIN tbl
    <2>1. hit = {}
      BY <1>2, <1>4
    <2>3. q.where = where
      OBVIOUS
    <2> HIDE DEF q, where, s
    <2>2. ~Ent!IsAnswer(q, tbl, s)
      BY <1>3, <2>1, <2>3 DEF Ent!IsAnswer
    <2> QED BY <1>1, <1>4, <2>2
  <1>5. CASE id \in DOMAIN tbl
    <2>1. hit = {id}
      BY <1>2, <1>5
    <2>2. \A r, u : ~Ent!Precedes(<<>>, r, u)
      BY DEF Ent!Precedes
    <2>3. Cardinality({id}) = 1 /\ Cardinality({}) = 0
      BY FS_Singleton, FS_EmptySet
    <2>4. Ent!IsInjective(s)
      BY DEF Ent!IsInjective
    <2>5. \A k \in DOMAIN s :
             /\ {j \in hit : Ent!Precedes(q.order, tbl[j], tbl[s[k]])} = {}
             /\ hit \ {j \in hit : Ent!Precedes(q.order, tbl[s[k]], tbl[j])} = {id}
             /\ k = 1
      BY <1>3, <2>1, <2>2
    <2>6. /\ q.where = where /\ q.order = <<>> /\ q.limit = 2 /\ q.offset = 0
      OBVIOUS
    <2> DEFINE Before(k) == {j \in hit : Ent!Precedes(q.order, tbl[j], tbl[s[k]])}
               After(k) == {j \in hit : Ent!Precedes(q.order, tbl[s[k]], tbl[j])}
    <2>c. \A S : Ent!Cardinality(S) = Cardinality(S)
      BY EntCardinality
    <2>8. /\ Ent!ToSet(s) \subseteq hit /\ Ent!IsInjective(s) /\ Ent!Cardinality(hit) = 1
          /\ \A k \in DOMAIN s :
                /\ k = 1 /\ Ent!Cardinality(Before(k)) = 0
                /\ Ent!Cardinality(hit \ After(k)) = 1
      BY <1>3, <2>1, <2>3, <2>4, <2>5, <2>c
    <2> HIDE DEF q, where, s
    <2>9. /\ Ent!ToSet(s) \subseteq hit /\ Ent!IsInjective(s)
          /\ Len(s) = IF q.limit > 0
                         /\ q.limit < IF Ent!Cardinality(hit) > q.offset
                                      THEN Ent!Cardinality(hit) - q.offset ELSE 0
                      THEN q.limit
                      ELSE IF Ent!Cardinality(hit) > q.offset
                           THEN Ent!Cardinality(hit) - q.offset ELSE 0
          /\ \A k \in DOMAIN s :
                /\ Ent!Cardinality(Before(k)) < q.offset + k
                /\ Ent!Cardinality(hit \ After(k)) >= q.offset + k
                /\ \A j \in 1 .. k - 1 : s[j] \notin After(k)
      <3> HIDE DEF hit, Before, After
      <3> QED BY <1>3, <2>6, <2>8
    <2>7. Ent!IsAnswer(q, tbl, s)
      BY <2>6, <2>9 DEF Ent!IsAnswer
    <2> QED BY <1>1, <1>5, <2>7
  <1> QED BY <1>4, <1>5

-----------------------------------------------------------------------------
(* What an operation on one task that asks for a state comes to. *)
Known(store, id) == id \in 1 .. Len(store)

MemoryOutcome(m, store, id, s, kind, new) ==
    /\ Known(store, id) /\ store[id].state = s =>
          m.err = "" /\ m.store = [store EXCEPT ![id] = new]
    /\ ~(Known(store, id) /\ store[id].state = s) =>
          /\ m.store = store
          /\ m.err = IF Known(store, id) THEN kind ELSE "id_not_found"

EntOutcome(e, tbl, id, s, kind, set, cleared) ==
    /\ Selected(tbl, id, s) =>
          /\ e.err = ""
          /\ e.store = Ent!With(tbl, id, Written(set, cleared, tbl[id]))
    /\ ~Selected(tbl, id, s) =>
          /\ e.store = tbl
          /\ e.err = IF id \in DOMAIN tbl THEN kind ELSE "id_not_found"

IsSomeSeq(s) == \E T : s \in Seq(T)

TwinTask(tbl, t, parts, id) ==
    /\ TaskOK(t, id)
    /\ parts \in SUBSET Fields
    /\ parts # Fields => /\ id \in DOMAIN tbl
                         /\ RowMeans(tbl[id], t, Fields \ parts)

Twins(store, tbl, parts) ==
    /\ IsSomeSeq(store) /\ IsSomeSeq(parts) /\ Len(parts) = Len(store)
    /\ DOMAIN tbl \subseteq 1 .. Len(store)
    /\ \A id \in DOMAIN tbl : tbl[id]["id"] = id
    /\ \A id \in 1 .. Len(store) : TwinTask(tbl, store[id], parts[id], id)

(* What PartedBy leaves. *)
Parted(store, parts, id, refused) ==
    IF Known(store, id) /\ (parts[id] # {} \/ refused)
    THEN [parts EXCEPT ![id] = Fields] ELSE parts

PartedMore(store, parts, id) == Parted(store, parts, id, FALSE)

LEMMA SeqFacts ==
  ASSUME NEW s, IsSomeSeq(s)
  PROVE  Len(s) \in Nat /\ DOMAIN s = 1 .. Len(s)
  BY DEF IsSomeSeq

(* t is s, but for v at k. *)
Replaces(t, s, k, v) == t = [s EXCEPT ![k] = v]

LEMMA SeqExcept ==
  ASSUME NEW s, IsSomeSeq(s), NEW k \in 1 .. Len(s), NEW v, NEW t,
         Replaces(t, s, k, v)
  PROVE  /\ IsSomeSeq(t) /\ Len(t) = Len(s)
         /\ t[k] = v
         /\ \A j \in 1 .. Len(s) : j # k => t[j] = s[j]
  <1>1. PICK T : s \in Seq(T)
    BY DEF IsSomeSeq
  <1>2. PICK U : U = T \cup {v}
    OBVIOUS
  <1>4. t \in Seq(U) /\ Len(t) = Len(s)
    BY <1>1, <1>2 DEF Replaces
  <1> QED BY <1>1, <1>4 DEF IsSomeSeq, Replaces

LEMMA TwinsGet ==
  ASSUME NEW store, NEW tbl, NEW parts, Twins(store, tbl, parts), NEW id
  PROVE  Ent!Get(tbl, id) <=> id \in DOMAIN tbl
  <1>1. \A j \in DOMAIN tbl : tbl[j]["id"] = j /\ j \in Int
    BY SeqFacts DEF Twins
  <1>2. \A j \in DOMAIN tbl : tbl[j]["id"] = j /\ j # Null
    BY <1>1, TwinAssumption
  <1> QED BY <1>2, GetFinds

(* One task may change in both. *)
LEMMA TwinsAfter ==
  ASSUME NEW store, NEW tbl, NEW parts, Twins(store, tbl, parts),
         NEW id \in 1 .. Len(store), NEW new, NEW tbl2, NEW p2,
         DOMAIN tbl2 = DOMAIN tbl,
         \A j \in DOMAIN tbl : j # id => tbl2[j] = tbl[j],
         id \in DOMAIN tbl => tbl2[id]["id"] = id,
         TwinTask(tbl2, new, p2, id)
  PROVE  Twins([store EXCEPT ![id] = new], tbl2, [parts EXCEPT ![id] = p2])
  <1>1. PICK store2, parts2 : /\ store2 = [store EXCEPT ![id] = new]
                              /\ parts2 = [parts EXCEPT ![id] = p2]
    OBVIOUS
  <1>2. /\ IsSomeSeq(store) /\ IsSomeSeq(parts) /\ Len(parts) = Len(store)
        /\ DOMAIN tbl \subseteq 1 .. Len(store)
        /\ \A j \in DOMAIN tbl : tbl[j]["id"] = j
        /\ \A j \in 1 .. Len(store) : TwinTask(tbl, store[j], parts[j], j)
    BY DEF Twins
  <1>r. /\ Replaces(store2, store, id, new) /\ Replaces(parts2, parts, id, p2)
        /\ id \in 1 .. Len(parts)
    BY <1>1, <1>2 DEF Replaces
  <1>3. /\ IsSomeSeq(store2) /\ Len(store2) = Len(store) /\ store2[id] = new
        /\ \A j \in 1 .. Len(store) : j # id => store2[j] = store[j]
    BY <1>2, <1>r, SeqExcept
  <1>4. /\ IsSomeSeq(parts2) /\ Len(parts2) = Len(store) /\ parts2[id] = p2
        /\ \A j \in 1 .. Len(store) : j # id => parts2[j] = parts[j]
    BY <1>2, <1>r, SeqExcept
  <1>5. ASSUME NEW j \in 1 .. Len(store)
        PROVE  TwinTask(tbl2, store2[j], parts2[j], j)
    <2>1. CASE j = id
      BY <2>1, <1>3, <1>4
    <2>2. CASE j # id
      <3>1. TwinTask(tbl, store[j], parts[j], j)
        BY <1>2
      <3> QED BY <2>2, <3>1, <1>3, <1>4 DEF TwinTask
    <2> QED BY <2>1, <2>2
  <1>6. \A j \in DOMAIN tbl2 : tbl2[j]["id"] = j
    BY <1>2
  <1>7. Twins(store2, tbl2, parts2)
    BY <1>2, <1>3, <1>4, <1>5, <1>6 DEF Twins
  <1> QED BY <1>1, <1>7

LEMMA TwinsPart ==
  ASSUME NEW store, NEW tbl, NEW parts, Twins(store, tbl, parts),
         NEW id \in 1 .. Len(store)
  PROVE  Twins(store, tbl, [parts EXCEPT ![id] = Fields])
  <1>1. PICK t : t = store[id]
    OBVIOUS
  <1>2. [store EXCEPT ![id] = t] = store
    <2>1. PICK T : store \in Seq(T)
      BY DEF Twins, IsSomeSeq
    <2> QED BY <2>1, <1>1
  <1>3. TwinTask(tbl, t, Fields, id)
    BY <1>1 DEF Twins, TwinTask
  <1>4. id \in DOMAIN tbl => tbl[id]["id"] = id
    BY DEF Twins
  <1>5. Twins([store EXCEPT ![id] = t], tbl, [parts EXCEPT ![id] = Fields])
    BY <1>3, <1>4, TwinsAfter
  <1> QED BY <1>2, <1>5

(* Where the two are twins, both refuse for the same reason and the row   *)
(* written means the task stored.                                          *)
Alike(store, tbl, parts, id, s, kindM, kindE, new, set, cleared) ==
    /\ "id" \notin DOMAIN set \cup cleared
    /\ Known(store, id) /\ store[id].state = s => TaskOK(new, id)
    /\ Known(store, id) /\ parts[id] = {} =>
          /\ kindM = kindE
          /\ store[id].state = s =>
                RowMeans(Written(set, cleared, tbl[id]), new, Fields)

(* Two answers to a call on one task. *)
TwinAnswers(m, e, store, parts, id, parts2) ==
    /\ Twins(m.store, e.store, parts2)
    /\ m.err = e.err \/ (Known(store, id) /\ parts[id] # {})

(* The two operations leave twins and answer alike. *)
LEMMA TwinOutcomes ==
  ASSUME NEW store, NEW tbl, NEW parts, Twins(store, tbl, parts),
         NEW id, NEW s, NEW kindM, NEW kindE, NEW new, NEW set, NEW cleared,
         Alike(store, tbl, parts, id, s, kindM, kindE, new, set, cleared),
         NEW m, MemoryOutcome(m, store, id, s, kindM, new),
         NEW e, EntOutcome(e, tbl, id, s, kindE, set, cleared)
  PROVE  TwinAnswers(m, e, store, parts, id, PartedMore(store, parts, id))
  <1> SUFFICES /\ Twins(m.store, e.store, Parted(store, parts, id, FALSE))
               /\ m.err = e.err \/ (Known(store, id) /\ parts[id] # {})
    BY DEF TwinAnswers, PartedMore
  <1>0. /\ "id" \notin DOMAIN set \cup cleared
        /\ Known(store, id) /\ store[id].state = s => TaskOK(new, id)
        /\ Known(store, id) /\ parts[id] = {} =>
              /\ kindM = kindE
              /\ store[id].state = s =>
                    RowMeans(Written(set, cleared, tbl[id]), new, Fields)
    BY DEF Alike
  <1>1. /\ IsSomeSeq(store) /\ IsSomeSeq(parts) /\ Len(parts) = Len(store)
        /\ DOMAIN tbl \subseteq 1 .. Len(store)
        /\ \A j \in DOMAIN tbl : tbl[j]["id"] = j
        /\ \A j \in 1 .. Len(store) : TwinTask(tbl, store[j], parts[j], j)
    BY DEF Twins
  <1>2. CASE ~Known(store, id)
    <2>1. id \notin DOMAIN tbl
      BY <1>1, <1>2 DEF Known
    <2>2. m.store = store /\ m.err = "id_not_found"
      BY <1>2 DEF MemoryOutcome
    <2>3. e.store = tbl /\ e.err = "id_not_found"
      BY <2>1 DEF EntOutcome, Selected
    <2>4. Parted(store, parts, id, FALSE) = parts
      BY <1>2 DEF Parted
    <2> QED BY <2>2, <2>3, <2>4
  <1> DEFINE row == Written(set, cleared, tbl[id])
             tbl2 == Ent!With(tbl, id, row)
  <1>3. ASSUME Selected(tbl, id, s)
        PROVE  /\ DOMAIN tbl2 = DOMAIN tbl /\ tbl2[id] = row
               /\ \A j \in DOMAIN tbl : j # id => tbl2[j] = tbl[j]
               /\ tbl2[id]["id"] = id
    <2>1. id \in DOMAIN tbl
      BY <1>3 DEF Selected
    <2>2. row["id"] = id
      BY <2>1, <1>0, <1>1, FieldNames DEF Written
    <2> HIDE DEF row
    <2> QED BY <2>1, <2>2 DEF Ent!With
  <1>4. CASE Known(store, id) /\ parts[id] = {}
    <2>1. id \in DOMAIN tbl /\ RowMeans(tbl[id], store[id], Fields)
          /\ TaskOK(store[id], id)
      <3>1. Fields # {} /\ Fields \ {} = Fields
        BY FieldNames
      <3>2. TwinTask(tbl, store[id], {}, id)
        BY <1>1, <1>4 DEF Known
      <3> QED BY <3>1, <3>2 DEF TwinTask
    <2>2. tbl[id]["state"] = store[id].state /\ tbl[id]["state"] # Null
      <3>1. "state" \in Fields /\ "state" \notin Maps \cup OptionalTimes
        BY FieldNames DEF Maps, OptionalTimes
      <3> QED BY <2>1, <3>1 DEF RowMeans, TaskOK
    <2>3. Selected(tbl, id, s) <=> store[id].state = s
      BY <2>1, <2>2 DEF Selected
    <2>4. Parted(store, parts, id, FALSE) = parts
      BY <1>4 DEF Parted
    <2>5. CASE store[id].state # s
      <3>1. m.store = store /\ m.err = kindM
        BY <1>4, <2>5 DEF MemoryOutcome
      <3>2. e.store = tbl /\ e.err = kindE
        BY <2>1, <2>3, <2>5 DEF EntOutcome
      <3> QED BY <1>0, <1>4, <2>4, <3>1, <3>2
    <2>6. CASE store[id].state = s
      <3>1. m.err = "" /\ m.store = [store EXCEPT ![id] = new]
        BY <1>4, <2>6 DEF MemoryOutcome
      <3>2. e.err = "" /\ e.store = tbl2
        BY <2>3, <2>6 DEF EntOutcome
      <3>3. RowMeans(row, new, Fields) /\ TaskOK(new, id)
        BY <1>0, <1>4, <2>6
      <3>4. /\ DOMAIN tbl2 = DOMAIN tbl /\ tbl2[id] = row
            /\ \A j \in DOMAIN tbl : j # id => tbl2[j] = tbl[j]
            /\ tbl2[id]["id"] = id
        BY <1>3, <2>3, <2>6
      <3> HIDE DEF tbl2, row
      <3>5. TwinTask(tbl2, new, {}, id)
        <4>1. Fields \ {} = Fields
          OBVIOUS
        <4> QED BY <2>1, <3>3, <3>4, <4>1 DEF TwinTask
      <3>6. id \in 1 .. Len(store)
        BY <1>4 DEF Known
      <3>7. Twins([store EXCEPT ![id] = new], tbl2, [parts EXCEPT ![id] = {}])
        BY <3>4, <3>5, <3>6, TwinsAfter
      <3>8. [parts EXCEPT ![id] = {}] = parts
        <4>1. PICK T : parts \in Seq(T)
          BY <1>1 DEF IsSomeSeq
        <4> QED BY <1>1, <1>4, <3>6, <4>1
      <3> QED BY <2>4, <3>1, <3>2, <3>7, <3>8
    <2> QED BY <2>5, <2>6
  <1>5. CASE Known(store, id) /\ parts[id] # {}
    <2>1. PICK parts2 : parts2 = [parts EXCEPT ![id] = Fields]
      OBVIOUS
    <2>2. Parted(store, parts, id, FALSE) = parts2
      BY <1>5, <2>1 DEF Parted
    <2>3. id \in 1 .. Len(store)
      BY <1>5 DEF Known
    <2>4. PICK t : /\ m.store = [store EXCEPT ![id] = t]
                   /\ TaskOK(t, id)
      <3>1. CASE store[id].state = s
        BY <1>0, <1>5, <3>1 DEF MemoryOutcome
      <3>2. CASE store[id].state # s
        <4>1. m.store = store
          BY <1>5, <3>2 DEF MemoryOutcome
        <4>2. PICK T : store \in Seq(T)
          BY <1>1 DEF IsSomeSeq
        <4>3. [store EXCEPT ![id] = store[id]] = store
          BY <2>3, <4>2
        <4>4. TaskOK(store[id], id)
          BY <1>1, <2>3 DEF TwinTask
        <4> QED BY <4>1, <4>3, <4>4
      <3> QED BY <3>1, <3>2
    <2>5. /\ DOMAIN e.store = DOMAIN tbl
          /\ \A j \in DOMAIN tbl : j # id => e.store[j] = tbl[j]
          /\ id \in DOMAIN tbl => e.store[id]["id"] = id
      <3>1. CASE Selected(tbl, id, s)
        <4>1. e.store = tbl2
          BY <3>1 DEF EntOutcome
        <4> HIDE DEF tbl2
        <4> QED BY <3>1, <4>1, <1>3
      <3>2. CASE ~Selected(tbl, id, s)
        <4>1. e.store = tbl
          BY <3>2 DEF EntOutcome
        <4> QED BY <4>1, <1>1
      <3> QED BY <3>1, <3>2
    <2>6. TwinTask(e.store, t, Fields, id)
      BY <2>4 DEF TwinTask
    <2>7. PICK e2 : e2 = e.store
      OBVIOUS
    <2>8. Twins([store EXCEPT ![id] = t], e2, [parts EXCEPT ![id] = Fields])
      <3>1. /\ DOMAIN e2 = DOMAIN tbl
            /\ \A j \in DOMAIN tbl : j # id => e2[j] = tbl[j]
            /\ id \in DOMAIN tbl => e2[id]["id"] = id
            /\ TwinTask(e2, t, Fields, id)
        BY <2>5, <2>6, <2>7
      <3> QED BY <2>3, <3>1, TwinsAfter
    <2> QED BY <1>5, <2>1, <2>2, <2>4, <2>7, <2>8
  <1> QED BY <1>2, <1>4, <1>5

-----------------------------------------------------------------------------
(* The operations that stamp a task. *)
LEMMA MemoryLooksUp ==
  ASSUME NEW store, IsSomeSeq(store), \A j \in 1 .. Len(store) : store[j].id = j,
         NEW id
  PROVE  /\ Memory!Has(store, id) <=> Known(store, id)
         /\ Known(store, id) => Memory!At(store, id) = id
  BY SeqFacts DEF Memory!Has, Memory!At, Known

LEMMA TwinsLookUp ==
  ASSUME NEW store, NEW tbl, NEW parts, Twins(store, tbl, parts), NEW id
  PROVE  /\ Memory!Has(store, id) <=> Known(store, id)
         /\ Known(store, id) => Memory!At(store, id) = id
  <1>1. IsSomeSeq(store) /\ \A j \in 1 .. Len(store) : store[j].id = j
    BY DEF Twins, TwinTask, TaskOK
  <1> QED BY <1>1, MemoryLooksUp

(* t in another state, with an error and a time. *)
Stamped(t, state, err, f, v) ==
    [g \in Fields |-> IF g = "state" THEN state ELSE IF g = "err" THEN err
                      ELSE IF g = f THEN v ELSE t[g]]

LEMMA StampedOK ==
  ASSUME NEW t, NEW id, TaskOK(t, id), NEW state \in States, NEW err,
         err # Null, state # "err" => err = "", NEW f \in OptionalTimes,
         NEW now \in Int
  PROVE  TaskOK(Stamped(t, state, err, f, NormalizeTime(now)), id)
  <1> DEFINE v == NormalizeTime(now)
             u == Stamped(t, state, err, f, v)
  <1>1. v \in Int /\ NormalizeOption(v) = v
    BY Truncated, DurationsAssumption DEF NormalizeOption
  <1> HIDE DEF v
  <1>2. f \in Times /\ f \notin {"id", "priority", "state", "err"}
        /\ {"id", "priority", "state", "err"} \cap Times = {}
        /\ {"id", "priority", "state", "err"} \subseteq Fields
        /\ Times \subseteq Fields
    BY FieldNames DEF OptionalTimes, Times
  <1>3. /\ u = [g \in Fields |-> u[g]]
        /\ u.state = state /\ u.err = err /\ u[f] = v
        /\ \A g \in Fields \ {"state", "err", f} : u[g] = t[g]
    BY <1>2 DEF Stamped
  <1> HIDE DEF u
  <1>4. state # Null
    BY TwinAssumption
  <1>5. u.id = id /\ u.priority \in Int
    BY <1>2, <1>3 DEF TaskOK
  <1>6. ASSUME NEW g \in Times
        PROVE  /\ u[g] \in Int \cup {None} /\ NormalizeOption(u[g]) = u[g]
               /\ g \notin OptionalTimes => u[g] \in Int
    <2>1. CASE g = f
      BY <1>1, <1>3, <2>1
    <2>2. CASE g # f
      BY <1>2, <1>3, <2>2 DEF TaskOK
    <2> QED BY <2>1, <2>2
  <1>7. \A g \in Fields \ OptionalTimes : u[g] # Null
    BY <1>3, <1>4 DEF TaskOK
  <1>8. TaskOK(u, id)
    BY <1>3, <1>5, <1>6, <1>7 DEF TaskOK
  <1> QED BY <1>8 DEF u, v

(* The statement that sets the columns writes what the row has to mean. *)
LEMMA StampedRow ==
  ASSUME NEW row, NEW t, RowMeans(row, t, Fields), NEW state, NEW err,
         NEW f \in OptionalTimes, NEW v \in Int, NEW set,
         DOMAIN set \subseteq {"state", "err", f},
         {"state", f} \subseteq DOMAIN set,
         set["state"] = state, set[f] = v,
         "err" \in DOMAIN set => set["err"] = err,
         "err" \notin DOMAIN set => err = t.err
  PROVE  RowMeans(Written(set, {}, row), Stamped(t, state, err, f, v), Fields)
  <1> DEFINE u == Stamped(t, state, err, f, v)
             new == Written(set, {}, row)
  <1>1. {"state", "err"} \subseteq Fields /\ f \in Fields
        /\ {"state", "err", f} \cap Maps = {}
        /\ {"state", "err"} \cap OptionalTimes = {} /\ f \notin {"state", "err"}
    BY FieldNames DEF OptionalTimes, Maps
  <1>2. /\ u.state = state /\ u.err = err /\ u[f] = v
        /\ \A g \in Fields \ {"state", "err", f} : u[g] = t[g]
    BY <1>1 DEF Stamped
  <1>3. /\ new["state"] = state /\ new[f] = v
        /\ new["err"] = IF "err" \in DOMAIN set THEN err ELSE row["err"]
        /\ \A g \in Fields \ {"state", "err", f} : new[g] = row[g]
    BY <1>1 DEF Written
  <1>4. row["err"] = t.err
    BY <1>1 DEF RowMeans
  <1>5. v # None
    BY DurationsAssumption
  <1> HIDE DEF u, new
  <1>6. ASSUME NEW g \in Fields
        PROVE  IF g \in Maps THEN new[g] \notin {Null, Nil} /\ MapOf(new[g]) = MapOf(u[g])
               ELSE new[g] = IF g \in OptionalTimes /\ u[g] = None THEN Null
                             ELSE u[g]
    <2>1. CASE g = "state"
      BY <2>1, <1>1, <1>2, <1>3
    <2>2. CASE g = "err"
      BY <2>2, <1>1, <1>2, <1>3, <1>4
    <2>3. CASE g = f
      BY <2>3, <1>1, <1>2, <1>3, <1>5
    <2>4. CASE g \notin {"state", "err", f}
      BY <2>4, <1>2, <1>3 DEF RowMeans
    <2> QED BY <2>1, <2>2, <2>3, <2>4
  <1>7. RowMeans(new, u, Fields)
    BY <1>6 DEF RowMeans
  <1> QED BY <1>7 DEF new, u

(* A row and the task it means explain a refusal alike. *)
LEMMA SameKinds ==
  ASSUME NEW row, NEW t, NEW id, TaskOK(t, id), RowMeans(row, t, Fields)
  PROVE  /\ ErrKindUpdate(RowTask(row)) = ErrKindUpdate(t)
         /\ ErrKindMarkAsDone(RowTask(row)) = ErrKindMarkAsDone(t)
  <1>1. \A f \in OptionalTimes : RowTask(row)[f] = t[f]
    BY RowRead, FieldNames
  <1>2. {"done_at", "cancelled_at", "dispatched_at"} \subseteq OptionalTimes
    BY DEF OptionalTimes
  <1> QED BY <1>1, <1>2 DEF ErrKindUpdate, ErrKindMarkAsDone, ErrKind

LEMMA MemoryStamps ==
  ASSUME NEW store, NEW tbl, NEW parts, Twins(store, tbl, parts), NEW id, NEW now
  PROVE  LET t == store[id]
             v == NormalizeTime(now)
         IN  /\ MemoryOutcome(Memory!Cancel(store, id, now), store, id,
                              "scheduled", ErrKindUpdate(t),
                              Stamped(t, "cancelled", t.err, "cancelled_at", v))
             /\ MemoryOutcome(Memory!MarkAsDispatched(store, id, now), store, id,
                              "scheduled", ErrKindUpdate(t),
                              Stamped(t, "dispatched", t.err, "dispatched_at", v))
             /\ \A r : MemoryOutcome(
                              Memory!MarkAsDone(store, id, now, r), store, id,
                              "dispatched", ErrKindMarkAsDone(t),
                              Stamped(t, IF r = "" THEN "done" ELSE "err", r,
                                      "done_at", v))
  <1> DEFINE t == store[id]
             v == NormalizeTime(now)
  <1>1. /\ Memory!Has(store, id) <=> Known(store, id)
        /\ Known(store, id) => Memory!At(store, id) = id
    BY TwinsLookUp
  <1>2. Known(store, id) => t = [f \in Fields |-> t[f]]
    BY DEF Known, Twins, TwinTask, TaskOK
  <1>3. ASSUME Known(store, id)
        PROVE  /\ [t EXCEPT !.state = "cancelled", !.cancelled_at = v]
                     = Stamped(t, "cancelled", t.err, "cancelled_at", v)
               /\ [t EXCEPT !.state = "dispatched", !.dispatched_at = v]
                     = Stamped(t, "dispatched", t.err, "dispatched_at", v)
               /\ \A r, s : [t EXCEPT !.state = s, !.err = r, !.done_at = v]
                               = Stamped(t, s, r, "done_at", v)
    <2> HIDE DEF t, v
    <2> QED BY <1>2, <1>3, FieldNames DEF Stamped
  <1>4. PICK x : x = v
    OBVIOUS
  <1>5. Memory!NormalizeTime(now) = x
    BY <1>4, MemoryOperators
  <1>6. MemoryOutcome(Memory!Cancel(store, id, now), store, id, "scheduled",
                      ErrKindUpdate(t),
                      Stamped(t, "cancelled", t.err, "cancelled_at", v))
    <2> HIDE DEF v
    <2> QED BY <1>1, <1>3, <1>4, <1>5, MemoryOperators
       DEF MemoryOutcome, Memory!Cancel, Memory!Guarded, Memory!Answer
  <1>7. MemoryOutcome(Memory!MarkAsDispatched(store, id, now), store, id,
                      "scheduled", ErrKindUpdate(t),
                      Stamped(t, "dispatched", t.err, "dispatched_at", v))
    <2> HIDE DEF v
    <2> QED BY <1>1, <1>3, <1>4, <1>5, MemoryOperators
       DEF MemoryOutcome, Memory!MarkAsDispatched, Memory!Guarded, Memory!Answer
  <1>8. ASSUME NEW r
        PROVE  MemoryOutcome(Memory!MarkAsDone(store, id, now, r), store, id,
                             "dispatched", ErrKindMarkAsDone(t),
                             Stamped(t, IF r = "" THEN "done" ELSE "err", r,
                                     "done_at", v))
    <2>1. PICK s, u : /\ s = IF r = "" THEN "done" ELSE "err"
                      /\ u = Stamped(t, s, r, "done_at", v)
      OBVIOUS
    <2>2. Known(store, id) =>
             [t EXCEPT !.state = IF r = "" THEN "done" ELSE "err", !.err = r,
                       !.done_at = v] = u
      <3> HIDE DEF t, v
      <3> QED BY <1>3, <2>1
    <2>3. ErrKindMarkAsDone(t) = Memory!ErrKindMarkAsDone(t)
      BY MemoryOperators
    <2> HIDE DEF v
    <2>4. MemoryOutcome(Memory!MarkAsDone(store, id, now, r), store, id,
                        "dispatched", ErrKindMarkAsDone(t), u)
      BY <1>1, <2>2, <1>4, <1>5, <2>3
       DEF MemoryOutcome, Memory!MarkAsDone, Memory!Guarded, Memory!Answer
    <2> QED BY <2>1, <2>4
  <1> QED BY <1>6, <1>7, <1>8

(* What EntRepository answers when the UPDATE did what OneSaved says. *)
LEMMA EntExplains ==
  ASSUME NEW store, NEW tbl, NEW parts, Twins(store, tbl, parts), NEW id,
         NEW s, NEW set, NEW cleared, NEW saved,
         Selected(tbl, id, s) =>
            /\ saved.err = ""
            /\ saved.table = Ent!With(tbl, id, Written(set, cleared, tbl[id])),
         ~Selected(tbl, id, s) => saved.err = "not_found" /\ saved.table = tbl
  PROVE  /\ EntOutcome(Ent!Explained(tbl, id, saved, Ent!ErrKindUpdate), tbl, id,
                       s, ErrKindUpdate(RowTask(tbl[id])), set, cleared)
         /\ EntOutcome(Ent!Explained(tbl, id, saved, Ent!ErrKindMarkAsDone), tbl,
                       id, s, ErrKindMarkAsDone(RowTask(tbl[id])), set, cleared)
  <1>1. Ent!Get(tbl, id) <=> id \in DOMAIN tbl
    BY TwinsGet
  <1>2. PICK new : new = Ent!With(tbl, id, Written(set, cleared, tbl[id]))
    OBVIOUS
  <1>3. PICK k, l : k = ErrKindUpdate(RowTask(tbl[id]))
                    /\ l = ErrKindMarkAsDone(RowTask(tbl[id]))
    OBVIOUS
  <1>4. /\ Ent!ErrKindUpdate(Ent!TaskOf(tbl, id)) = k
        /\ Ent!ErrKindMarkAsDone(Ent!TaskOf(tbl, id)) = l
    BY <1>3, EntOperators DEF Ent!TaskOf, RowTask
  <1>5. CASE Selected(tbl, id, s)
    <2>1. saved.err = "" /\ saved.table = new
      BY <1>2, <1>5
    <2> QED BY <1>2, <1>5, <2>1 DEF Ent!Explained, Ent!Answer, EntOutcome
  <1>6. CASE ~Selected(tbl, id, s)
    <2>1. saved.err = "not_found"
      BY <1>6
    <2> QED BY <1>1, <1>3, <1>4, <1>6, <2>1
       DEF Ent!Explained, Ent!Answer, EntOutcome
  <1> QED BY <1>5, <1>6

LEMMA EntStamps ==
  ASSUME NEW store, NEW tbl, NEW parts, Twins(store, tbl, parts), NEW id, NEW now
  PROVE  LET kind == ErrKindUpdate(RowTask(tbl[id]))
             v == NormalizeTime(now)
         IN  /\ EntOutcome(Ent!Cancel(tbl, id, now), tbl, id, "scheduled", kind,
                           StampSet("cancelled", "cancelled_at", v), {})
             /\ EntOutcome(Ent!MarkAsDispatched(tbl, id, now), tbl, id,
                           "scheduled", kind,
                           StampSet("dispatched", "dispatched_at", v), {})
  <1> DEFINE v == NormalizeTime(now)
  <1>1. ASSUME NEW s \in States, NEW f \in OptionalTimes,
               NEW calls, calls = StampCalls(Ent!StateEQ("scheduled"), s, f, v)
        PROVE  EntOutcome(Ent!Explained(tbl, id, Ent!UpdateOneSave(tbl, id, calls),
                                        Ent!ErrKindUpdate),
                          tbl, id, "scheduled", ErrKindUpdate(RowTask(tbl[id])),
                          StampSet(s, f, v), {})
    <2> DEFINE set == StampSet(s, f, v)
    <2>1. BuildsTo("UpdateOne", id, calls,
                   Mutation("UpdateOne", id, set, {},
                            <<Ent!StateEQ("scheduled")>>))
      BY <1>1, StateMutations
    <2>4. ValidSet(set)
      <3>1. "work_id" \notin OptionalTimes /\ "state" \notin OptionalTimes
        BY DEF OptionalTimes
      <3> QED BY <3>1 DEF ValidSet, StampSet, StateSet, NothingSet, Ent!With
    <2> HIDE DEF set
    <2>5. PICK saved : saved = Ent!UpdateOneSave(tbl, id, calls)
      OBVIOUS
    <2>6. /\ Selected(tbl, id, "scheduled") =>
               /\ saved.err = ""
               /\ saved.table = Ent!With(tbl, id, Written(set, {}, tbl[id]))
          /\ ~Selected(tbl, id, "scheduled") =>
                saved.err = "not_found" /\ saved.table = tbl
      BY <2>1, <2>4, <2>5, OneSaved
    <2>7. EntOutcome(Ent!Explained(tbl, id, saved, Ent!ErrKindUpdate), tbl, id,
                     "scheduled", ErrKindUpdate(RowTask(tbl[id])), set, {})
      BY <2>6, EntExplains
    <2> QED BY <2>5, <2>7 DEF set
  <1>2. /\ {"cancelled", "dispatched"} \subseteq States
        /\ {"cancelled_at", "dispatched_at"} \subseteq OptionalTimes
    BY DEF States, OptionalTimes
  <1>3. Ent!NormalizeTime(now) = v
    BY EntOperators
  <1> HIDE DEF v
  <1>4. EntOutcome(Ent!Cancel(tbl, id, now), tbl, id, "scheduled",
                   ErrKindUpdate(RowTask(tbl[id])),
                   StampSet("cancelled", "cancelled_at", v), {})
    BY <1>1, <1>2, <1>3 DEF Ent!Cancel, StampCalls
  <1>5. EntOutcome(Ent!MarkAsDispatched(tbl, id, now), tbl, id, "scheduled",
                   ErrKindUpdate(RowTask(tbl[id])),
                   StampSet("dispatched", "dispatched_at", v), {})
    BY <1>1, <1>2, <1>3 DEF Ent!MarkAsDispatched, StampCalls
  <1> QED BY <1>4, <1>5 DEF v

DoneSet(r, v) ==
    IF r = "" THEN StampSet("done", "done_at", v)
    ELSE Ent!With(StampSet("err", "done_at", v), "err", r)

LEMMA EntDone ==
  ASSUME NEW store, NEW tbl, NEW parts, Twins(store, tbl, parts), NEW id,
         NEW now, NEW r
  PROVE  EntOutcome(Ent!MarkAsDone(tbl, id, now, r), tbl, id, "dispatched",
                    ErrKindMarkAsDone(RowTask(tbl[id])),
                    DoneSet(r, NormalizeTime(now)), {})
  <1> DEFINE v == NormalizeTime(now)
             set == DoneSet(r, v)
             from == Ent!StateEQ("dispatched")
  <1>1. PICK calls : calls = IF r = "" THEN StampCalls(from, "done", "done_at", v)
                             ELSE FailCalls(from, "err", "done_at", v, "err", r)
    OBVIOUS
  <1>3. BuildsTo("UpdateOne", id, calls,
                 Mutation("UpdateOne", id, set, {},
                          <<Ent!StateEQ("dispatched")>>))
    <2>1. CASE r = ""
      <3>1. /\ calls = StampCalls(from, "done", "done_at", v)
            /\ set = StampSet("done", "done_at", v)
        BY <1>1, <2>1 DEF DoneSet
      <3> HIDE DEF set
      <3> QED BY <3>1, StateMutations
    <2>2. CASE r # ""
      <3>1. /\ calls = FailCalls(from, "err", "done_at", v, "err", r)
            /\ set = Ent!With(StampSet("err", "done_at", v), "err", r)
        BY <1>1, <2>2 DEF DoneSet
      <3> HIDE DEF set
      <3> QED BY <3>1, StateMutations
    <2> QED BY <2>1, <2>2
  <1>4. ValidSet(set)
    BY DEF ValidSet, DoneSet, StampSet, StateSet, NothingSet, Ent!With, States
  <1> HIDE DEF set
  <1>5. PICK saved : saved = Ent!UpdateOneSave(tbl, id, calls)
    OBVIOUS
  <1>6. /\ Selected(tbl, id, "dispatched") =>
             /\ saved.err = ""
             /\ saved.table = Ent!With(tbl, id, Written(set, {}, tbl[id]))
        /\ ~Selected(tbl, id, "dispatched") =>
              saved.err = "not_found" /\ saved.table = tbl
    BY <1>3, <1>4, <1>5, OneSaved
  <1>7. EntOutcome(Ent!Explained(tbl, id, saved, Ent!ErrKindMarkAsDone), tbl, id,
                   "dispatched", ErrKindMarkAsDone(RowTask(tbl[id])), set, {})
    BY <1>6, EntExplains
  <1>8. Ent!MarkAsDone(tbl, id, now, r)
           = Ent!Explained(tbl, id, saved, Ent!ErrKindMarkAsDone)
    <2>1. Ent!NormalizeTime(now) = v
      BY EntOperators
    <2>2. PICK a, b, c, d, e : /\ a = Ent!Where(from) /\ b = Ent!Set("done_at", v)
                               /\ c = Ent!Set("state", "done")
                               /\ d = Ent!Set("state", "err")
                               /\ e = Ent!Set("err", r)
      OBVIOUS
    <2>3. /\ <<a>> \o <<c, b>> = <<a, c, b>>
          /\ <<a>> \o <<d, b, e>> = <<a, d, b, e>>
      <3>1. <<a>> \o <<c, b>> = <<a, c, b>>
        BY JoinPair, Zenon
      <3>2. <<a>> \o <<d, b, e>> = <<a, d, b, e>>
        BY JoinThree, Zenon
      <3> QED BY <3>1, <3>2
    <2>4. <<a>> \o (IF r = "" THEN <<c, b>> ELSE <<d, b, e>>) = calls
      BY <1>1, <2>2, <2>3 DEF StampCalls, FailCalls
    <2> HIDE DEF v
    <2> QED BY <1>5, <2>1, <2>2, <2>4 DEF Ent!MarkAsDone
  <1> QED BY <1>7, <1>8 DEF set

-----------------------------------------------------------------------------
(* UpdateById. *)
Lists(s, S) == s = Ent!SetToSeq(S)
Covers(s, S) == s \in Seq(S) /\ {s[k] : k \in 1 .. Len(s)} = S

LEMMA ListsAll ==
  ASSUME NEW S, IsFiniteSet(S), NEW s, Lists(s, S)
  PROVE  Covers(s, S)
  <1> DEFINE D == 1 .. Cardinality(S)
  <1>1. Cardinality(S) \in Nat /\ ExistsBijection(D, S)
    BY FS_CardinalityType
  <1>2. PICK b \in Bijection(D, S) : TRUE
    BY <1>1 DEF ExistsBijection
  <1>3. b \in [D -> S] /\ Ent!IsInjective(b)
    BY <1>2 DEF Bijection, Injection, Surjection, IsInjective, Ent!IsInjective
  <1>4. s \in [D -> S] /\ Ent!IsInjective(s)
    <2>1. s = CHOOSE f \in [D -> S] : Ent!IsInjective(f)
      BY EntCardinality DEF Ent!SetToSeq, Lists
    <2> QED BY <1>3, <2>1
  <1>5. s \in Injection(D, S)
    BY <1>4 DEF Injection, IsInjective, Ent!IsInjective
  <1>6. Cardinality(D) = Cardinality(S)
    BY <1>1, FS_Interval
  <1>7. s \in Surjection(D, S)
    BY <1>5, <1>6, FS_Injection
  <1>8. \A x \in S : \E k \in D : s[k] = x
    BY <1>7 DEF Surjection
  <1>9. s \in Seq(S) /\ Len(s) = Cardinality(S)
    BY <1>1, <1>4
  <1>10. {s[k] : k \in 1 .. Len(s)} = S
    BY <1>4, <1>8, <1>9
  <1> QED BY <1>9, <1>10 DEF Covers

(* What the builder is told of the fields of a parameter. *)
Clears(n, f) == f = "deadline" /\ n[f] = None
CellOf(n, f) == IF f \in Maps THEN MapOf(n[f]) ELSE n[f]
CallOf(n, f) == IF Clears(n, f) THEN Ent!Clear(f) ELSE Ent!Set(f, CellOf(n, f))

SetOf(n, F) == [f \in {g \in F : ~Clears(n, g)} |-> CellOf(n, f)]
ClearedOf(n, F) == {f \in F : Clears(n, f)}

LEMMA OneMoreCall ==
  ASSUME NEW n, NEW F, NEW f, NEW id, NEW where
  PROVE  Ent!BuilderMethod(
            Mutation("UpdateOne", id, SetOf(n, F), ClearedOf(n, F), where),
            CallOf(n, f))
          = Mutation("UpdateOne", id, SetOf(n, F \cup {f}),
                     ClearedOf(n, F \cup {f}), where)
  <1>1. CASE Clears(n, f)
    <2>1. f \in OptionalTimes
      BY <1>1 DEF Clears, OptionalTimes
    <2>2. Ent!Without(SetOf(n, F), f) = SetOf(n, F \cup {f})
      BY <1>1 DEF Ent!Without, SetOf
    <2>3. ClearedOf(n, F) \cup {f} = ClearedOf(n, F \cup {f})
      BY <1>1 DEF ClearedOf
    <2>4. CallOf(n, f) = Ent!Clear(f)
      BY <1>1 DEF CallOf
    <2>5. PICK set, cleared : set = SetOf(n, F) /\ cleared = ClearedOf(n, F)
      OBVIOUS
    <2>6. Ent!BuilderMethod(Mutation("UpdateOne", id, set, cleared, where),
                            Ent!Clear(f))
             = Mutation("UpdateOne", id, Ent!Without(set, f), cleared \cup {f},
                        where)
      BY <2>1, MethodClear
    <2> QED BY <2>2, <2>3, <2>4, <2>5, <2>6
  <1>2. CASE ~Clears(n, f)
    <2>1. PICK v : v = CellOf(n, f)
      OBVIOUS
    <2>2. Ent!With(SetOf(n, F), f, v) = SetOf(n, F \cup {f})
      BY <1>2, <2>1 DEF Ent!With, SetOf
    <2>3. ClearedOf(n, F) = ClearedOf(n, F \cup {f})
      BY <1>2 DEF ClearedOf
    <2>4. CallOf(n, f) = Ent!Set(f, v)
      BY <1>2, <2>1 DEF CallOf
    <2>5. PICK set, cleared : set = SetOf(n, F) /\ cleared = ClearedOf(n, F)
      OBVIOUS
    <2>6. Ent!BuilderMethod(Mutation("UpdateOne", id, set, cleared, where),
                            Ent!Set(f, v))
             = Mutation("UpdateOne", id, Ent!With(set, f, v), cleared, where)
      BY MethodSet
    <2> QED BY <2>2, <2>3, <2>4, <2>5, <2>6
  <1> QED BY <1>1, <1>2

(* calls are a Where and then those of the fields s lists. *)
UpdateCalls(calls, from, n, s) ==
    calls = <<Ent!Where(from)>> \o [k \in DOMAIN s |-> CallOf(n, s[k])]

LEMMA UpdateMutation ==
  ASSUME NEW n, NEW F, NEW s \in Seq(F), NEW calls, NEW from, NEW id,
         UpdateCalls(calls, from, n, s),
         {s[k] : k \in 1 .. Len(s)} = F
  PROVE  BuildsTo("UpdateOne", id, calls,
                  Mutation("UpdateOne", id, SetOf(n, F), ClearedOf(n, F), <<from>>))
  <1> DEFINE rest == [k \in DOMAIN s |-> CallOf(n, s[k])]
             T == {Ent!Where(from)} \cup {CallOf(n, f) : f \in F}
             where == <<from>>
             Upto(k) == {s[j] : j \in 1 .. k}
             After(k) == Mutation("UpdateOne", id, SetOf(n, Upto(k)),
                                  ClearedOf(n, Upto(k)), where)
  <1>1. PICK first : first = <<Ent!Where(from)>>
    OBVIOUS
  <1>2. first \in Seq(T) /\ Len(first) = 1 /\ first[1] = Ent!Where(from)
    BY <1>1
  <1>3. rest \in Seq(T) /\ Len(rest) = Len(s)
        /\ \A k \in 1 .. Len(s) : rest[k] = CallOf(n, s[k])
    OBVIOUS
  <1>4. Joins(calls, first, rest)
    BY <1>1 DEF Joins, UpdateCalls
  <1> HIDE DEF rest, T
  <1>5. /\ calls \in Seq(T) /\ Len(calls) = Len(first) + Len(rest)
        /\ \A i \in 1 .. Len(first) : calls[i] = first[i]
        /\ \A i \in 1 .. Len(rest) : calls[Len(first) + i] = rest[i]
    <2>1. PICK r, U : r = rest /\ U = T
      OBVIOUS
    <2>2. first \in Seq(U) /\ r \in Seq(U) /\ Joins(calls, first, r)
      BY <1>2, <1>3, <1>4, <2>1
    <2>3. /\ calls \in Seq(U) /\ Len(calls) = Len(first) + Len(r)
          /\ \A i \in 1 .. Len(first) : calls[i] = first[i]
          /\ \A i \in 1 .. Len(r) : calls[Len(first) + i] = r[i]
      BY <2>2, JoinFacts
    <2> QED BY <2>1, <2>3
  <1>6. PICK len \in Nat : len = Len(s)
    OBVIOUS
  <1>7. /\ Len(calls) = len + 1 /\ calls[1] = Ent!Where(from)
        /\ \A k \in 1 .. len : calls[k + 1] = CallOf(n, s[k])
    <2>1. \A k \in 1 .. len : 1 + k = k + 1
      OBVIOUS
    <2> QED BY <1>2, <1>3, <1>5, <1>6, <2>1
  <1>8. PICK g : /\ Builds("UpdateOne", id, calls, g, Len(calls))
                 /\ Ent!Built("UpdateOne", id, calls) = g[Len(calls)]
    <2>1. calls \in Seq(T)
      BY <1>5
    <2> QED BY <2>1, BuiltIs
  <1>9. /\ g[0] = Ent!NewMutation("UpdateOne", id)
        /\ \A k \in 0 .. len : g[k + 1] = Ent!BuilderMethod(g[k], calls[k + 1])
    <2>1. \A k \in 0 .. len : /\ k + 1 \in 0 .. len + 1 /\ k + 1 # 0
                              /\ (k + 1) - 1 = k
      OBVIOUS
    <2> QED BY <1>7, <1>8, <2>1 DEF Builds
  <1>10. g[1] = After(0)
    <2>1. PICK none, nothing : none = <<>> /\ nothing = NothingSet
      OBVIOUS
    <2>2. g[0] = Mutation("UpdateOne", id, nothing, {}, none)
      BY <1>9, <2>1, NewIsMutation
    <2>3. Ent!BuilderMethod(Mutation("UpdateOne", id, nothing, {}, none),
                            Ent!Where(from))
             = Mutation("UpdateOne", id, nothing, {}, Append(none, from))
      BY MethodWhere
    <2>4. Append(none, from) = where
      BY <2>1
    <2>5. Upto(0) = {}
      OBVIOUS
    <2>6. SetOf(n, {}) = nothing /\ ClearedOf(n, {}) = {}
      BY <2>1 DEF SetOf, ClearedOf, NothingSet
    <2>7. After(0) = Mutation("UpdateOne", id, nothing, {}, where)
      BY <2>5, <2>6
    <2>8. g[0 + 1] = Ent!BuilderMethod(g[0], calls[0 + 1]) /\ 0 + 1 = 1
      BY <1>9
    <2> HIDE DEF After, where
    <2> QED BY <1>7, <2>2, <2>3, <2>4, <2>7, <2>8
  <1> DEFINE R == {k \in Nat : k <= len => g[k + 1] = After(k)}
  <1>11. ASSUME NEW k \in Nat, k \in R
         PROVE  k + 1 \in R
    <2> SUFFICES ASSUME k + 1 <= len PROVE g[(k + 1) + 1] = After(k + 1)
      OBVIOUS
    <2>1. g[k + 1] = After(k)
      BY <1>11
    <2>2. PICK f : f = s[k + 1]
      OBVIOUS
    <2>3. k + 1 \in 0 .. len /\ k + 1 \in 1 .. len
      OBVIOUS
    <2>4. g[(k + 1) + 1] = Ent!BuilderMethod(g[k + 1], CallOf(n, f))
      BY <1>7, <1>9, <2>2, <2>3
    <2>5. Upto(k + 1) = Upto(k) \cup {f}
      <3>1. 1 .. k + 1 = 1 .. k \cup {k + 1}
        OBVIOUS
      <3> QED BY <2>2, <3>1
    <2>6. PICK G : G = Upto(k)
      OBVIOUS
    <2>7. Ent!BuilderMethod(
             Mutation("UpdateOne", id, SetOf(n, G), ClearedOf(n, G), where),
             CallOf(n, f))
          = Mutation("UpdateOne", id, SetOf(n, G \cup {f}),
                     ClearedOf(n, G \cup {f}), where)
      <3> HIDE DEF where
      <3> QED BY OneMoreCall
    <2>8. After(k) = Mutation("UpdateOne", id, SetOf(n, G), ClearedOf(n, G), where)
      BY <2>6
    <2>9. After(k + 1) = Mutation("UpdateOne", id, SetOf(n, G \cup {f}),
                                  ClearedOf(n, G \cup {f}), where)
      <3>1. Upto(k + 1) = G \cup {f}
        BY <2>5, <2>6
      <3> HIDE DEF Upto
      <3> QED BY <3>1
    <2> HIDE DEF After
    <2> QED BY <2>1, <2>4, <2>7, <2>8, <2>9
  <1>12. 0 \in R
    <2>1. 0 + 1 = 1
      OBVIOUS
    <2> HIDE DEF After
    <2> QED BY <1>10, <2>1
  <1> HIDE DEF R
  <1>13. len \in R
    BY <1>11, <1>12, SetInduction
  <1>14. g[len + 1] = After(len)
    <2> HIDE DEF After
    <2> QED BY <1>13 DEF R
  <1>15. Upto(len) = F
    BY <1>6
  <1>16. After(len) = Mutation("UpdateOne", id, SetOf(n, F), ClearedOf(n, F), where)
    <2> HIDE DEF Upto
    <2> QED BY <1>15
  <1> HIDE DEF After, where
  <1>17. Ent!Built("UpdateOne", id, calls)
            = Mutation("UpdateOne", id, SetOf(n, F), ClearedOf(n, F), where)
    BY <1>7, <1>8, <1>14, <1>16
  <1> QED BY <1>17 DEF BuildsTo, where

(* The statement writes what Update makes of the task the row means. *)
LEMMA UpdatedRow ==
  ASSUME NEW row, NEW t, NEW id, TaskOK(t, id), RowMeans(row, t, Fields),
         NEW p, IsParam(p), NEW n, n = NormalizeParam(p)
  PROVE  RowMeans(Written(SetOf(n, DOMAIN n), ClearedOf(n, DOMAIN n), row),
                  Update(t, p), Fields)
  <1> DEFINE u == Update(t, p)
             new == Written(SetOf(n, DOMAIN n), ClearedOf(n, DOMAIN n), row)
  <1>1. \A f \in Fields : u[f] = Updated(t, p, f)
    BY UpdateFields
  <1>2. /\ DOMAIN n = DOMAIN p
        /\ \A f \in DOMAIN p :
              n[f] = IF f \in Times THEN NormalizeOption(p[f]) ELSE p[f]
        /\ \A f \in DOMAIN p \cap Times : p[f] \in Int \cup {None}
        /\ \A f \in (DOMAIN p \cap Times) \ OptionalTimes : p[f] \in Int
        /\ \A f \in DOMAIN p \ OptionalTimes : p[f] # Null
    BY NormalizedParam
  <1>3. \A f \in Fields :
           new[f] = IF f \in DOMAIN n
                    THEN IF Clears(n, f) THEN Null ELSE CellOf(n, f)
                    ELSE row[f]
    BY DEF Written, SetOf, ClearedOf
  <1>4. DOMAIN p \subseteq Updatable
    BY DEF IsParam
  <1>5. Updatable \cap OptionalTimes = {"deadline"} /\ "deadline" \in Times
        /\ Maps \cap Times = {}
    BY DEF Updatable, OptionalTimes, Times, Maps
  <1> HIDE DEF u, new
  <1>6. ASSUME NEW f \in Fields, f \in DOMAIN p
        PROVE  IF f \in Maps THEN new[f] \notin {Null, Nil} /\ MapOf(new[f]) = MapOf(u[f])
               ELSE new[f] = IF f \in OptionalTimes /\ u[f] = None THEN Null
                             ELSE u[f]
    <2>1. CASE f \in Maps
      <3>1. u[f] = MapOf(p[f]) /\ n[f] = p[f]
        BY <1>1, <1>2, <1>4, <1>5, <1>6, <2>1 DEF Updated, AssignIfSome
      <3>2. ~Clears(n, f)
        BY <1>5, <2>1 DEF Clears
      <3>3. new[f] = MapOf(p[f])
        BY <1>2, <1>3, <1>6, <2>1, <3>1, <3>2 DEF CellOf
      <3>4. MapOf(p[f]) \notin {Null, Nil}
        <4>1. p[f] # Null
          BY <1>2, <1>5, <1>6, <2>1 DEF OptionalTimes, Maps
        <4>2. EmptyMap # Null /\ EmptyMap # Nil
          BY TwinAssumption
        <4> QED BY <4>1, <4>2 DEF MapOf
      <3> QED BY <2>1, <3>1, <3>3, <3>4
    <2>2. CASE f \in Times
      <3>1. f \notin Maps /\ f \in Updatable
        BY <1>4, <1>5, <1>6, <2>2
      <3>2. u[f] = NormalizeOption(p[f]) /\ n[f] = u[f]
        BY <1>1, <1>2, <1>6, <2>2, <3>1 DEF Updated, AssignIfSome
      <3>3. f \in OptionalTimes <=> f = "deadline"
        BY <1>5, <3>1
      <3>4. f \notin OptionalTimes => u[f] # None
        <4>1. f \notin OptionalTimes => p[f] \in Int
          BY <1>2, <1>6, <2>2
        <4> QED BY <4>1, <3>2, Truncated, DurationsAssumption
      <3>5. new[f] = IF Clears(n, f) THEN Null ELSE n[f]
        BY <1>2, <1>3, <1>6, <3>1 DEF CellOf
      <3> QED BY <3>1, <3>2, <3>3, <3>4, <3>5 DEF Clears
    <2>3. CASE f \notin Maps /\ f \notin Times
      <3>1. u[f] = p[f] /\ n[f] = p[f]
        BY <1>1, <1>2, <1>4, <1>6, <2>3 DEF Updated, AssignIfSome
      <3>2. ~Clears(n, f) /\ f \notin OptionalTimes
        BY <1>5, <2>3, FieldNames DEF Clears
      <3> QED BY <1>2, <1>3, <1>6, <2>3, <3>1, <3>2 DEF CellOf
    <2> QED BY <2>1, <2>2, <2>3
  <1>7. ASSUME NEW f \in Fields, f \notin DOMAIN p
        PROVE  u[f] = t[f] /\ new[f] = row[f]
    <2>1. new[f] = row[f]
      BY <1>2, <1>3, <1>7
    <2>2. u[f] = IF f \in Times THEN NormalizeOption(t[f]) ELSE t[f]
      BY <1>1, <1>7 DEF Updated, AssignIfSome
    <2>3. f \in Times => NormalizeOption(t[f]) = t[f]
      BY DEF TaskOK
    <2> QED BY <2>1, <2>2, <2>3
  <1>8. ASSUME NEW f \in Fields
        PROVE  IF f \in Maps THEN new[f] \notin {Null, Nil} /\ MapOf(new[f]) = MapOf(u[f])
               ELSE new[f] = IF f \in OptionalTimes /\ u[f] = None THEN Null
                             ELSE u[f]
    <2>1. CASE f \in DOMAIN p
      BY <1>6, <2>1
    <2>2. CASE f \notin DOMAIN p
      BY <1>7, <2>2 DEF RowMeans
    <2> QED BY <2>1, <2>2
  <1>9. RowMeans(new, u, Fields)
    BY <1>8 DEF RowMeans
  <1> QED BY <1>9 DEF new, u

LEMMA FakeOperators ==
  ASSUME NEW p
  PROVE  /\ Ent!Update(Ent!fakeTask, p) = Update(Ent!fakeTask, p)
         /\ "work_id" \in DOMAIN p /\ Ent!IsValid(Update(Ent!fakeTask, p)) =>
               p.work_id # ""
  <1>1. Ent!Update(Ent!fakeTask, p) = Update(Ent!fakeTask, p)
    BY EntOperators
  <1>2. ASSUME "work_id" \in DOMAIN p, Ent!IsValid(Update(Ent!fakeTask, p))
        PROVE  p["work_id"] # ""
    <2>1. Update(Ent!fakeTask, p)["work_id"] # ""
      BY <1>2 DEF Ent!IsValid
    <2>2. /\ "work_id" \in Fields /\ "work_id" \in Updatable
          /\ "work_id" \notin Maps \cup Times
      BY FieldNames DEF Updatable, Maps, Times, OptionalTimes
    <2>3. PICK t : t = Ent!fakeTask
      OBVIOUS
    <2>4. Update(t, p)["work_id"] = p["work_id"]
      BY <1>2, <2>2, UpdateFields DEF Updated, AssignIfSome
    <2> QED BY <2>1, <2>3, <2>4
  <1> QED BY <1>1, <1>2

(* UpdateById of EntRepository: refused outright, or one UPDATE. *)
LEMMA EntUpdates ==
  ASSUME NEW store, NEW tbl, NEW parts, Twins(store, tbl, parts), NEW id,
         NEW p, IsParam(p), NEW n, n = NormalizeParam(p)
  PROVE  \/ /\ Ent!UpdateById(tbl, id, p).err = "invalid_task"
            /\ Ent!UpdateById(tbl, id, p).store = tbl
         \/ EntOutcome(Ent!UpdateById(tbl, id, p), tbl, id, "scheduled",
                       ErrKindUpdate(RowTask(tbl[id])), SetOf(n, DOMAIN n),
                       ClearedOf(n, DOMAIN n))
  <1>1. PICK s, F : s = Ent!SetToSeq(DOMAIN n) /\ F = DOMAIN n
    OBVIOUS
  <1>2. /\ F = DOMAIN p /\ F \subseteq Updatable
        /\ IsFiniteSet(F)
    <2>1. F = DOMAIN p /\ F \subseteq Updatable
      BY <1>1, NormalizedParam DEF IsParam
    <2>2. IsFiniteSet(Updatable)
      <3>1. IsFiniteSet({})
        BY FS_EmptySet
      <3>2. \A S, x : IsFiniteSet(S) => IsFiniteSet(S \cup {x})
        BY FS_AddElement
      <3>3. IsFiniteSet(({} \cup {"work_id"}) \cup {"priority"})
        BY <3>1, <3>2
      <3>4. IsFiniteSet(((({} \cup {"work_id"}) \cup {"priority"})
                         \cup {"param"}) \cup {"meta"})
        BY <3>2, <3>3
      <3>5. IsFiniteSet(((((({} \cup {"work_id"}) \cup {"priority"})
                           \cup {"param"}) \cup {"meta"})
                         \cup {"scheduled_at"}) \cup {"deadline"})
        BY <3>2, <3>4
      <3>6. Updatable = ((((({} \cup {"work_id"}) \cup {"priority"})
                            \cup {"param"}) \cup {"meta"})
                         \cup {"scheduled_at"}) \cup {"deadline"}
        BY DEF Updatable
      <3> QED BY <3>5, <3>6
    <2> QED BY <2>1, <2>2, FS_Subset
  <1>3. s \in Seq(F) /\ {s[k] : k \in 1 .. Len(s)} = F
    <2>1. Lists(s, F)
      BY <1>1 DEF Lists
    <2>2. Covers(s, F)
      BY <1>2, <2>1, ListsAll
    <2> QED BY <2>2 DEF Covers
  <1>4. PICK from, calls : /\ from = Ent!StateEQ("scheduled")
                           /\ calls = <<Ent!Where(from)>>
                                      \o [k \in DOMAIN s |-> CallOf(n, s[k])]
    OBVIOUS
  <1>5. UpdateCalls(calls, from, n, s)
    BY <1>4 DEF UpdateCalls
  <1> DEFINE set == SetOf(n, F)
             cleared == ClearedOf(n, F)
  <1>6. BuildsTo("UpdateOne", id, calls,
                 Mutation("UpdateOne", id, set, cleared, <<from>>))
    BY <1>3, <1>5, UpdateMutation
  <1>7. PICK saved : saved = Ent!UpdateOneSave(tbl, id, calls)
    OBVIOUS
  <1>8. Ent!UpdateById(tbl, id, p)
           = IF ~Ent!IsValid(Update(Ent!fakeTask, p))
             THEN [store |-> tbl, err |-> "invalid_task"]
             ELSE Ent!Explained(tbl, id, saved, Ent!ErrKindUpdate)
    <2> DEFINE fields == Ent!SetToSeq(DOMAIN Ent!NormalizeParam(p))
               Call(f) == IF f \in Ent!Maps
                          THEN Ent!Set(f, Ent!MapOf(Ent!NormalizeParam(p)[f]))
                          ELSE IF f = "deadline" /\ Ent!NormalizeParam(p)[f] = None
                          THEN Ent!Clear(f)
                          ELSE Ent!Set(f, Ent!NormalizeParam(p)[f])
               all == <<Ent!Where(Ent!StateEQ("scheduled"))>>
                      \o [k \in DOMAIN fields |-> Call(fields[k])]
    <2>1. Ent!NormalizeParam(p) = n /\ Ent!Maps = Maps
          /\ \A v : Ent!MapOf(v) = MapOf(v)
      BY EntOperators
    <2>2. fields = s
      BY <1>1, <2>1
    <2>3. \A f : Call(f) = CallOf(n, f)
      BY <2>1 DEF CallOf, CellOf, Clears, Maps
    <2>4. Ent!UpdateById(tbl, id, p)
             = IF ~Ent!IsValid(Ent!Update(Ent!fakeTask, p))
               THEN [store |-> tbl, err |-> "invalid_task"]
               ELSE Ent!Explained(tbl, id, Ent!UpdateOneSave(tbl, id, all),
                                  Ent!ErrKindUpdate)
      BY DEF Ent!UpdateById, Ent!Answer
    <2> HIDE DEF fields, Call
    <2>5. [k \in DOMAIN fields |-> Call(fields[k])]
             = [k \in DOMAIN s |-> CallOf(n, s[k])]
      BY <2>2, <2>3
    <2>6. all = calls
      BY <1>4, <2>5
    <2> HIDE DEF all
    <2>7. Ent!UpdateOneSave(tbl, id, all) = saved
      BY <1>7, <2>6
    <2>8. Ent!Update(Ent!fakeTask, p) = Update(Ent!fakeTask, p)
      BY FakeOperators
    <2> QED BY <2>4, <2>7, <2>8 DEF Ent!Explained
  <1>9. CASE ~Ent!IsValid(Update(Ent!fakeTask, p))
    <2>1. Ent!UpdateById(tbl, id, p) = [store |-> tbl, err |-> "invalid_task"]
      BY <1>8, <1>9
    <2> QED BY <2>1
  <1>10. CASE Ent!IsValid(Update(Ent!fakeTask, p))
    <2>1. ValidSet(set)
      <3>1. "state" \notin F
        BY <1>2 DEF Updatable
      <3>2. "work_id" \in F => n["work_id"] = p["work_id"]
        BY <1>2, NormalizedParam DEF Times, OptionalTimes
      <3>3. "work_id" \in F => p["work_id"] # ""
        BY <1>2, <1>10, FakeOperators
      <3> QED BY <3>1, <3>2, <3>3 DEF ValidSet, SetOf, CellOf, Maps
    <2> HIDE DEF set, cleared
    <2>2. BuildsTo("UpdateOne", id, calls,
                   Mutation("UpdateOne", id, set, cleared,
                            <<Ent!StateEQ("scheduled")>>))
      BY <1>4, <1>6
    <2>3. /\ Selected(tbl, id, "scheduled") =>
               /\ saved.err = ""
               /\ saved.table = Ent!With(tbl, id, Written(set, cleared, tbl[id]))
          /\ ~Selected(tbl, id, "scheduled") =>
                saved.err = "not_found" /\ saved.table = tbl
      BY <1>7, <2>1, <2>2, OneSaved
    <2>4. EntOutcome(Ent!Explained(tbl, id, saved, Ent!ErrKindUpdate), tbl, id,
                     "scheduled", ErrKindUpdate(RowTask(tbl[id])), set, cleared)
      BY <2>3, EntExplains
    <2> QED BY <1>1, <1>8, <1>10, <2>4 DEF set, cleared
  <1> QED BY <1>9, <1>10

LEMMA MemoryUpdates ==
  ASSUME NEW store, NEW tbl, NEW parts, Twins(store, tbl, parts), NEW id,
         NEW p, IsParam(p)
  PROVE  MemoryOutcome(Memory!UpdateById(store, id, p), store, id, "scheduled",
                       ErrKindUpdate(store[id]), Update(store[id], p))
  <1>1. /\ Memory!Has(store, id) <=> Known(store, id)
        /\ Known(store, id) => Memory!At(store, id) = id
    BY TwinsLookUp
  <1>2. \A t : Memory!Update(t, Memory!NormalizeParam(p)) = Update(t, p)
    BY UpdateNormalized, MemoryOperators
  <1> QED BY <1>1, <1>2, MemoryOperators
     DEF MemoryOutcome, Memory!UpdateById, Memory!Guarded, Memory!Answer

-----------------------------------------------------------------------------
(* AddTask. *)
NewTask(id, now) ==
    [ZeroTask EXCEPT !.id = id, !.state = "scheduled",
                     !.created_at = NormalizeTime(now)]

LEMMA NewTaskFields ==
  ASSUME NEW id, NEW now
  PROVE  /\ NewTask(id, now).param = Nil /\ NewTask(id, now).meta = Nil
         /\ \A f \in OptionalTimes : NewTask(id, now)[f] = None
         /\ NewTask(id, now)["created_at"] = NormalizeTime(now)
  <1> DEFINE t == NewTask(id, now)
  <1>1. t \in [id : {id}, work_id : {""}, priority : {0}, state : {"scheduled"},
               err : {""}, param : {Nil}, meta : {Nil}, scheduled_at : {0},
               created_at : {NormalizeTime(now)}, deadline : {None},
               cancelled_at : {None}, dispatched_at : {None}, done_at : {None}]
    BY DEF NewTask, ZeroTask, ZeroTime
  <1> HIDE DEF t
  <1>2. /\ t.param = Nil /\ t.meta = Nil /\ \A f \in OptionalTimes : t[f] = None
        /\ t["created_at"] = NormalizeTime(now)
    BY <1>1 DEF OptionalTimes
  <1> QED BY <1>2 DEF t

LEMMA ToTaskFields ==
  ASSUME NEW p, IsParam(p), NEW id, NEW now
  PROVE  /\ \A f \in OptionalTimes \ {"deadline"} : ToTask(p, id, now)[f] = None
         /\ \A f \in Maps :
               ToTask(p, id, now)[f] = IF f \in DOMAIN p THEN MapOf(p[f]) ELSE Nil
  <1> DEFINE t == NewTask(id, now)
  <1>1. ToTask(p, id, now) = Update(t, p)
    BY DEF ToTask, NewTask
  <1>2. \A f \in Fields : Update(t, p)[f] = Updated(t, p, f)
    BY UpdateFields
  <1>3. \A f \in OptionalTimes \ {"deadline"} :
           f \in Fields /\ f \in Times /\ f \notin Updatable
    BY FieldNames DEF OptionalTimes, Updatable
  <1>4. \A f \in Maps : f \in Fields /\ f \notin Times /\ f \in Updatable
    BY FieldNames
  <1>5. /\ \A f \in OptionalTimes : t[f] = None
        /\ \A f \in Maps : t[f] = Nil
    BY NewTaskFields DEF Maps
  <1> HIDE DEF t
  <1>6. \A f \in OptionalTimes \ {"deadline"} : Updated(t, p, f) = None
    BY <1>3, <1>5 DEF Updated, NormalizeOption
  <1>7. \A f \in Maps :
           Updated(t, p, f) = IF f \in DOMAIN p THEN MapOf(p[f]) ELSE Nil
    BY <1>4, <1>5 DEF Updated, AssignIfSome
  <1> QED BY <1>1, <1>2, <1>3, <1>4, <1>6, <1>7

(* The builder of an INSERT was told the columns F of t. *)
Said(F, t) == [c \in F |-> t[c]]

Tells(id, calls, F, t) ==
    /\ IsSomeSeq(calls)
    /\ BuildsTo("Create", id, calls,
                Mutation("Create", id, Said(F, t), {}, <<>>))

ExtendsBy(new, calls, call) == new = Append(calls, call)

LEMMA TellsMore ==
  ASSUME NEW id, NEW calls, NEW F, NEW t, Tells(id, calls, F, t), NEW c, NEW new
  PROVE  /\ ExtendsBy(new, calls, Ent!Set(c, t[c])) =>
               Tells(id, new, F \cup {c}, t)
         /\ ExtendsBy(new, calls, Ent!SetNillable(c, t[c])) =>
               Tells(id, new, IF t[c] = None THEN F ELSE F \cup {c}, t)
  <1>1. PICK set, none, v : set = Said(F, t) /\ none = <<>> /\ v = t[c]
    OBVIOUS
  <1>2. Ent!With(set, c, v) = Said(F \cup {c}, t)
    BY <1>1 DEF Ent!With, Said
  <1>3. PICK m0, m1 : /\ m0 = Mutation("Create", id, set, {}, none)
                      /\ m1 = Mutation("Create", id, Ent!With(set, c, v), {}, none)
    OBVIOUS
  <1>4. Ent!BuilderMethod(m0, Ent!Set(c, v)) = m1
    BY <1>3, MethodSet
  <1>5. Ent!BuilderMethod(m0, Ent!SetNillable(c, v)) = IF v = None THEN m0 ELSE m1
    BY <1>3, MethodSetNillable
  <1>6. BuildsTo("Create", id, calls, m0)
    BY <1>1, <1>3 DEF Tells
  <1>7. ASSUME NEW call, ExtendsBy(new, calls, call)
        PROVE  Extends(new, calls, call) /\ IsSomeSeq(new)
    <2>1. PICK T : calls \in Seq(T)
      BY DEF Tells, IsSomeSeq
    <2>2. PICK U : U = T \cup {call}
      OBVIOUS
    <2>3. calls \in Seq(U) /\ call \in U
      BY <2>1, <2>2
    <2>4. new \in Seq(U)
      BY <1>7, <2>3 DEF ExtendsBy
    <2> QED BY <1>7, <2>3, <2>4 DEF Extends, ExtendsBy, IsSomeSeq
  <1>8. ASSUME NEW call, ExtendsBy(new, calls, call), NEW m, Makes(m0, call, m)
        PROVE  BuildsTo("Create", id, new, m) /\ IsSomeSeq(new)
    BY <1>6, <1>7, <1>8, BuildsMore
  <1>9. ASSUME ExtendsBy(new, calls, Ent!Set(c, t[c]))
        PROVE  Tells(id, new, F \cup {c}, t)
    <2>1. PICK call : call = Ent!Set(c, t[c])
      OBVIOUS
    <2>2. Makes(m0, call, m1) /\ ExtendsBy(new, calls, call)
      BY <1>1, <1>4, <1>9, <2>1 DEF Makes
    <2>3. BuildsTo("Create", id, new, m1) /\ IsSomeSeq(new)
      BY <1>8, <2>2
    <2> QED BY <1>1, <1>2, <1>3, <2>3 DEF Tells
  <1>10. ASSUME ExtendsBy(new, calls, Ent!SetNillable(c, t[c]))
         PROVE  Tells(id, new, IF t[c] = None THEN F ELSE F \cup {c}, t)
    <2>1. PICK call, m : /\ call = Ent!SetNillable(c, t[c])
                         /\ m = IF v = None THEN m0 ELSE m1
      OBVIOUS
    <2>2. Makes(m0, call, m) /\ ExtendsBy(new, calls, call)
      BY <1>1, <1>5, <1>10, <2>1 DEF Makes
    <2>3. BuildsTo("Create", id, new, m) /\ IsSomeSeq(new)
      BY <1>8, <2>2
    <2> QED BY <1>1, <1>2, <1>3, <2>1, <2>3 DEF Tells
  <1> QED BY <1>9, <1>10

LEMMA TellsNothing ==
  ASSUME NEW id, NEW t
  PROVE  Tells(id, <<>>, {}, t)
  <1>1. PICK none : none = <<>>
    OBVIOUS
  <1>2. IsSomeSeq(none)
    <2>1. none \in Seq({})
      BY <1>1
    <2> QED BY <2>1 DEF IsSomeSeq
  <1>3. Said({}, t) = NothingSet
    BY DEF Said, NothingSet
  <1>4. Ent!Built("Create", id, none) = Ent!NewMutation("Create", id)
    BY <1>1, BuiltNone
  <1>5. Ent!NewMutation("Create", id)
           = Mutation("Create", id, Said({}, t), {}, none)
    BY <1>1, <1>3, NewIsMutation
  <1> QED BY <1>1, <1>2, <1>4, <1>5 DEF Tells, BuildsTo

(* With or without one more column. *)
LEMMA TellsIf ==
  ASSUME NEW id, NEW calls, NEW F, NEW t, Tells(id, calls, F, t), NEW c
  PROVE  Tells(id, calls \o (IF t[c] = Nil THEN <<>> ELSE <<Ent!Set(c, t[c])>>),
               IF t[c] = Nil THEN F ELSE F \cup {c}, t)
  <1>1. PICK T : calls \in Seq(T)
    BY DEF Tells, IsSomeSeq
  <1>2. CASE t[c] = Nil
    <2>1. calls \o <<>> = calls
      BY <1>1, ConcatEmptySeq
    <2> QED BY <1>2, <2>1
  <1>3. CASE t[c] # Nil
    <2>1. PICK call, U, new : /\ call = Ent!Set(c, t[c]) /\ U = T \cup {call}
                              /\ new = calls \o <<call>>
      OBVIOUS
    <2>2. calls \in Seq(U) /\ call \in U
      BY <1>1, <2>1
    <2>3. calls \o <<call>> = Append(calls, call)
      BY <2>2, AppendIsConcat
    <2>4. ExtendsBy(new, calls, Ent!Set(c, t[c]))
      BY <2>1, <2>3 DEF ExtendsBy
    <2>5. Tells(id, new, F \cup {c}, t)
      BY <2>4, TellsMore
    <2> QED BY <1>3, <2>1, <2>5
  <1> QED BY <1>2, <1>3

Always == {"work_id", "priority", "state", "scheduled_at", "created_at"}

(* The columns AddTask sets for t. *)
SetFor(t) ==
    Always \cup {c \in {"deadline"} : t[c] # None} \cup {c \in Maps : t[c] # Nil}

LEMMA AddCalls ==
  ASSUME NEW id, NEW t
  PROVE  Tells(id,
               ((<<Ent!Set("work_id", t.work_id), Ent!Set("priority", t.priority),
                   Ent!Set("state", t.state),
                   Ent!Set("scheduled_at", t.scheduled_at),
                   Ent!Set("created_at", t.created_at),
                   Ent!SetNillable("deadline", t.deadline)>>
                 \o (IF t.param = Nil THEN <<>> ELSE <<Ent!Set("param", t.param)>>))
                \o (IF t.meta = Nil THEN <<>> ELSE <<Ent!Set("meta", t.meta)>>)),
               SetFor(t), t)
  <1>1. PICK c1, c2, c3, c4, c5, c6 :
           /\ c1 = Ent!Set("work_id", t["work_id"])
           /\ c2 = Ent!Set("priority", t["priority"])
           /\ c3 = Ent!Set("state", t["state"])
           /\ c4 = Ent!Set("scheduled_at", t["scheduled_at"])
           /\ c5 = Ent!Set("created_at", t["created_at"])
           /\ c6 = Ent!SetNillable("deadline", t["deadline"])
    OBVIOUS
  <1>2. PICK s0, s1, s2, s3, s4, s5, s6 :
           /\ s0 = <<>> /\ s1 = <<c1>> /\ s2 = <<c1, c2>> /\ s3 = <<c1, c2, c3>>
           /\ s4 = <<c1, c2, c3, c4>> /\ s5 = <<c1, c2, c3, c4, c5>>
           /\ s6 = <<c1, c2, c3, c4, c5, c6>>
    OBVIOUS
  <1>3. /\ ExtendsBy(s1, s0, c1) /\ ExtendsBy(s2, s1, c2) /\ ExtendsBy(s3, s2, c3)
        /\ ExtendsBy(s4, s3, c4) /\ ExtendsBy(s5, s4, c5) /\ ExtendsBy(s6, s5, c6)
    BY <1>2 DEF ExtendsBy
  <1>4. Tells(id, s0, {}, t)
    BY <1>2, TellsNothing
  <1>5. Tells(id, s1, {} \cup {"work_id"}, t)
    BY <1>1, <1>3, <1>4, TellsMore
  <1>6. Tells(id, s2, ({} \cup {"work_id"}) \cup {"priority"}, t)
    BY <1>1, <1>3, <1>5, TellsMore
  <1>7. Tells(id, s3, (({} \cup {"work_id"}) \cup {"priority"}) \cup {"state"}, t)
    BY <1>1, <1>3, <1>6, TellsMore
  <1>8. PICK F3 : F3 = {"work_id", "priority", "state"}
    OBVIOUS
  <1>9. Tells(id, s3, F3, t)
    <2>1. (({} \cup {"work_id"}) \cup {"priority"}) \cup {"state"} = F3
      BY <1>8
    <2> QED BY <1>7, <2>1
  <1>10. Tells(id, s4, F3 \cup {"scheduled_at"}, t)
    BY <1>1, <1>3, <1>9, TellsMore
  <1>11. Tells(id, s5, (F3 \cup {"scheduled_at"}) \cup {"created_at"}, t)
    BY <1>1, <1>3, <1>10, TellsMore
  <1>12. PICK A : A = Always
    OBVIOUS
  <1>13. Tells(id, s5, A, t)
    <2>1. (F3 \cup {"scheduled_at"}) \cup {"created_at"} = A
      BY <1>8, <1>12 DEF Always
    <2> QED BY <1>11, <2>1
  <1>14. Tells(id, s6, IF t["deadline"] = None THEN A ELSE A \cup {"deadline"}, t)
    BY <1>1, <1>3, <1>13, TellsMore
  <1>15. PICK B : B = IF t["deadline"] = None THEN A ELSE A \cup {"deadline"}
    OBVIOUS
  <1>16. PICK s7 : s7 = s6 \o (IF t["param"] = Nil THEN <<>>
                               ELSE <<Ent!Set("param", t["param"])>>)
    OBVIOUS
  <1>17. Tells(id, s7, IF t["param"] = Nil THEN B ELSE B \cup {"param"}, t)
    <2>1. Tells(id, s6, B, t)
      BY <1>14, <1>15
    <2>2. Tells(id, s6 \o (IF t["param"] = Nil THEN <<>>
                           ELSE <<Ent!Set("param", t["param"])>>),
                IF t["param"] = Nil THEN B ELSE B \cup {"param"}, t)
      BY <2>1, TellsIf
    <2> QED BY <1>16, <2>2
  <1>18. PICK C : C = IF t["param"] = Nil THEN B ELSE B \cup {"param"}
    OBVIOUS
  <1>19. Tells(id, s7 \o (IF t["meta"] = Nil THEN <<>>
                          ELSE <<Ent!Set("meta", t["meta"])>>),
               IF t["meta"] = Nil THEN C ELSE C \cup {"meta"}, t)
    <2>1. Tells(id, s7, C, t)
      BY <1>17, <1>18
    <2> QED BY <2>1, TellsIf
  <1>20. (IF t["meta"] = Nil THEN C ELSE C \cup {"meta"}) = SetFor(t)
    BY <1>12, <1>15, <1>18 DEF SetFor, Maps
  <1> QED BY <1>1, <1>2, <1>16, <1>19, <1>20

(* The row the INSERT writes. *)
NewRow(t, defaulted) ==
    [c \in Fields |-> IF c = "id" THEN t.id
                      ELSE IF c \in Maps /\ t[c] = Nil THEN defaulted[c]
                      ELSE IF c \in OptionalTimes /\ t[c] = None THEN Null
                      ELSE t[c]]

IsTask(t, p, id, now) == t = ToTask(p, id, now)
IsAdd(e, tbl, d, id, now, p) == e = Ent!AddTask(tbl, d, id, now, p)

Added(e, tbl, d, id, t) ==
    /\ ~IsValid(t) => e.err = "invalid_task" /\ e.store = tbl
    /\ IsValid(t) => e.err = "" /\ e.store = Ent!With(tbl, id, NewRow(t, d))

LEMMA EntAdds ==
  ASSUME NEW tbl, NEW d, NEW id \in Int, id \notin DOMAIN tbl, NEW now \in Int,
         NEW p, IsParam(p), NEW t, IsTask(t, p, id, now),
         NEW e, IsAdd(e, tbl, d, id, now, p)
  PROVE  Added(e, tbl, d, id, t)
  <1>0. t = ToTask(p, id, now) /\ e = Ent!AddTask(tbl, d, id, now, p)
    BY DEF IsTask, IsAdd
  <1>1. Ent!ToTask(p, id, now) = t /\ (Ent!IsValid(t) <=> IsValid(t))
    BY <1>0, EntOperators
  <1>2. TaskOK(t, id) /\ t.state = "scheduled"
    BY <1>0, ToTaskOK
  <1>3. \A f \in OptionalTimes \ {"deadline"} : t[f] = None
    BY <1>0, ToTaskFields
  <1> DEFINE F == SetFor(t)
             m0 == Mutation("Create", id, Said(F, t), {}, <<>>)
             m == Ent!CreateDefaults(m0, d)
             defaulted == [c \in F \cup {"err"} \cup Maps |->
                             IF c \in F THEN t[c]
                             ELSE IF c \in Maps THEN d[c] ELSE ""]
  <1>4. /\ Always \subseteq F /\ F \subseteq Always \cup {"deadline"} \cup Maps
        /\ "deadline" \in F <=> t["deadline"] # None
        /\ \A c \in Maps : c \in F <=> t[c] # Nil
    BY DEF SetFor, Always, Maps
  <1>5. m.set = defaulted /\ m.id = id
    <2>1. PICK s0, none : s0 = Said(F, t) /\ none = <<>>
      OBVIOUS
    <2>2. PICK x : x = Mutation("Create", id, s0, {}, none)
      OBVIOUS
    <2>3. /\ x = [f \in MutationNames |-> x[f]]
          /\ x.op = "Create" /\ x.id = id /\ x.set = s0 /\ x.add = None
          /\ x.cleared = {} /\ x.where = none
      BY <2>2, MutationFields
    <2>4. /\ DOMAIN s0 = F /\ \A c \in F : s0[c] = t[c]
      BY <2>1 DEF Said
    <2>5. PICK sch : sch = Ent!SchemaDefaults(d)
      OBVIOUS
    <2>6. /\ DOMAIN sch = {"priority", "state", "err", "param", "meta"}
          /\ sch["err"] = "" /\ sch["param"] = d["param"] /\ sch["meta"] = d["meta"]
      BY <2>5 DEF Ent!SchemaDefaults
    <2> HIDE DEF F
    <2>7. DOMAIN sch \ F = {c \in {"err", "param", "meta"} : c \notin F}
      BY <1>4, <2>6 DEF Always
    <2>8. [c \in F \cup (DOMAIN sch \ F) |->
             IF c \in DOMAIN sch \ F THEN sch[c] ELSE s0[c]] = defaulted
      <3> DEFINE l == [c \in F \cup (DOMAIN sch \ F) |->
                         IF c \in DOMAIN sch \ F THEN sch[c] ELSE s0[c]]
      <3>1. F \cup (DOMAIN sch \ F) = F \cup {"err"} \cup Maps
        BY <2>7 DEF Maps
      <3>2. "err" \notin F
        BY <1>4 DEF Always, Maps
      <3>3. ASSUME NEW c \in F \cup {"err"} \cup Maps
            PROVE  l[c] = defaulted[c]
        <4>1. CASE c \in F
          BY <2>4, <3>1, <4>1
        <4>2. CASE c \notin F
          <5>1. c \in {"err", "param", "meta"}
            BY <4>2 DEF Maps
          <5>2. l[c] = sch[c]
            BY <2>7, <3>1, <4>2, <5>1
          <5> QED BY <2>6, <4>2, <5>1, <5>2 DEF Maps
        <4> QED BY <4>1, <4>2
      <3> QED BY <3>1, <3>3
    <2>9. Ent!CreateDefaults(x, d)
             = [x EXCEPT !.set = [c \in F \cup (DOMAIN sch \ F) |->
                                    IF c \in DOMAIN sch \ F THEN sch[c]
                                    ELSE s0[c]]]
      BY <2>3, <2>4, <2>5 DEF Ent!CreateDefaults
    <2>10. x = m0
      BY <2>1, <2>2
    <2> HIDE DEF defaulted, m0
    <2>11. m = [x EXCEPT !.set = defaulted]
      BY <2>8, <2>9, <2>10
    <2>12. "set" \in MutationNames /\ "id" \in MutationNames
      BY DEF MutationNames
    <2> HIDE DEF m
    <2> QED BY <2>3, <2>11, <2>12
  <1> HIDE DEF m0, m
  <1>6. DOMAIN m.set = F \cup {"err"} \cup Maps
    BY <1>5
  <1>7. ASSUME IsValid(t)
        PROVE  Ent!CreateCheck(m)
    <2>1. Ent!Columns \ (Ent!Nullable \cup {"id"}) \subseteq DOMAIN m.set
      <3>1. Ent!Columns = Fields /\ Ent!Nullable = OptionalTimes
        BY EntOperators
      <3>2. Fields \ (OptionalTimes \cup {"id"}) \subseteq Always \cup {"err"} \cup Maps
        BY FieldNames DEF OptionalTimes, Always, Maps
      <3> HIDE DEF F
      <3> QED BY <1>4, <1>6, <3>1, <3>2
    <2>2. /\ "work_id" \in F /\ "state" \in F
          /\ m.set["work_id"] = t["work_id"] /\ m.set["state"] = t["state"]
      <3>1. "work_id" \in F /\ "state" \in F
        BY <1>4 DEF Always
      <3> HIDE DEF F
      <3> QED BY <1>5, <3>1
    <2>3. t["work_id"] # "" /\ t["state"] \in States
      BY <1>7 DEF IsValid, IsState
    <2> QED BY <2>1, <2>2, <2>3, EntOperators
       DEF Ent!CreateCheck, Ent!Validated, Ent!StateValidator
  <1>8. Ent!CreateSpec(m) = NewRow(t, d)
    <2>1. Ent!CreateSpec(m)
             = [c \in Fields |-> IF c = "id" THEN id
                                 ELSE IF c \in DOMAIN defaulted THEN defaulted[c]
                                 ELSE Null]
      BY <1>5, EntOperators DEF Ent!CreateSpec
    <2>2. ASSUME NEW c \in Fields, c # "id"
          PROVE  (IF c \in DOMAIN defaulted THEN defaulted[c] ELSE Null)
                   = IF c \in Maps /\ t[c] = Nil THEN d[c]
                     ELSE IF c \in OptionalTimes /\ t[c] = None THEN Null
                     ELSE t[c]
      <3>0. DOMAIN defaulted = F \cup {"err"} \cup Maps
        OBVIOUS
      <3>1. CASE c \in Maps
        <4>1. c \notin OptionalTimes
          BY <3>1 DEF Maps, OptionalTimes
        <4> HIDE DEF F
        <4> QED BY <1>4, <3>1, <4>1
      <3>2. CASE c \in OptionalTimes
        <4>1. c \notin Maps /\ c # "err" /\ (c \in F => c = "deadline")
          BY <1>4, <3>2 DEF Maps, OptionalTimes, Always
        <4>2. c \notin F => t[c] = None
          BY <1>3, <1>4, <3>2, <4>1
        <4>3. c \in F => t[c] # None
          BY <1>4, <4>1
        <4> HIDE DEF F
        <4> QED BY <3>2, <4>1, <4>2, <4>3
      <3>3. CASE c = "err"
        <4>1. t["err"] = ""
          BY <1>2 DEF TaskOK
        <4>2. c \notin F /\ c \notin Maps /\ c \notin OptionalTimes
          BY <1>4, <3>3 DEF Maps, OptionalTimes, Always
        <4> HIDE DEF F
        <4> QED BY <3>3, <4>1, <4>2
      <3>4. CASE c \in Always
        <4>1. c \in F /\ c \notin Maps /\ c \notin OptionalTimes
          BY <1>4, <3>4 DEF Maps, OptionalTimes, Always
        <4> HIDE DEF F
        <4> QED BY <4>1
      <3> QED BY <2>2, <3>1, <3>2, <3>3, <3>4, FieldNames
         DEF Always, Maps, OptionalTimes
    <2>3. t["id"] = id
      BY <1>2 DEF TaskOK
    <2> HIDE DEF defaulted
    <2>4. Ent!CreateSpec(m)
             = [c \in Fields |-> IF c = "id" THEN t["id"]
                                 ELSE IF c \in Maps /\ t[c] = Nil THEN d[c]
                                 ELSE IF c \in OptionalTimes /\ t[c] = None
                                 THEN Null ELSE t[c]]
      BY <2>1, <2>2, <2>3
    <2> QED BY <2>4 DEF NewRow
  <1> HIDE DEF defaulted
  <1>9. PICK calls :
           calls = (<<Ent!Set("work_id", t.work_id), Ent!Set("priority", t.priority),
                      Ent!Set("state", t.state),
                      Ent!Set("scheduled_at", t.scheduled_at),
                      Ent!Set("created_at", t.created_at),
                      Ent!SetNillable("deadline", t.deadline)>>
                    \o (IF t.param = Nil THEN <<>> ELSE <<Ent!Set("param", t.param)>>))
                   \o (IF t.meta = Nil THEN <<>> ELSE <<Ent!Set("meta", t.meta)>>)
    OBVIOUS
  <1>10. Ent!Built("Create", id, calls) = m0
    <2>1. Tells(id, calls, F, t)
      BY <1>9, AddCalls
    <2> QED BY <2>1 DEF Tells, BuildsTo, m0
  <1>11. ASSUME IsValid(t)
         PROVE  Ent!CreateSave(tbl, id, calls, d)
                   = [table |-> Ent!With(tbl, id, NewRow(t, d)), err |-> ""]
    BY <1>7, <1>8, <1>10, <1>11 DEF Ent!CreateSave, m
  <1>12. CASE ~IsValid(t)
    <2>1. e = [store |-> tbl, err |-> "invalid_task"]
      BY <1>0, <1>1, <1>12 DEF Ent!AddTask, Ent!Answer
    <2> QED BY <1>12, <2>1 DEF Added
  <1>13. CASE IsValid(t)
    <2>1. PICK saved, new : /\ saved = Ent!CreateSave(tbl, id, calls, d)
                            /\ new = Ent!With(tbl, id, NewRow(t, d))
      OBVIOUS
    <2>2. e = [store |-> saved.table, err |-> saved.err]
      BY <1>0, <1>1, <1>9, <1>13, <2>1 DEF Ent!AddTask, Ent!Answer
    <2>3. saved = [table |-> new, err |-> ""]
      BY <1>11, <1>13, <2>1
    <2>5. e = [store |-> new, err |-> ""]
      BY <2>2, <2>3
    <2>6. e.store = new /\ e.err = ""
      BY <2>5
    <2> QED BY <1>13, <2>1, <2>6 DEF Added
  <1> QED BY <1>12, <1>13

(* One more task in both. *)
IsMemoryAdd(m, store, id, now, p) == m = Memory!AddTask(store, id, now, p)

(* Of the maps a parameter leaves out, those no caller has written to. *)
DefaultsOK(p, d, part) ==
    /\ part \in SUBSET Fields
    /\ \A f \in Maps : f \notin DOMAIN p /\ f \notin part => d[f] = EmptyMap

AddedTwins(m, e, store, parts, part, p, id, now) ==
    /\ m.err = e.err
    /\ Twins(m.store, e.store, IF m.err = "" THEN Append(parts, part) ELSE parts)
    /\ m.err = "" => m.store = Append(store, ToTask(p, id, now))
    /\ m.err # "" => m.store = store
    /\ m.err \in {"", "invalid_task"}

LEMMA TwinsAdded ==
  ASSUME NEW store, NEW tbl, NEW parts, Twins(store, tbl, parts),
         NEW p, IsParam(p), NEW now \in Int, NEW d, NEW part,
         DefaultsOK(p, d, part), NEW id, id = Len(store) + 1,
         NEW m, IsMemoryAdd(m, store, id, now, p),
         NEW e, IsAdd(e, tbl, d, id, now, p)
  PROVE  AddedTwins(m, e, store, parts, part, p, id, now)
  <1>1. PICK t : t = ToTask(p, id, now)
    OBVIOUS
  <1>2. /\ IsSomeSeq(store) /\ IsSomeSeq(parts) /\ Len(parts) = Len(store)
        /\ DOMAIN tbl \subseteq 1 .. Len(store)
        /\ \A j \in DOMAIN tbl : tbl[j]["id"] = j
        /\ \A j \in 1 .. Len(store) : TwinTask(tbl, store[j], parts[j], j)
    BY DEF Twins
  <1>3. id \in Int /\ id \notin DOMAIN tbl /\ id \notin 1 .. Len(store)
        /\ 1 .. id = 1 .. Len(store) \cup {id}
    BY <1>2, SeqFacts
  <1>4. TaskOK(t, id) /\ ToTask(NormalizeParam(p), id, now) = t
    BY <1>1, <1>3, ToTaskOK
  <1>5. m = Memory!AddTask(store, id, now, p)
    BY DEF IsMemoryAdd
  <1>6. /\ ~IsValid(t) => e.err = "invalid_task" /\ e.store = tbl
        /\ IsValid(t) => e.err = "" /\ e.store = Ent!With(tbl, id, NewRow(t, d))
    <2>1. IsTask(t, p, id, now)
      BY <1>1 DEF IsTask
    <2>2. Added(e, tbl, d, id, t)
      BY <1>3, <2>1, EntAdds
    <2> QED BY <2>2 DEF Added
  <1>7. m = IF IsValid(t) THEN [store |-> Append(store, t), err |-> ""]
            ELSE [store |-> store, err |-> "invalid_task"]
    BY <1>4, <1>5, MemoryOperators DEF Memory!AddTask, Memory!Answer
  <1>8. CASE ~IsValid(t)
    <2>1. m.store = store /\ m.err = "invalid_task"
      BY <1>7, <1>8
    <2>2. Twins(m.store, e.store, IF m.err = "" THEN Append(parts, part) ELSE parts)
      BY <1>6, <1>8, <2>1
    <2> QED BY <1>6, <1>8, <2>1, <2>2 DEF AddedTwins
  <1>9. CASE IsValid(t)
    <2>1. m.store = Append(store, t) /\ m.err = ""
      BY <1>7, <1>9
    <2>2. PICK tbl2, row, store2, parts2 :
             /\ tbl2 = Ent!With(tbl, id, row) /\ row = NewRow(t, d)
             /\ store2 = Append(store, t) /\ parts2 = Append(parts, part)
      OBVIOUS
    <2>3. /\ DOMAIN tbl2 = DOMAIN tbl \cup {id}
          /\ tbl2[id] = row
          /\ \A j \in DOMAIN tbl : j # id => tbl2[j] = tbl[j]
      BY <2>2 DEF Ent!With
    <2>4. /\ IsSomeSeq(store2) /\ Len(store2) = id /\ store2[id] = t
          /\ \A j \in 1 .. Len(store) : store2[j] = store[j]
      <3>1. PICK T : store \in Seq(T)
        BY <1>2 DEF IsSomeSeq
      <3>2. PICK U : U = T \cup {t}
        OBVIOUS
      <3>3. store \in Seq(U) /\ t \in U
        BY <3>1, <3>2
      <3>4. store2 \in Seq(U) /\ Len(store2) = Len(store) + 1
            /\ store2[Len(store) + 1] = t
            /\ \A j \in 1 .. Len(store) : store2[j] = store[j]
        BY <2>2, <3>3
      <3> QED BY <3>4 DEF IsSomeSeq
    <2>5. /\ IsSomeSeq(parts2) /\ Len(parts2) = id /\ parts2[id] = part
          /\ \A j \in 1 .. Len(store) : parts2[j] = parts[j]
      <3>1. PICK T : parts \in Seq(T)
        BY <1>2 DEF IsSomeSeq
      <3>2. PICK U : U = T \cup {part}
        OBVIOUS
      <3>3. parts \in Seq(U) /\ part \in U
        BY <3>1, <3>2
      <3>4. parts2 \in Seq(U) /\ Len(parts2) = Len(store) + 1
            /\ parts2[Len(store) + 1] = part
            /\ \A j \in 1 .. Len(store) : parts2[j] = parts[j]
        BY <1>2, <2>2, <3>3
      <3> QED BY <3>4 DEF IsSomeSeq
    <2>6. row["id"] = id
      <3>1. t["id"] = id
        BY <1>4 DEF TaskOK
      <3> QED BY <2>2, <3>1, FieldNames DEF NewRow
    <2>7. RowMeans(row, t, Fields \ part)
      <3>1. ASSUME NEW f \in Fields \ part
            PROVE  IF f \in Maps THEN row[f] \notin {Null, Nil} /\ MapOf(row[f]) = MapOf(t[f])
                   ELSE row[f] = IF f \in OptionalTimes /\ t[f] = None THEN Null
                                 ELSE t[f]
        <4>1. row[f] = IF f = "id" THEN t["id"]
                       ELSE IF f \in Maps /\ t[f] = Nil THEN d[f]
                       ELSE IF f \in OptionalTimes /\ t[f] = None THEN Null
                       ELSE t[f]
          BY <2>2 DEF NewRow
        <4>2. CASE f \in Maps
          <5>1. f # "id" /\ f \notin OptionalTimes
            BY <4>2 DEF Maps, OptionalTimes
          <5>2. CASE t[f] = Nil
            <6>1. d[f] = EmptyMap
              <7>1. f \in DOMAIN p => t[f] = MapOf(p[f])
                BY <1>1, <4>2, ToTaskFields
              <7>2. f \in DOMAIN p => p[f] # Null /\ MapOf(p[f]) # Nil
                BY <4>2, TwinAssumption DEF IsParam, MapOf
              <7> QED BY <3>1, <4>2, <5>2, <7>1, <7>2 DEF DefaultsOK
            <6>2. EmptyMap # Null /\ EmptyMap # Nil
              BY TwinAssumption
            <6> QED BY <4>1, <4>2, <5>1, <5>2, <6>1, <6>2 DEF MapOf
          <5>3. CASE t[f] # Nil
            <6>1. t[f] # Null
              BY <1>4, <5>1 DEF TaskOK
            <6> QED BY <4>1, <4>2, <5>1, <5>3, <6>1
          <5> QED BY <5>2, <5>3
        <4>3. CASE f \notin Maps
          <5>1. "id" \notin OptionalTimes
            BY DEF OptionalTimes
          <5> QED BY <4>1, <4>3, <5>1
        <4> QED BY <4>2, <4>3
      <3> QED BY <3>1 DEF RowMeans
    <2>8. ASSUME NEW j \in 1 .. id
          PROVE  TwinTask(tbl2, store2[j], parts2[j], j)
      <3>1. CASE j = id
        <4>1. TwinTask(tbl2, t, part, id)
          BY <1>4, <2>3, <2>7 DEF TwinTask, DefaultsOK
        <4> QED BY <2>4, <2>5, <3>1, <4>1
      <3>2. CASE j # id
        <4>1. j \in 1 .. Len(store)
          BY <1>3, <3>2
        <4>2. TwinTask(tbl, store[j], parts[j], j)
          BY <1>2, <4>1
        <4>3. store2[j] = store[j] /\ parts2[j] = parts[j]
          BY <2>4, <2>5, <4>1
        <4>4. j \in DOMAIN tbl => j \in DOMAIN tbl2 /\ tbl2[j] = tbl[j]
          BY <2>3, <3>2
        <4> QED BY <4>2, <4>3, <4>4 DEF TwinTask
      <3> QED BY <3>1, <3>2
    <2>9. Twins(store2, tbl2, parts2)
      <3>1. DOMAIN tbl2 \subseteq 1 .. Len(store2)
        BY <1>2, <1>3, <2>3, <2>4
      <3>2. \A j \in DOMAIN tbl2 : tbl2[j]["id"] = j
        BY <1>2, <1>3, <2>3, <2>6
      <3>3. \A j \in 1 .. Len(store2) : TwinTask(tbl2, store2[j], parts2[j], j)
        BY <2>4, <2>8
      <3> QED BY <2>4, <2>5, <3>1, <3>2, <3>3 DEF Twins
    <2>10. e.err = "" /\ e.store = tbl2
      BY <1>6, <1>9, <2>2
    <2>11. Twins(m.store, e.store, IF m.err = "" THEN Append(parts, part) ELSE parts)
      BY <2>1, <2>2, <2>9, <2>10
    <2> QED BY <1>1, <2>1, <2>10, <2>11 DEF AddedTwins
  <1> QED BY <1>8, <1>9

-----------------------------------------------------------------------------
(* Every operation on one task. *)
(* The columns a stamp sets, and the error it leaves. *)
StampColumns(set, state, err, f, v) ==
    /\ DOMAIN set \subseteq {"state", "err", f}
    /\ {"state", f} \subseteq DOMAIN set
    /\ set["state"] = state /\ set[f] = v
    /\ "err" \in DOMAIN set => set["err"] = err

StampErr(set, t, state, err) ==
    /\ err # Null
    /\ state # "err" => err = ""
    /\ "err" \notin DOMAIN set => err = t.err

SameReason(store, parts, id, kindM, kindE) ==
    Known(store, id) /\ parts[id] = {} => kindM = kindE

LEMMA StampTwins ==
  ASSUME NEW store, NEW tbl, NEW parts, Twins(store, tbl, parts), NEW id,
         NEW now \in Int, NEW s, NEW kindM, NEW kindE, NEW state \in States,
         NEW err, NEW f \in OptionalTimes, NEW set,
         StampColumns(set, state, err, f, NormalizeTime(now)),
         Known(store, id) /\ store[id].state = s =>
            StampErr(set, store[id], state, err),
         SameReason(store, parts, id, kindM, kindE),
         NEW m, MemoryOutcome(m, store, id, s, kindM,
                              Stamped(store[id], state, err, f,
                                      NormalizeTime(now))),
         NEW e, EntOutcome(e, tbl, id, s, kindE, set, {})
  PROVE  TwinAnswers(m, e, store, parts, id, PartedMore(store, parts, id))
  <1>1. PICK new, t, v : /\ v = NormalizeTime(now) /\ t = store[id]
                         /\ new = Stamped(t, state, err, f, v)
    OBVIOUS
  <1>2. "id" \notin DOMAIN set \cup {}
    BY DEF StampColumns, OptionalTimes
  <1>3. Known(store, id) => TwinTask(tbl, t, parts[id], id)
    BY <1>1 DEF Known, Twins
  <1>4. ASSUME Known(store, id), t.state = s
        PROVE  TaskOK(new, id)
    <2>1. TaskOK(t, id)
      BY <1>3, <1>4 DEF TwinTask
    <2>2. err # Null /\ (state # "err" => err = "")
      BY <1>1, <1>4 DEF StampErr
    <2> QED BY <1>1, <2>1, <2>2, StampedOK
  <1>5. ASSUME Known(store, id), parts[id] = {}, t.state = s
        PROVE  RowMeans(Written(set, {}, tbl[id]), new, Fields)
    <2>1. TwinTask(tbl, t, {}, id)
      BY <1>3, <1>5
    <2>2. PICK row : row = tbl[id]
      OBVIOUS
    <2>3. RowMeans(row, t, Fields)
      <3>1. Fields # {} /\ Fields \ {} = Fields
        BY FieldNames
      <3> QED BY <2>1, <2>2, <3>1 DEF TwinTask
    <2>4. v \in Int
      BY <1>1, Truncated
    <2>5. /\ DOMAIN set \subseteq {"state", "err", f}
          /\ {"state", f} \subseteq DOMAIN set
          /\ set["state"] = state /\ set[f] = v
          /\ "err" \in DOMAIN set => set["err"] = err
      BY <1>1 DEF StampColumns
    <2>6. "err" \notin DOMAIN set => err = t.err
      BY <1>1, <1>5 DEF StampErr
    <2>7. RowMeans(Written(set, {}, row), Stamped(t, state, err, f, v), Fields)
      BY <2>3, <2>4, <2>5, <2>6, StampedRow
    <2> QED BY <1>1, <2>2, <2>7
  <1>6. PICK none : none = {}
    OBVIOUS
  <1>7. Alike(store, tbl, parts, id, s, kindM, kindE, new, set, none)
    BY <1>1, <1>2, <1>4, <1>5, <1>6 DEF Alike, SameReason
  <1>8. MemoryOutcome(m, store, id, s, kindM, new)
        /\ EntOutcome(e, tbl, id, s, kindE, set, none)
    BY <1>1, <1>6
  <1> QED BY <1>7, <1>8, TwinOutcomes

-----------------------------------------------------------------------------
(* Two that refuse a call on one task explain it alike. *)
LEMMA TwinsReason ==
  ASSUME NEW store, NEW tbl, NEW parts, Twins(store, tbl, parts), NEW id
  PROVE  /\ SameReason(store, parts, id, ErrKindUpdate(store[id]),
                       ErrKindUpdate(RowTask(tbl[id])))
         /\ SameReason(store, parts, id, ErrKindMarkAsDone(store[id]),
                       ErrKindMarkAsDone(RowTask(tbl[id])))
         /\ Known(store, id) => TaskOK(store[id], id)
  <1>1. Known(store, id) => TwinTask(tbl, store[id], parts[id], id)
    BY DEF Known, Twins
  <1>2. ASSUME Known(store, id), parts[id] = {}
        PROVE  /\ ErrKindUpdate(store[id]) = ErrKindUpdate(RowTask(tbl[id]))
               /\ ErrKindMarkAsDone(store[id]) = ErrKindMarkAsDone(RowTask(tbl[id]))
    <2>1. TwinTask(tbl, store[id], {}, id)
      BY <1>1, <1>2
    <2>2. PICK t, row : t = store[id] /\ row = tbl[id]
      OBVIOUS
    <2>3. TaskOK(t, id) /\ RowMeans(row, t, Fields)
      <3>1. Fields # {} /\ Fields \ {} = Fields
        BY FieldNames
      <3> QED BY <2>1, <2>2, <3>1 DEF TwinTask
    <2>4. /\ ErrKindUpdate(RowTask(row)) = ErrKindUpdate(t)
          /\ ErrKindMarkAsDone(RowTask(row)) = ErrKindMarkAsDone(t)
      BY <2>3, SameKinds
    <2> QED BY <2>2, <2>4
  <1> QED BY <1>1, <1>2 DEF SameReason, TwinTask

LEMMA StampSetColumns ==
  ASSUME NEW state, NEW f \in OptionalTimes, NEW v, NEW err, NEW r
  PROVE  /\ StampColumns(StampSet(state, f, v), state, err, f, v)
         /\ "err" \notin DOMAIN StampSet(state, f, v)
         /\ StampColumns(Ent!With(StampSet(state, f, v), "err", r), state, r, f, v)
         /\ "err" \in DOMAIN Ent!With(StampSet(state, f, v), "err", r)
  <1>1. f # "state" /\ f # "err"
    BY DEF OptionalTimes
  <1>2. PICK set : set = StampSet(state, f, v)
    OBVIOUS
  <1>3. DOMAIN set = {"state", f} /\ set["state"] = state /\ set[f] = v
    BY <1>1, <1>2 DEF StampSet, StateSet, NothingSet, Ent!With
  <1>4. PICK more : more = Ent!With(set, "err", r)
    OBVIOUS
  <1>5. DOMAIN more = {"state", f, "err"} /\ more["state"] = state
        /\ more[f] = v /\ more["err"] = r
    BY <1>1, <1>3, <1>4 DEF Ent!With
  <1> QED BY <1>1, <1>2, <1>3, <1>4, <1>5 DEF StampColumns

LEMMA CancelTwins ==
  ASSUME NEW store, NEW tbl, NEW parts, Twins(store, tbl, parts), NEW id,
         NEW now \in Int
  PROVE  TwinAnswers(Memory!Cancel(store, id, now), Ent!Cancel(tbl, id, now),
                     store, parts, id, PartedMore(store, parts, id))
  <1>1. PICK t, v, kindM, kindE, set, m, e :
           /\ t = store[id] /\ v = NormalizeTime(now)
           /\ kindM = ErrKindUpdate(t) /\ kindE = ErrKindUpdate(RowTask(tbl[id]))
           /\ set = StampSet("cancelled", "cancelled_at", v)
           /\ m = Memory!Cancel(store, id, now) /\ e = Ent!Cancel(tbl, id, now)
    OBVIOUS
  <1>2. MemoryOutcome(m, store, id, "scheduled", kindM,
                      Stamped(t, "cancelled", t.err, "cancelled_at", v))
    BY <1>1, MemoryStamps
  <1>3. EntOutcome(e, tbl, id, "scheduled", kindE, set, {})
    BY <1>1, EntStamps
  <1>4. SameReason(store, parts, id, kindM, kindE)
    BY <1>1, TwinsReason
  <1>5. "cancelled" \in States /\ "cancelled_at" \in OptionalTimes
    BY DEF States, OptionalTimes
  <1>6. PICK err : err = t.err
    OBVIOUS
  <1>7. StampColumns(set, "cancelled", err, "cancelled_at", v)
        /\ "err" \notin DOMAIN set
    BY <1>1, <1>5, StampSetColumns
  <1>8. Known(store, id) /\ t.state = "scheduled" =>
           StampErr(set, t, "cancelled", err)
    <2>1. Known(store, id) => TaskOK(t, id)
      BY <1>1, TwinsReason
    <2>2. Known(store, id) => t["err"] # Null
      BY <2>1, FieldNames DEF TaskOK, OptionalTimes
    <2>3. Known(store, id) /\ t.state = "scheduled" => t.err = ""
      BY <2>1 DEF TaskOK
    <2> QED BY <1>6, <1>7, <2>2, <2>3 DEF StampErr
  <1>9. /\ StampColumns(set, "cancelled", err, "cancelled_at", NormalizeTime(now))
        /\ Known(store, id) /\ store[id].state = "scheduled" =>
              StampErr(set, store[id], "cancelled", err)
        /\ MemoryOutcome(m, store, id, "scheduled", kindM,
                         Stamped(store[id], "cancelled", err, "cancelled_at",
                                 NormalizeTime(now)))
    BY <1>1, <1>2, <1>6, <1>7, <1>8
  <1>10. TwinAnswers(m, e, store, parts, id, PartedMore(store, parts, id))
    BY <1>3, <1>4, <1>5, <1>9, StampTwins
  <1> QED BY <1>1, <1>10

LEMMA MarkAsDispatchedTwins ==
  ASSUME NEW store, NEW tbl, NEW parts, Twins(store, tbl, parts), NEW id,
         NEW now \in Int
  PROVE  TwinAnswers(Memory!MarkAsDispatched(store, id, now),
                     Ent!MarkAsDispatched(tbl, id, now),
                     store, parts, id, PartedMore(store, parts, id))
  <1>1. PICK t, v, kindM, kindE, set, m, e :
           /\ t = store[id] /\ v = NormalizeTime(now)
           /\ kindM = ErrKindUpdate(t) /\ kindE = ErrKindUpdate(RowTask(tbl[id]))
           /\ set = StampSet("dispatched", "dispatched_at", v)
           /\ m = Memory!MarkAsDispatched(store, id, now)
           /\ e = Ent!MarkAsDispatched(tbl, id, now)
    OBVIOUS
  <1>2. MemoryOutcome(m, store, id, "scheduled", kindM,
                      Stamped(t, "dispatched", t.err, "dispatched_at", v))
    BY <1>1, MemoryStamps
  <1>3. EntOutcome(e, tbl, id, "scheduled", kindE, set, {})
    BY <1>1, EntStamps
  <1>4. SameReason(store, parts, id, kindM, kindE)
    BY <1>1, TwinsReason
  <1>5. "dispatched" \in States /\ "dispatched_at" \in OptionalTimes
    BY DEF States, OptionalTimes
  <1>6. PICK err : err = t.err
    OBVIOUS
  <1>7. StampColumns(set, "dispatched", err, "dispatched_at", v)
        /\ "err" \notin DOMAIN set
    BY <1>1, <1>5, StampSetColumns
  <1>8. Known(store, id) /\ t.state = "scheduled" =>
           StampErr(set, t, "dispatched", err)
    <2>1. Known(store, id) => TaskOK(t, id)
      BY <1>1, TwinsReason
    <2>2. Known(store, id) => t["err"] # Null
      BY <2>1, FieldNames DEF TaskOK, OptionalTimes
    <2>3. Known(store, id) /\ t.state = "scheduled" => t.err = ""
      BY <2>1 DEF TaskOK
    <2> QED BY <1>6, <1>7, <2>2, <2>3 DEF StampErr
  <1>9. /\ StampColumns(set, "dispatched", err, "dispatched_at", NormalizeTime(now))
        /\ Known(store, id) /\ store[id].state = "scheduled" =>
              StampErr(set, store[id], "dispatched", err)
        /\ MemoryOutcome(m, store, id, "scheduled", kindM,
                         Stamped(store[id], "dispatched", err, "dispatched_at",
                                 NormalizeTime(now)))
    BY <1>1, <1>2, <1>6, <1>7, <1>8
  <1>10. TwinAnswers(m, e, store, parts, id, PartedMore(store, parts, id))
    BY <1>3, <1>4, <1>5, <1>9, StampTwins
  <1> QED BY <1>1, <1>10

LEMMA MarkAsDoneTwins ==
  ASSUME NEW store, NEW tbl, NEW parts, Twins(store, tbl, parts), NEW id,
         NEW now \in Int, NEW r, r # Null
  PROVE  TwinAnswers(Memory!MarkAsDone(store, id, now, r),
                     Ent!MarkAsDone(tbl, id, now, r),
                     store, parts, id, PartedMore(store, parts, id))
  <1>1. PICK t, v, kindM, kindE, set, state, m, e :
           /\ t = store[id] /\ v = NormalizeTime(now)
           /\ kindM = ErrKindMarkAsDone(t)
           /\ kindE = ErrKindMarkAsDone(RowTask(tbl[id]))
           /\ set = DoneSet(r, v)
           /\ state = IF r = "" THEN "done" ELSE "err"
           /\ m = Memory!MarkAsDone(store, id, now, r)
           /\ e = Ent!MarkAsDone(tbl, id, now, r)
    OBVIOUS
  <1>2. MemoryOutcome(m, store, id, "dispatched", kindM,
                      Stamped(t, state, r, "done_at", v))
    BY <1>1, MemoryStamps
  <1>3. EntOutcome(e, tbl, id, "dispatched", kindE, set, {})
    BY <1>1, EntDone
  <1>4. SameReason(store, parts, id, kindM, kindE)
    BY <1>1, TwinsReason
  <1>5. state \in States /\ "done_at" \in OptionalTimes
    BY <1>1 DEF States, OptionalTimes
  <1>7. StampColumns(set, state, r, "done_at", v)
        /\ (r # "" => "err" \in DOMAIN set)
    BY <1>1, <1>5, StampSetColumns DEF DoneSet
  <1>8. Known(store, id) /\ t.state = "dispatched" => StampErr(set, t, state, r)
    <2>1. Known(store, id) => TaskOK(t, id)
      BY <1>1, TwinsReason
    <2>3. Known(store, id) /\ t.state = "dispatched" => t.err = ""
      BY <2>1 DEF TaskOK
    <2> QED BY <1>1, <1>7, <2>3 DEF StampErr
  <1>9. /\ StampColumns(set, state, r, "done_at", NormalizeTime(now))
        /\ Known(store, id) /\ store[id].state = "dispatched" =>
              StampErr(set, store[id], state, r)
        /\ MemoryOutcome(m, store, id, "dispatched", kindM,
                         Stamped(store[id], state, r, "done_at",
                                 NormalizeTime(now)))
    BY <1>1, <1>2, <1>7, <1>8
  <1>10. TwinAnswers(m, e, store, parts, id, PartedMore(store, parts, id))
    BY <1>3, <1>4, <1>5, <1>9, StampTwins
  <1> QED BY <1>1, <1>10

LEMMA TwinsPartMore ==
  ASSUME NEW store, NEW tbl, NEW parts, NEW id, NEW store2, NEW refused \in BOOLEAN,
         Len(store2) = Len(store), IsSomeSeq(parts), Len(parts) = Len(store),
         Twins(store2, tbl, PartedMore(store, parts, id))
  PROVE  Twins(store2, tbl, Parted(store, parts, id, refused))
  <1>1. CASE ~(Known(store, id) /\ parts[id] = {} /\ refused)
    <2>1. Parted(store, parts, id, refused) = PartedMore(store, parts, id)
      BY <1>1 DEF Parted, PartedMore
    <2> QED BY <2>1
  <1>2. CASE Known(store, id) /\ parts[id] = {} /\ refused
    <2>1. PartedMore(store, parts, id) = parts
      BY <1>2 DEF Parted, PartedMore
    <2>2. Parted(store, parts, id, refused) = [parts EXCEPT ![id] = Fields]
      BY <1>2 DEF Parted
    <2>3. id \in 1 .. Len(store2)
      BY <1>2 DEF Known
    <2>4. Twins(store2, tbl, [parts EXCEPT ![id] = Fields])
      BY <2>1, <2>3, TwinsPart
    <2> QED BY <2>2, <2>4
  <1> QED BY <1>1, <1>2

UpdateTwin(store, tbl, parts, id, m, e) ==
    /\ Twins(m.store, e.store,
             Parted(store, parts, id, m.err = "" /\ e.err = "invalid_task"))
    /\ \/ m.err = e.err
       \/ e.err = "invalid_task"
       \/ Known(store, id) /\ parts[id] # {}

LEMMA UpdateTwins ==
  ASSUME NEW store, NEW tbl, NEW parts, Twins(store, tbl, parts), NEW id,
         NEW p, IsParam(p)
  PROVE  UpdateTwin(store, tbl, parts, id, Memory!UpdateById(store, id, p),
                    Ent!UpdateById(tbl, id, p))
  <1>1. PICK t, n, new, kindM, kindE, set, cleared, m, e, refused :
           /\ t = store[id] /\ n = NormalizeParam(p) /\ new = Update(t, p)
           /\ kindM = ErrKindUpdate(t) /\ kindE = ErrKindUpdate(RowTask(tbl[id]))
           /\ set = SetOf(n, DOMAIN n) /\ cleared = ClearedOf(n, DOMAIN n)
           /\ m = Memory!UpdateById(store, id, p)
           /\ e = Ent!UpdateById(tbl, id, p)
           /\ refused = (m.err = "" /\ e.err = "invalid_task")
    OBVIOUS
  <1>2. MemoryOutcome(m, store, id, "scheduled", kindM, new)
    BY <1>1, MemoryUpdates
  <1>3. /\ IsSomeSeq(store) /\ IsSomeSeq(parts) /\ Len(parts) = Len(store)
        /\ DOMAIN tbl \subseteq 1 .. Len(store)
        /\ \A j \in DOMAIN tbl : tbl[j]["id"] = j
        /\ \A j \in 1 .. Len(store) : TwinTask(tbl, store[j], parts[j], j)
    BY DEF Twins
  <1>4. Known(store, id) => TaskOK(t, id) /\ TaskOK(new, id)
    <2>1. Known(store, id) => TaskOK(t, id)
      BY <1>1, TwinsReason
    <2>2. TaskOK(t, id) => TaskOK(new, id)
      BY <1>1, UpdateOK
    <2> QED BY <2>1, <2>2
  <1>5. CASE e.err = "invalid_task" /\ e.store = tbl
    <2>1. CASE Known(store, id) /\ t.state = "scheduled"
      <3>1. m.err = "" /\ m.store = [store EXCEPT ![id] = new]
        BY <1>1, <1>2, <2>1 DEF MemoryOutcome
      <3>2. Parted(store, parts, id, m.err = "" /\ e.err = "invalid_task")
               = [parts EXCEPT ![id] = Fields]
        BY <1>5, <2>1, <3>1 DEF Parted
      <3>3. TwinTask(tbl, new, Fields, id)
        BY <1>4, <2>1 DEF TwinTask
      <3>4. id \in 1 .. Len(store)
        BY <2>1 DEF Known
      <3>5. Twins([store EXCEPT ![id] = new], tbl, [parts EXCEPT ![id] = Fields])
        BY <1>3, <3>3, <3>4, TwinsAfter
      <3> QED BY <1>1, <1>5, <3>1, <3>2, <3>5 DEF UpdateTwin
    <2>2. CASE ~(Known(store, id) /\ t.state = "scheduled")
      <3>1. m.store = store
        BY <1>1, <1>2, <2>2 DEF MemoryOutcome
      <3>2. Twins(store, tbl,
                  Parted(store, parts, id, m.err = "" /\ e.err = "invalid_task"))
        <4>1. CASE Known(store, id) /\ (parts[id] # {}
                      \/ (m.err = "" /\ e.err = "invalid_task"))
          <5>1. id \in 1 .. Len(store)
            BY <4>1 DEF Known
          <5>2. Twins(store, tbl, [parts EXCEPT ![id] = Fields])
            BY <5>1, TwinsPart
          <5> QED BY <4>1, <5>2 DEF Parted
        <4>2. CASE ~(Known(store, id) /\ (parts[id] # {}
                      \/ (m.err = "" /\ e.err = "invalid_task")))
          <5>1. Parted(store, parts, id, m.err = "" /\ e.err = "invalid_task")
                   = parts
            BY <4>2 DEF Parted
          <5> QED BY <5>1
        <4> QED BY <4>1, <4>2
      <3> QED BY <1>1, <1>5, <3>1, <3>2 DEF UpdateTwin
    <2> QED BY <2>1, <2>2
  <1>6. CASE EntOutcome(e, tbl, id, "scheduled", kindE, set, cleared)
    <2>1. "id" \notin DOMAIN set \cup cleared
      <3>1. IsParam(n) /\ DOMAIN n = DOMAIN p
        BY <1>1, NormalizedParam
      <3>2. "id" \notin DOMAIN n
        BY <3>1 DEF IsParam, Updatable
      <3>3. DOMAIN set \subseteq DOMAIN n /\ cleared \subseteq DOMAIN n
        BY <1>1 DEF SetOf, ClearedOf
      <3> QED BY <3>2, <3>3
    <2>2. SameReason(store, parts, id, kindM, kindE)
      BY <1>1, TwinsReason
    <2>3. ASSUME Known(store, id), parts[id] = {}
          PROVE  RowMeans(Written(set, cleared, tbl[id]), new, Fields)
      <3>1. PICK row : row = tbl[id]
        OBVIOUS
      <3>2. TwinTask(tbl, t, {}, id)
        BY <1>1, <1>3, <2>3 DEF Known
      <3>3. RowMeans(row, t, Fields)
        <4>1. Fields # {} /\ Fields \ {} = Fields
          BY FieldNames
        <4> QED BY <3>1, <3>2, <4>1 DEF TwinTask
      <3>4. TaskOK(t, id)
        BY <1>4, <2>3
      <3>5. RowMeans(Written(SetOf(n, DOMAIN n), ClearedOf(n, DOMAIN n), row),
                     Update(t, p), Fields)
        BY <1>1, <3>3, <3>4, UpdatedRow
      <3> QED BY <1>1, <3>1, <3>5
    <2>4. Alike(store, tbl, parts, id, "scheduled", kindM, kindE, new, set, cleared)
      BY <1>4, <2>1, <2>2, <2>3 DEF Alike, SameReason
    <2>5. TwinAnswers(m, e, store, parts, id, PartedMore(store, parts, id))
      BY <1>2, <1>6, <2>4, TwinOutcomes
    <2>6. Len(m.store) = Len(store)
      <3>1. CASE Known(store, id) /\ t.state = "scheduled"
        <4>1. Replaces(m.store, store, id, new) /\ id \in 1 .. Len(store)
          BY <1>1, <1>2, <3>1 DEF MemoryOutcome, Replaces, Known
        <4> QED BY <1>3, <4>1, SeqExcept
      <3>2. CASE ~(Known(store, id) /\ t.state = "scheduled")
        BY <1>1, <1>2, <3>2 DEF MemoryOutcome
      <3> QED BY <3>1, <3>2
    <2>7. PICK store2, tbl2 : store2 = m.store /\ tbl2 = e.store
      OBVIOUS
    <2>8. Twins(store2, tbl2, PartedMore(store, parts, id)) /\ Len(store2) = Len(store)
      BY <2>5, <2>6, <2>7 DEF TwinAnswers
    <2>9. refused \in BOOLEAN
      BY <1>1
    <2>10. Twins(store2, tbl2, Parted(store, parts, id, refused))
      BY <1>3, <2>8, <2>9, TwinsPartMore
    <2> QED BY <1>1, <2>5, <2>7, <2>10 DEF UpdateTwin, TwinAnswers
  <1>7. \/ e.err = "invalid_task" /\ e.store = tbl
        \/ EntOutcome(e, tbl, id, "scheduled", kindE, set, cleared)
    BY <1>1, EntUpdates
  <1> QED BY <1>5, <1>6, <1>7

-----------------------------------------------------------------------------
(* The operations only EntRepository has. *)
(* What an UPDATE or a DELETE of the rows in some states leaves. *)
InState(row, s) == row["state"] # Null /\ row["state"] = s

IsRepaired(tbl2, tbl, s, set) ==
    tbl2 = [id \in DOMAIN tbl |-> IF InState(tbl[id], s)
                                  THEN Written(set, {}, tbl[id]) ELSE tbl[id]]

IsPartedBy(parts2, parts, store, states, fields) ==
    parts2 = [id \in 1 .. Len(store) |->
                 IF parts[id] # {} THEN Fields
                 ELSE IF store[id].state \in states THEN fields ELSE {}]

PartedFacts(parts2, parts, store, states, fields) ==
    /\ IsSomeSeq(parts2) /\ Len(parts2) = Len(store)
    /\ \A id \in 1 .. Len(store) :
          /\ parts2[id] \in SUBSET Fields
          /\ parts[id] # {} => parts2[id] = Fields
          /\ parts[id] = {} => parts2[id] = IF store[id].state \in states
                                            THEN fields ELSE {}

LEMMA PartedByIs ==
  ASSUME NEW store, NEW tbl, NEW parts, Twins(store, tbl, parts),
         NEW states, NEW fields \in SUBSET Fields, NEW parts2,
         IsPartedBy(parts2, parts, store, states, fields)
  PROVE  PartedFacts(parts2, parts, store, states, fields)
  <1>1. Len(store) \in Nat
    BY SeqFacts DEF Twins
  <1>2. PICK n : n = Len(store)
    OBVIOUS
  <1>3. /\ DOMAIN parts2 = 1 .. n
        /\ \A id \in 1 .. n :
              parts2[id] = IF parts[id] # {} THEN Fields
                           ELSE IF store[id].state \in states THEN fields ELSE {}
    BY <1>2 DEF IsPartedBy
  <1>4. \A id \in 1 .. n : parts2[id] \in SUBSET Fields
    BY <1>3
  <1>5. parts2 = [id \in 1 .. n |-> parts2[id]]
    BY <1>2 DEF IsPartedBy
  <1>6. parts2 \in [1 .. n -> SUBSET Fields]
    BY <1>4, <1>5
  <1>7. parts2 \in Seq(SUBSET Fields) /\ Len(parts2) = n
    BY <1>1, <1>2, <1>6
  <1> QED BY <1>2, <1>3, <1>4, <1>7 DEF IsSomeSeq, PartedFacts

LEMMA RepairTwins ==
  ASSUME NEW store, NEW tbl, NEW parts, Twins(store, tbl, parts), NEW s, NEW set,
         DOMAIN set \in SUBSET Fields, "id" \notin DOMAIN set,
         NEW tbl2, IsRepaired(tbl2, tbl, s, set),
         NEW parts2, IsPartedBy(parts2, parts, store, {s}, DOMAIN set)
  PROVE  Twins(store, tbl2, parts2)
  <1>1. /\ IsSomeSeq(store) /\ DOMAIN tbl \subseteq 1 .. Len(store)
        /\ \A id \in DOMAIN tbl : tbl[id]["id"] = id
        /\ \A id \in 1 .. Len(store) : TwinTask(tbl, store[id], parts[id], id)
    BY DEF Twins
  <1>2. /\ DOMAIN tbl2 = DOMAIN tbl
        /\ \A id \in DOMAIN tbl :
              tbl2[id] = IF InState(tbl[id], s) THEN Written(set, {}, tbl[id])
                         ELSE tbl[id]
    BY DEF IsRepaired
  <1>3. PICK fields : fields = DOMAIN set
    OBVIOUS
  <1>4. /\ IsSomeSeq(parts2) /\ Len(parts2) = Len(store)
        /\ \A id \in 1 .. Len(store) :
              /\ parts2[id] \in SUBSET Fields
              /\ parts[id] # {} => parts2[id] = Fields
              /\ parts[id] = {} => parts2[id] = IF store[id].state \in {s}
                                                THEN fields ELSE {}
    <2>1. IsPartedBy(parts2, parts, store, {s}, fields) /\ fields \in SUBSET Fields
      BY <1>3
    <2>2. PICK states : states = {s}
      OBVIOUS
    <2>3. IsPartedBy(parts2, parts, store, states, fields)
      BY <2>1, <2>2
    <2>4. PartedFacts(parts2, parts, store, states, fields)
      BY <2>1, <2>3, PartedByIs
    <2> QED BY <2>2, <2>4 DEF PartedFacts
  <1>5. ASSUME NEW id \in DOMAIN tbl
        PROVE  /\ tbl2[id]["id"] = id
               /\ \A c \in Fields \ fields : tbl2[id][c] = tbl[id][c]
    <2>1. CASE InState(tbl[id], s)
      <3>1. tbl2[id] = Written(set, {}, tbl[id])
        BY <1>2, <2>1
      <3>2. \A c \in Fields \ fields : tbl2[id][c] = tbl[id][c]
        BY <1>3, <3>1 DEF Written
      <3>3. "id" \in Fields \ fields
        BY <1>3, FieldNames
      <3> QED BY <1>1, <3>2, <3>3
    <2>2. CASE ~InState(tbl[id], s)
      BY <1>1, <1>2, <2>2
    <2> QED BY <2>1, <2>2
  <1>6. ASSUME NEW id \in 1 .. Len(store)
        PROVE  TwinTask(tbl2, store[id], parts2[id], id)
    <2>1. PICK t : t = store[id]
      OBVIOUS
    <2>2. TwinTask(tbl, t, parts[id], id)
      BY <1>1, <2>1
    <2>3. TaskOK(t, id)
      BY <2>2 DEF TwinTask
    <2>4. CASE parts[id] # {}
      <3>1. parts2[id] = Fields
        BY <1>4, <2>4
      <3> QED BY <2>1, <2>3, <3>1 DEF TwinTask
    <2>5. CASE parts[id] = {}
      <3>1. id \in DOMAIN tbl /\ RowMeans(tbl[id], t, Fields)
        <4>1. TwinTask(tbl, t, {}, id)
          BY <2>2, <2>5
        <4>2. Fields # {} /\ Fields \ {} = Fields
          BY FieldNames
        <4> QED BY <4>1, <4>2 DEF TwinTask
      <3>2. CASE t.state = s
        <4>1. parts2[id] = fields
          BY <1>4, <2>1, <2>5, <3>2
        <4>2. RowMeans(tbl2[id], t, Fields \ fields)
          BY <1>5, <3>1 DEF RowMeans
        <4>3. fields \in SUBSET Fields
          BY <1>3
        <4> QED BY <1>2, <2>1, <2>3, <3>1, <4>1, <4>2, <4>3 DEF TwinTask
      <3>3. CASE t.state # s
        <4>1. parts2[id] = {}
          BY <1>4, <2>1, <2>5, <3>3
        <4>2. ~InState(tbl[id], s)
          <5>1. tbl[id]["state"] = t["state"]
            BY <3>1, FieldNames DEF RowMeans, Maps, OptionalTimes
          <5> QED BY <3>3, <5>1 DEF InState
        <4>3. tbl2[id] = tbl[id]
          BY <1>2, <3>1, <4>2
        <4> QED BY <1>2, <2>1, <2>3, <3>1, <4>1, <4>3 DEF TwinTask
      <3> QED BY <3>2, <3>3
    <2> QED BY <2>4, <2>5
  <1>7. DOMAIN tbl2 \subseteq 1 .. Len(store)
        /\ \A id \in DOMAIN tbl2 : tbl2[id]["id"] = id
    BY <1>1, <1>2, <1>5
  <1> QED BY <1>1, <1>4, <1>6, <1>7 DEF Twins

(* The UPDATE of many rows. *)
LEMMA ManySaved ==
  ASSUME NEW tbl, NEW calls, NEW set, NEW s,
         BuildsTo("Update", 0, calls,
                  Mutation("Update", 0, set, {}, <<Ent!StateEQ(s)>>)),
         ValidSet(set)
  PROVE  /\ IsRepaired(Ent!UpdateSave(tbl, calls).table, tbl, s, set)
         /\ Ent!UpdateSave(tbl, calls).err = ""
  <1>1. PICK m : m = Ent!Built("Update", 0, calls)
    OBVIOUS
  <1>2. PICK none, where : none = {} /\ where = <<Ent!StateEQ(s)>>
    OBVIOUS
  <1>3. m = Mutation("Update", 0, set, none, where)
    BY <1>1, <1>2 DEF BuildsTo
  <1>4. m.set = set /\ m.where = where
    BY <1>3, MutationFields
  <1>5. Ent!Validated(m)
    BY <1>4, EntOperators DEF Ent!Validated, ValidSet, Ent!StateValidator
  <1>6. \A row : Ent!ExecUpdate(m, row) = Written(set, {}, row)
    <2>1. ASSUME NEW row
          PROVE  Ent!ExecUpdate(m, row) = Written(set, {}, row)
      <3>1. Ent!ExecUpdate(Mutation("Update", 0, set, none, where), row)
               = [c \in Fields |-> IF c \in DOMAIN set THEN set[c]
                                   ELSE IF c \in none THEN Null ELSE row[c]]
        BY Executed
      <3> QED BY <1>2, <1>3, <3>1 DEF Written
    <2> QED BY <2>1
  <1>7. \A row : Ent!SelectsAll(m.where, row) <=> InState(row, s)
    BY <1>2, <1>4, SelectsState DEF InState
  <1>8. PICK saved : saved = Ent!UpdateSave(tbl, calls)
    OBVIOUS
  <1>9. saved = [table |-> [id \in DOMAIN tbl |->
                              IF id \in {j \in DOMAIN tbl : Ent!SelectsAll(m.where, tbl[j])}
                              THEN Ent!ExecUpdate(m, tbl[id]) ELSE tbl[id]],
                 err |-> "",
                 n |-> Ent!Cardinality({j \in DOMAIN tbl : Ent!SelectsAll(m.where, tbl[j])})]
    BY <1>1, <1>5, <1>8 DEF Ent!UpdateSave
  <1>10. saved.err = "" /\
         saved.table = [id \in DOMAIN tbl |->
                          IF id \in {j \in DOMAIN tbl : Ent!SelectsAll(m.where, tbl[j])}
                          THEN Ent!ExecUpdate(m, tbl[id]) ELSE tbl[id]]
    BY <1>9
  <1>11. saved.table = [id \in DOMAIN tbl |->
                          IF InState(tbl[id], s)
                          THEN Written(set, {}, tbl[id]) ELSE tbl[id]]
    BY <1>6, <1>7, <1>10
  <1> QED BY <1>8, <1>10, <1>11 DEF IsRepaired

LEMMA RevertTwins ==
  ASSUME NEW store, NEW tbl, NEW parts, Twins(store, tbl, parts), NEW parts2,
         IsPartedBy(parts2, parts, store, {"dispatched"}, {"state"})
  PROVE  Twins(store, Ent!RevertDispatched(tbl).store, parts2)
  <1>1. PICK s, to, calls, set, saved :
           /\ s = "dispatched" /\ to = "scheduled"
           /\ calls = StateCalls(Ent!StateEQ(s), to)
           /\ set = StateSet(to)
           /\ saved = Ent!UpdateSave(tbl, calls)
    OBVIOUS
  <1>2. BuildsTo("Update", 0, calls,
                 Mutation("Update", 0, set, {}, <<Ent!StateEQ(s)>>))
    BY <1>1, StateMutations
  <1>3. DOMAIN set = {"state"} /\ set["state"] = to
    BY <1>1 DEF StateSet, NothingSet, Ent!With
  <1>4. ValidSet(set)
    BY <1>1, <1>3 DEF ValidSet, States
  <1>5. IsRepaired(saved.table, tbl, s, set)
    BY <1>1, <1>2, <1>4, ManySaved
  <1>6. DOMAIN set \in SUBSET Fields /\ "id" \notin DOMAIN set
    BY <1>3, FieldNames
  <1>7. IsPartedBy(parts2, parts, store, {s}, DOMAIN set)
    BY <1>1, <1>3
  <1>8. PICK tbl2 : tbl2 = saved.table
    OBVIOUS
  <1>9. Twins(store, tbl2, parts2)
    BY <1>5, <1>6, <1>7, <1>8, RepairTwins
  <1>10. Ent!RevertDispatched(tbl) = [store |-> saved.table, err |-> saved.err]
    BY <1>1 DEF Ent!RevertDispatched, Ent!Answer, StateCalls
  <1> QED BY <1>8, <1>9, <1>10

LEMMA CancelDispatchedTwins ==
  ASSUME NEW store, NEW tbl, NEW parts, Twins(store, tbl, parts), NEW parts2,
         IsPartedBy(parts2, parts, store, {"dispatched"}, {"state", "cancelled_at"}),
         NEW now
  PROVE  Twins(store, Ent!CancelDispatched(tbl, now).store, parts2)
  <1>1. PICK s, to, v, calls, set, saved :
           /\ s = "dispatched" /\ to = "cancelled" /\ v = NormalizeTime(now)
           /\ calls = StampCalls(Ent!StateEQ(s), to, "cancelled_at", v)
           /\ set = StampSet(to, "cancelled_at", v)
           /\ saved = Ent!UpdateSave(tbl, calls)
    OBVIOUS
  <1>2. BuildsTo("Update", 0, calls,
                 Mutation("Update", 0, set, {}, <<Ent!StateEQ(s)>>))
    BY <1>1, StateMutations
  <1>3. DOMAIN set = {"state", "cancelled_at"} /\ set["state"] = to
    BY <1>1 DEF StampSet, StateSet, NothingSet, Ent!With
  <1>4. ValidSet(set)
    BY <1>1, <1>3 DEF ValidSet, States
  <1>5. IsRepaired(saved.table, tbl, s, set)
    BY <1>1, <1>2, <1>4, ManySaved
  <1>6. DOMAIN set \in SUBSET Fields /\ "id" \notin DOMAIN set
    BY <1>3, FieldNames
  <1>7. IsPartedBy(parts2, parts, store, {s}, DOMAIN set)
    BY <1>1, <1>3
  <1>8. PICK tbl2 : tbl2 = saved.table
    OBVIOUS
  <1>9. Twins(store, tbl2, parts2)
    BY <1>5, <1>6, <1>7, <1>8, RepairTwins
  <1>10. Ent!CancelDispatched(tbl, now) = [store |-> saved.table, err |-> saved.err]
    BY <1>1, EntOperators DEF Ent!CancelDispatched, Ent!Answer, StampCalls
  <1> QED BY <1>8, <1>9, <1>10

(* The DELETE. *)
LEMMA DeleteTwins ==
  ASSUME NEW store, NEW tbl, NEW parts, Twins(store, tbl, parts), NEW parts2,
         IsPartedBy(parts2, parts, store, {"cancelled", "done", "err"}, Fields)
  PROVE  Twins(store, Ent!DeleteEnded(tbl).store, parts2)
  <1>1. PICK ended, calls, c, m, none, where :
           /\ ended = {"cancelled", "done", "err"}
           /\ c = Ent!Where(Ent!StateIn(ended)) /\ calls = <<c>>
           /\ m = Ent!Built("Delete", 0, calls)
           /\ none = {} /\ where = <<Ent!StateIn(ended)>>
    OBVIOUS
  <1>2. m = Mutation("Delete", 0, NothingSet, none, where)
    <2>1. PICK p : p = Ent!StateIn(ended)
      OBVIOUS
    <2>2. PICK empty, nothing : empty = <<>> /\ nothing = NothingSet
      OBVIOUS
    <2>3. Extends(calls, <<>>, c)
      BY <1>1, Tuples
    <2>4. m = Ent!BuilderMethod(Ent!Built("Delete", 0, <<>>), c)
      BY <1>1, <2>3, BuiltMore
    <2>5. Ent!Built("Delete", 0, <<>>) = Mutation("Delete", 0, nothing, none, empty)
      BY <1>1, <2>2, BuiltNone, NewIsMutation
    <2>6. Ent!BuilderMethod(Mutation("Delete", 0, nothing, none, empty), Ent!Where(p))
             = Mutation("Delete", 0, nothing, none, Append(empty, p))
      BY MethodWhere
    <2>7. Append(empty, p) = where
      BY <1>1, <2>1, <2>2
    <2> QED BY <1>1, <2>1, <2>2, <2>4, <2>5, <2>6, <2>7
  <1>3. m.where = where
    BY <1>2, MutationFields
  <1>4. \A row : Ent!SelectsAll(m.where, row)
                    <=> row["state"] # Null /\ row["state"] \in ended
    BY <1>1, <1>3, SelectsState
  <1>5. PICK hit, tbl2 : /\ hit = {id \in DOMAIN tbl : Ent!SelectsAll(m.where, tbl[id])}
                         /\ tbl2 = [id \in DOMAIN tbl \ hit |-> tbl[id]]
    OBVIOUS
  <1>6. Ent!DeleteEnded(tbl) = [store |-> tbl2, err |-> ""]
    <2>1. PICK exec : exec = Ent!DeleteExec(tbl, calls)
      OBVIOUS
    <2>2. exec = [table |-> tbl2, err |-> "", n |-> Ent!Cardinality(hit)]
      BY <1>1, <1>5, <2>1 DEF Ent!DeleteExec
    <2>3. exec.table = tbl2 /\ exec.err = ""
      BY <2>2
    <2>4. calls = <<Ent!Where(Ent!StateIn({"cancelled", "done", "err"}))>>
      BY <1>1
    <2>5. Ent!DeleteEnded(tbl) = [store |-> exec.table, err |-> exec.err]
      BY <2>1, <2>4 DEF Ent!DeleteEnded, Ent!Answer
    <2> QED BY <2>3, <2>5
  <1>7. /\ IsSomeSeq(store) /\ DOMAIN tbl \subseteq 1 .. Len(store)
        /\ \A id \in DOMAIN tbl : tbl[id]["id"] = id
        /\ \A id \in 1 .. Len(store) : TwinTask(tbl, store[id], parts[id], id)
    BY DEF Twins
  <1>8. /\ DOMAIN tbl2 \subseteq DOMAIN tbl
        /\ \A id \in DOMAIN tbl2 : tbl2[id] = tbl[id]
        /\ \A id \in DOMAIN tbl : tbl[id]["state"] \notin ended => id \in DOMAIN tbl2
    BY <1>4, <1>5
  <1>9. /\ IsSomeSeq(parts2) /\ Len(parts2) = Len(store)
        /\ \A id \in 1 .. Len(store) :
              /\ parts2[id] \in SUBSET Fields
              /\ parts[id] # {} => parts2[id] = Fields
              /\ parts[id] = {} => parts2[id] = IF store[id].state \in ended
                                                THEN Fields ELSE {}
    <2>1. IsPartedBy(parts2, parts, store, ended, Fields)
      BY <1>1
    <2>2. Fields \in SUBSET Fields
      OBVIOUS
    <2>3. PartedFacts(parts2, parts, store, ended, Fields)
      BY <2>1, <2>2, PartedByIs
    <2> QED BY <2>3 DEF PartedFacts
  <1>10. ASSUME NEW id \in 1 .. Len(store)
         PROVE  TwinTask(tbl2, store[id], parts2[id], id)
    <2>1. PICK t : t = store[id]
      OBVIOUS
    <2>2. TwinTask(tbl, t, parts[id], id)
      BY <1>7, <2>1
    <2>3. TaskOK(t, id)
      BY <2>2 DEF TwinTask
    <2>4. CASE parts2[id] = Fields
      BY <2>1, <2>3, <2>4 DEF TwinTask
    <2>5. CASE parts2[id] # Fields
      <3>1. parts[id] = {} /\ parts2[id] = {} /\ t.state \notin ended
        BY <1>9, <2>1, <2>5
      <3>2. id \in DOMAIN tbl /\ RowMeans(tbl[id], t, Fields)
        <4>1. TwinTask(tbl, t, {}, id)
          BY <2>2, <3>1
        <4>2. Fields # {} /\ Fields \ {} = Fields
          BY FieldNames
        <4> QED BY <4>1, <4>2 DEF TwinTask
      <3>3. tbl[id]["state"] = t["state"]
        BY <3>2, FieldNames DEF RowMeans, Maps, OptionalTimes
      <3>4. id \in DOMAIN tbl2 /\ tbl2[id] = tbl[id]
        BY <1>8, <3>1, <3>2, <3>3
      <3> QED BY <2>1, <2>3, <3>1, <3>2, <3>4 DEF TwinTask
    <2> QED BY <2>4, <2>5
  <1>11. DOMAIN tbl2 \subseteq 1 .. Len(store)
         /\ \A id \in DOMAIN tbl2 : tbl2[id]["id"] = id
    BY <1>7, <1>8
  <1>12. Twins(store, tbl2, parts2)
    BY <1>7, <1>9, <1>10, <1>11 DEF Twins
  <1>13. PICK e : e = Ent!DeleteEnded(tbl)
    OBVIOUS
  <1>14. e = [store |-> tbl2, err |-> ""]
    BY <1>6, <1>13
  <1>15. e.store = tbl2
    BY <1>14
  <1> QED BY <1>12, <1>13, <1>15

-----------------------------------------------------------------------------
(* The mutators. *)
LEMMA JoinTwo ==
  ASSUME NEW a, NEW b
  PROVE  <<a>> \o <<b>> = <<a, b>>
  <1>1. PICK T, s, t, u : T = {a, b} /\ s = <<a>> /\ t = <<b>> /\ u = <<a, b>>
    OBVIOUS
  <1>2. s \in Seq(T) /\ t \in Seq(T) /\ u \in Seq(T)
    BY <1>1
  <1>3. /\ Len(s) = 1 /\ s[1] = a /\ Len(t) = 1 /\ t[1] = b
        /\ Len(u) = 2 /\ u[1] = a /\ u[2] = b
    BY <1>1
  <1>4. PICK v : Joins(v, s, t)
    BY DEF Joins
  <1>5. /\ v \in Seq(T) /\ Len(v) = Len(s) + Len(t)
        /\ \A i \in 1 .. Len(s) : v[i] = s[i]
        /\ \A i \in 1 .. Len(t) : v[Len(s) + i] = t[i]
    BY <1>2, <1>4, JoinFacts
  <1>6. v[1] = s[1] /\ v[1 + 1] = t[1]
    BY <1>3, <1>5
  <1>7. \A k \in 1 .. 2 : v[k] = u[k]
    BY <1>3, <1>6
  <1>8. v = u
    BY <1>2, <1>3, <1>5, <1>7, SeqEqual
  <1> QED BY <1>1, <1>4, <1>8 DEF Joins

(* Mutators.  After none, one and two of them. *)
Applied(g, ms, now, p, n) ==
    g = [k \in 0 .. n |->
            IF k = 0 THEN {p}
            ELSE UNION {Mutate(ms[k], now, q) : q \in g[k - 1]}]

Second(m, now, params) == UNION {Mutate(m, now, q) : q \in params}

LEMMA ApplyIs ==
  ASSUME NEW ms, NEW now, NEW p, Len(ms) \in 0 .. 2
  PROVE  /\ Len(ms) = 0 => Apply(ms, now, p) = {p}
         /\ Len(ms) = 1 => Apply(ms, now, p) = Mutate(ms[1], now, p)
         /\ Len(ms) = 2 => Apply(ms, now, p)
                              = Second(ms[2], now, Mutate(ms[1], now, p))
  <1>1. PICK n \in 0 .. 2 : n = Len(ms)
    OBVIOUS
  <1>2. PICK one, two : /\ one = Mutate(ms[1], now, p)
                        /\ two = UNION {Mutate(ms[2], now, q) : q \in one}
    OBVIOUS
  <1>2a. two = Second(ms[2], now, Mutate(ms[1], now, p))
    BY <1>2 DEF Second
  <1>3. UNION {Mutate(ms[1], now, q) : q \in {p}} = one
    BY <1>2
  <1> DEFINE h == [k \in 0 .. n |-> IF k = 0 THEN {p} ELSE IF k = 1 THEN one ELSE two]
             g == CHOOSE x : Applied(x, ms, now, p, n)
  <1>4. Applied(h, ms, now, p, n)
    <2>1. ASSUME NEW k \in 0 .. n
          PROVE  h[k] = IF k = 0 THEN {p}
                        ELSE UNION {Mutate(ms[k], now, q) : q \in h[k - 1]}
      <3>1. k \in {0, 1, 2}
        OBVIOUS
      <3>2. CASE k = 0
        BY <3>2
      <3>3. CASE k = 1
        <4>1. h[0] = {p} /\ h[1] = one
          BY <3>3
        <4> HIDE DEF h
        <4> QED BY <1>3, <3>3, <4>1
      <3>4. CASE k = 2
        <4>1. h[1] = one /\ h[2] = two
          BY <3>4
        <4> HIDE DEF h
        <4> QED BY <1>2, <3>4, <4>1
      <3> QED BY <3>1, <3>2, <3>3, <3>4
    <2>2. h = [k \in 0 .. n |-> h[k]]
      OBVIOUS
    <2> HIDE DEF h
    <2> QED BY <2>1, <2>2 DEF Applied
  <1>5. Applied(g, ms, now, p, n)
    BY <1>4
  <1>6. Apply(ms, now, p) = g[n]
    BY <1>1 DEF Apply, Applied
  <1> HIDE DEF g, h
  <1>7. g[0] = {p}
    BY <1>5 DEF Applied
  <1>8. n >= 1 => g[1] = one
    <2>1. ASSUME n >= 1
          PROVE  g[1] = UNION {Mutate(ms[1], now, q) : q \in g[0]}
      <3>1. 1 \in 0 .. n /\ 1 # 0 /\ 1 - 1 = 0
        BY <2>1
      <3> QED BY <1>5, <3>1 DEF Applied
    <2> QED BY <1>3, <1>7, <2>1
  <1>9. n = 2 => g[2] = two
    <2>1. ASSUME n = 2
          PROVE  g[2] = UNION {Mutate(ms[2], now, q) : q \in g[1]}
      <3>1. 2 \in 0 .. n /\ 2 # 0 /\ 2 - 1 = 1
        BY <2>1
      <3> QED BY <1>5, <3>1 DEF Applied
    <2> QED BY <1>2, <1>8, <2>1
  <1>10. PICK applied : applied = Apply(ms, now, p)
    OBVIOUS
  <1>11. /\ n = 0 => applied = {p}
         /\ n = 1 => applied = one
         /\ n = 2 => applied = two
    BY <1>6, <1>7, <1>8, <1>9, <1>10
  <1> QED BY <1>1, <1>2, <1>2a, <1>10, <1>11

(* What the labels of a task are decoded to. *)
IsDuration(d) == d \in -HalfRange .. HalfRange - 1

LEMMA Decoded ==
  ASSUME NEW meta, NEW random, random = DecodeRandomizeScheduledAt(meta)
  PROVE  \/ random = None
         \/ random = <<>>
         \/ /\ random = <<random[1]>>
            /\ random[1].name = "RandomizeScheduledAt"
            /\ IsDuration(random[1].min) /\ IsDuration(random[1].max)
  <1>1. PICK max : max = IF LabelRandomizeScheduledAtMax \in DOMAIN meta
                         THEN parseDur(meta[LabelRandomizeScheduledAtMax]) ELSE 0
    OBVIOUS
  <1>2. PICK min : min = IF LabelRandomizeScheduledAtMin \in DOMAIN meta
                         THEN parseDur(meta[LabelRandomizeScheduledAtMin]) ELSE 0
    OBVIOUS
  <1>3. random = IF {LabelRandomizeScheduledAtMax, LabelRandomizeScheduledAtMin}
                    \cap DOMAIN meta = {} THEN <<>>
                 ELSE IF max = None \/ min = None THEN None
                 ELSE <<[name |-> "RandomizeScheduledAt", min |-> min, max |-> max]>>
    BY <1>1, <1>2 DEF DecodeRandomizeScheduledAt
  <1>4. IsDuration(0)
    BY DurationsAssumption DEF IsDuration
  <1>5. \A s : parseDur(s) = None \/ IsDuration(parseDur(s))
    BY <1>4, DurationsAssumption DEF parseDur, IsDuration
  <1>6. (max = None \/ IsDuration(max)) /\ (min = None \/ IsDuration(min))
    BY <1>1, <1>2, <1>4, <1>5
  <1>7. CASE random # None /\ random # <<>>
    <2>1. PICK r : r = [name |-> "RandomizeScheduledAt", min |-> min, max |-> max]
      OBVIOUS
    <2>2. random = <<r>> /\ max # None /\ min # None
      BY <1>3, <1>7, <2>1
    <2>3. r.name = "RandomizeScheduledAt" /\ r.min = min /\ r.max = max
      BY <2>1
    <2>4. random[1] = r
      BY <2>2
    <2> QED BY <1>6, <2>2, <2>3, <2>4
  <1> QED BY <1>7

(* What the tasks a labelled parameter leads to are made of. *)
BaseParam(p, now) ==
    IF LabelScheduleAtNow \in DOMAIN MetaOf(p) THEN ScheduleAtNow(now, p) ELSE p

LEMMA ApplyCases ==
  ASSUME NEW p, NEW now, Load(MetaOf(p)) # None,
         NEW random, random = DecodeRandomizeScheduledAt(MetaOf(p))
  PROVE  \/ /\ random = <<>>
            /\ Apply(Load(MetaOf(p)), now, p) = {BaseParam(p, now)}
         \/ /\ random # <<>>
            /\ IsDuration(random[1].min) /\ IsDuration(random[1].max)
            /\ Apply(Load(MetaOf(p)), now, p)
                  = RandomizeScheduledAt(random[1], BaseParam(p, now))
  <1>1. PICK meta, ms, base, at, labelled :
           /\ meta = MetaOf(p) /\ ms = Load(MetaOf(p))
           /\ base = BaseParam(p, now) /\ at = [name |-> "ScheduleAtNow"]
           /\ labelled = (LabelScheduleAtNow \in DOMAIN meta)
    OBVIOUS
  <1>2. ms # None /\ random = DecodeRandomizeScheduledAt(meta)
    BY <1>1
  <1>3. random # None
        /\ ms = (IF labelled THEN <<at>> ELSE <<>>) \o random
    BY <1>1, <1>2 DEF Load, DecodeScheduleAtNow
  <1>4. at.name = "ScheduleAtNow"
    BY <1>1
  <1>5. Mutate(at, now, p) = {ScheduleAtNow(now, p)}
    BY <1>4 DEF Mutate
  <1>6. \/ random = <<>>
        \/ /\ random = <<random[1]>>
           /\ random[1].name = "RandomizeScheduledAt"
           /\ IsDuration(random[1].min) /\ IsDuration(random[1].max)
    BY <1>2, <1>3, Decoded
  <1>7. base = IF labelled THEN ScheduleAtNow(now, p) ELSE p
    BY <1>1 DEF BaseParam
  <1>8. CASE random = <<>>
    <2>1. CASE labelled
      <3>1. ms = <<at>>
        BY <1>3, <1>8, <2>1
      <3>2. Len(ms) = 1 /\ ms[1] = at
        BY <3>1
      <3>3. Apply(ms, now, p) = Mutate(ms[1], now, p)
        BY <3>2, ApplyIs
      <3> QED BY <1>1, <1>5, <1>7, <1>8, <2>1, <3>2, <3>3
    <2>2. CASE ~labelled
      <3>1. ms = <<>>
        BY <1>3, <1>8, <2>2
      <3>2. Len(ms) = 0
        BY <3>1
      <3>3. Apply(ms, now, p) = {p}
        BY <3>2, ApplyIs
      <3> QED BY <1>1, <1>7, <1>8, <2>2, <3>3
    <2> QED BY <2>1, <2>2
  <1>9. CASE random # <<>>
    <2>1. PICK r : r = random[1]
      OBVIOUS
    <2>2. random = <<r>> /\ r.name = "RandomizeScheduledAt"
          /\ IsDuration(r.min) /\ IsDuration(r.max)
      BY <1>6, <1>9, <2>1
    <2>3. \A q : Mutate(r, now, q) = RandomizeScheduledAt(r, q)
      BY <2>2 DEF Mutate
    <2>4. Apply(ms, now, p) = RandomizeScheduledAt(r, base)
      <3>1. CASE labelled
        <4>1. ms = <<at, r>>
          <5>1. ms = <<at>> \o <<r>>
            BY <1>3, <2>2, <3>1
          <5>2. <<at>> \o <<r>> = <<at, r>>
            BY JoinTwo
          <5> QED BY <5>1, <5>2
        <4>2. Len(ms) = 2 /\ ms[1] = at /\ ms[2] = r
          BY <4>1
        <4>3. Apply(ms, now, p)
                 = Second(ms[2], now, Mutate(ms[1], now, p))
          BY <4>2, ApplyIs
        <4>4. {Mutate(ms[2], now, q) : q \in Mutate(ms[1], now, p)}
                 = {RandomizeScheduledAt(r, base)}
          BY <1>5, <1>7, <2>3, <3>1, <4>2
        <4> QED BY <4>3, <4>4 DEF Second
      <3>2. CASE ~labelled
        <4>1. ms = <<r>>
          BY <1>3, <2>2, <3>2
        <4>2. Len(ms) = 1 /\ ms[1] = r
          BY <4>1
        <4>3. Apply(ms, now, p) = Mutate(ms[1], now, p)
          BY <4>2, ApplyIs
        <4> QED BY <1>7, <2>3, <3>2, <4>2, <4>3
      <3> QED BY <3>1, <3>2
    <2> QED BY <1>1, <1>9, <2>1, <2>2, <2>4
  <1> QED BY <1>8, <1>9

LEMMA Shifted ==
  ASSUME NEW p, IsParam(p), NEW at \in Int
  PROVE  /\ IsParam(UpdateParam(p, [scheduled_at |-> at]))
         /\ "scheduled_at" \in DOMAIN UpdateParam(p, [scheduled_at |-> at])
         /\ UpdateParam(p, [scheduled_at |-> at])["scheduled_at"] = at
  <1>1. PICK u : u = [scheduled_at |-> at]
    OBVIOUS
  <1>2. DOMAIN u = {"scheduled_at"} /\ u["scheduled_at"] = at
    BY <1>1
  <1>3. PICK q : q = UpdateParam(p, u)
    OBVIOUS
  <1>4. /\ DOMAIN q = DOMAIN p \cup {"scheduled_at"}
        /\ q["scheduled_at"] = at
        /\ \A f \in DOMAIN p : f # "scheduled_at" => q[f] = p[f]
    BY <1>2, <1>3 DEF UpdateParam
  <1>5. IsParam(q)
    BY <1>4 DEF IsParam, Updatable, Maps
  <1> QED BY <1>1, <1>3, <1>4, <1>5

LEMMA WrapInt ==
  ASSUME NEW d \in Int
  PROVE  Wrap(d) \in Int
  <1>1. PICK h : h = HalfRange
    OBVIOUS
  <1>2. h \in Nat /\ h > 0
    BY <1>1, DurationsAssumption
  <1>3. ((d + h) % (2 * h)) - h \in Int
    BY <1>2
  <1> QED BY <1>1, <1>3 DEF Wrap

(* Every parameter a mutated one leads to is one. *)
LEMMA BaseIsParam ==
  ASSUME NEW p, IsParam(p), NEW now \in Int
  PROVE  /\ IsParam(BaseParam(p, now))
         /\ LabelScheduleAtNow \in DOMAIN MetaOf(p) =>
               /\ "scheduled_at" \in DOMAIN BaseParam(p, now)
               /\ BaseParam(p, now)["scheduled_at"] = NormalizeTime(now)
  <1>1. PICK u : u = UpdateParam(p, [scheduled_at |-> now])
    OBVIOUS
  <1>2. IsParam(u) /\ "scheduled_at" \in DOMAIN u /\ u["scheduled_at"] = now
    BY <1>1, Shifted
  <1>3. ScheduleAtNow(now, p) = NormalizeParam(u)
    BY <1>1 DEF ScheduleAtNow
  <1>4. /\ IsParam(NormalizeParam(u))
        /\ DOMAIN NormalizeParam(u) = DOMAIN u
        /\ NormalizeParam(u)["scheduled_at"] = NormalizeOption(now)
    BY <1>2, NormalizedParam DEF Times
  <1>5. NormalizeOption(now) = NormalizeTime(now)
    BY Truncated
  <1> QED BY <1>2, <1>3, <1>4, <1>5 DEF BaseParam

LEMMA ApplyParams ==
  ASSUME NEW p, IsParam(p), NEW now \in Int, Load(MetaOf(p)) # None,
         NEW q \in Apply(Load(MetaOf(p)), now, p)
  PROVE  IsParam(q)
  <1>1. PICK random : random = DecodeRandomizeScheduledAt(MetaOf(p))
    OBVIOUS
  <1>2. PICK base : base = BaseParam(p, now)
    OBVIOUS
  <1>3. IsParam(base)
    BY <1>2, BaseIsParam
  <1>4. CASE Apply(Load(MetaOf(p)), now, p) = {base}
    BY <1>3, <1>4
  <1>5. CASE /\ IsDuration(random[1].min) /\ IsDuration(random[1].max)
             /\ Apply(Load(MetaOf(p)), now, p) = RandomizeScheduledAt(random[1], base)
    <2>1. PICK r : r = random[1]
      OBVIOUS
    <2>2. PICK at : at = IF "scheduled_at" \in DOMAIN base THEN base.scheduled_at
                         ELSE ZeroTime
      OBVIOUS
    <2>3. at \in Int
      BY <1>3, <2>2 DEF IsParam, ZeroTime
    <2>4. PICK shift \in Shifts(r) : q = UpdateParam(base, [scheduled_at |-> at + shift])
      BY <1>5, <2>1, <2>2 DEF RandomizeScheduledAt
    <2>5. shift \in Int
      <3>1. r.min \in Int /\ r.max \in Int
        BY <1>5, <2>1, DurationsAssumption DEF IsDuration
      <3>2. PICK diff, size : /\ diff = Wrap(r.max - r.min)
                              /\ size = IF diff < 0 THEN Wrap(-diff) ELSE diff
        OBVIOUS
      <3>3. diff \in Int
        BY <3>1, <3>2, WrapInt
      <3>4. size \in Int
        BY <3>2, <3>3, WrapInt
      <3>5. PICK v \in 0 .. size - 1 :
               shift = Wrap(r.min + (IF diff < 0 THEN -v ELSE v))
        BY <3>2 DEF Shifts
      <3>6. r.min + (IF diff < 0 THEN -v ELSE v) \in Int
        BY <3>1, <3>3, <3>4
      <3> QED BY <3>5, <3>6, WrapInt
    <2>6. PICK moved \in Int : moved = at + shift
      BY <2>3, <2>5
    <2>7. IsParam(UpdateParam(base, [scheduled_at |-> moved]))
      BY <1>3, Shifted
    <2> QED BY <2>4, <2>6, <2>7
  <1> QED BY <1>1, <1>2, <1>4, <1>5, ApplyCases

-----------------------------------------------------------------------------
(* GetNext.  Among the tasks in a state one comes before every other. *)
Timed(store) ==
    /\ IsSomeSeq(store)
    /\ \A k \in 1 .. Len(store) :
          /\ store[k].id = k
          /\ store[k].scheduled_at \in Int /\ store[k].created_at \in Int
          /\ store[k].priority \in Int

LEMMA TwinsTimed ==
  ASSUME NEW store, NEW tbl, NEW parts, Twins(store, tbl, parts)
  PROVE  Timed(store)
  <1>1. IsSomeSeq(store) /\ \A k \in 1 .. Len(store) : TaskOK(store[k], k)
    BY DEF Twins, TwinTask
  <1>2. {"scheduled_at", "created_at"} \subseteq Times \ OptionalTimes
    BY DEF Times, OptionalTimes
  <1> QED BY <1>1, <1>2 DEF Timed, TaskOK

LEMMA LessIsTotal ==
  ASSUME NEW store, Timed(store)
  PROVE  /\ \A j, k \in 1 .. Len(store) :
               j # k => Memory!Less(store, j, k) \/ Memory!Less(store, k, j)
         /\ \A i, j, k \in 1 .. Len(store) :
               Memory!Less(store, i, j) /\ Memory!Less(store, j, k) =>
                  Memory!Less(store, i, k)
  <1>1. Len(store) \in Nat
    BY SeqFacts DEF Timed
  <1>2. ASSUME NEW j \in 1 .. Len(store), NEW k \in 1 .. Len(store), j # k
        PROVE  Memory!Less(store, j, k) \/ Memory!Less(store, k, j)
    BY <1>1, <1>2 DEF Memory!Less, Timed
  <1>3. ASSUME NEW i \in 1 .. Len(store), NEW j \in 1 .. Len(store),
               NEW k \in 1 .. Len(store),
               Memory!Less(store, i, j), Memory!Less(store, j, k)
        PROVE  Memory!Less(store, i, k)
    <2>1. PICK a, b, c \in Int : /\ a = store[i].scheduled_at
                                 /\ b = store[j].scheduled_at
                                 /\ c = store[k].scheduled_at
      BY <1>1 DEF Timed
    <2>2. PICK p, q, r \in Int : /\ p = store[i].priority /\ q = store[j].priority
                                 /\ r = store[k].priority
      BY <1>1 DEF Timed
    <2>3. PICK x, y, z \in Int : /\ x = store[i].created_at
                                 /\ y = store[j].created_at
                                 /\ z = store[k].created_at
      BY <1>1 DEF Timed
    <2>4. i \in Int /\ j \in Int /\ k \in Int
      BY <1>1
    <2>5. a < b \/ (a = b /\ (p > q \/ (p = q /\ (x < y \/ (x = y /\ i < j)))))
      BY <1>3, <2>1, <2>2, <2>3 DEF Memory!Less
    <2>6. b < c \/ (b = c /\ (q > r \/ (q = r /\ (y < z \/ (y = z /\ j < k)))))
      BY <1>3, <2>1, <2>2, <2>3 DEF Memory!Less
    <2>7. a < c \/ (a = c /\ (p > r \/ (p = r /\ (x < z \/ (x = z /\ i < k)))))
      <3>1. CASE a < b \/ b < c
        <4>1. a <= b /\ b <= c
          BY <2>5, <2>6
        <4> QED BY <3>1, <4>1
      <3>2. CASE a = b /\ b = c /\ (p > q \/ q > r)
        <4>1. p >= q /\ q >= r
          BY <2>5, <2>6, <3>2
        <4> QED BY <3>2, <4>1
      <3>3. CASE a = b /\ b = c /\ p = q /\ q = r
        BY <2>4, <2>5, <2>6, <3>3
      <3> QED BY <2>5, <2>6, <3>1, <3>2, <3>3
    <2> QED BY <2>1, <2>2, <2>3, <2>7 DEF Memory!Less
  <1> QED BY <1>2, <1>3

IsFirstOf(store, S, k) == k \in S /\ \A j \in S \ {k} : Memory!Less(store, k, j)

LEMMA FirstExists ==
  ASSUME NEW store, Timed(store), NEW S \in SUBSET (1 .. Len(store)), S # {}
  PROVE  \E k : IsFirstOf(store, S, k)
  <1>1. Len(store) \in Nat
    BY SeqFacts DEF Timed
  <1> DEFINE Upto(n) == S \cap 1 .. n
             P == {n \in Nat : Upto(n) = {} \/ \E k : IsFirstOf(store, Upto(n), k)}
  <1>2. 0 \in P
    OBVIOUS
  <1>3. ASSUME NEW n \in Nat, n \in P
        PROVE  n + 1 \in P
    <2>0. PICK m \in Nat : m = n + 1
      OBVIOUS
    <2>1. PICK old, new : old = S \cap 1 .. n /\ new = S \cap 1 .. m
      OBVIOUS
    <2>2. /\ old \subseteq 1 .. Len(store) /\ new \subseteq 1 .. Len(store)
          /\ m \in S => new = old \cup {m} /\ m \in 1 .. Len(store) /\ m \notin old
          /\ m \notin S => new = old
      BY <2>0, <2>1
    <2>3. old = {} \/ \E k : IsFirstOf(store, old, k)
      BY <1>3, <2>1
    <2> SUFFICES new = {} \/ \E k : IsFirstOf(store, new, k)
      BY <2>0, <2>1
    <2> HIDE DEF P, Upto
    <2>4. CASE m \notin S
      BY <2>2, <2>3, <2>4
    <2>5. CASE m \in S /\ old = {}
      <3>1. IsFirstOf(store, new, m)
        BY <2>2, <2>5 DEF IsFirstOf
      <3> QED BY <3>1
    <2>6. CASE m \in S /\ old # {}
      <3>1. PICK k : IsFirstOf(store, old, k)
        BY <2>3, <2>6
      <3>2. k \in 1 .. Len(store) /\ m \in 1 .. Len(store) /\ k # m
        BY <2>2, <2>6, <3>1 DEF IsFirstOf
      <3>3. CASE Memory!Less(store, k, m)
        <4>1. IsFirstOf(store, new, k)
          BY <2>2, <2>6, <3>1, <3>3 DEF IsFirstOf
        <4> QED BY <4>1
      <3>4. CASE Memory!Less(store, m, k)
        <4>1. ASSUME NEW j \in old
              PROVE  Memory!Less(store, m, j)
          <5>1. CASE j = k
            BY <3>4, <5>1
          <5>2. CASE j # k
            <6>1. Memory!Less(store, k, j)
              BY <3>1, <4>1, <5>2 DEF IsFirstOf
            <6>2. j \in 1 .. Len(store)
              BY <2>2, <4>1
            <6> QED BY <3>2, <3>4, <6>1, <6>2, LessIsTotal
          <5> QED BY <5>1, <5>2
        <4>2. IsFirstOf(store, new, m)
          BY <2>2, <2>6, <4>1 DEF IsFirstOf
        <4> QED BY <4>2
      <3> QED BY <3>2, <3>3, <3>4, LessIsTotal
    <2> QED BY <2>4, <2>5, <2>6
  <1>4. Upto(Len(store)) = S
    OBVIOUS
  <1> HIDE DEF P, Upto
  <1>5. Len(store) \in P
    BY <1>1, <1>2, <1>3, SetInduction
  <1> USE DEF P
  <1> QED BY <1>4, <1>5

Waiting(store) == {k \in DOMAIN store : store[k].state = "scheduled"}

LEMMA MemoryNext ==
  ASSUME NEW store, Timed(store)
  PROVE  /\ Waiting(store) = {} => Memory!GetNext(store) = 0
         /\ Waiting(store) # {} =>
               /\ IsFirstOf(store, Waiting(store), Memory!GetNext(store))
               /\ Memory!GetNext(store) # 0
  <1>1. PICK S : S = Waiting(store)
    OBVIOUS
  <1>2. DOMAIN store = 1 .. Len(store) /\ Len(store) \in Nat
    BY SeqFacts DEF Timed
  <1>3. S \in SUBSET (1 .. Len(store))
    BY <1>1, <1>2 DEF Waiting
  <1>4. CASE S = {}
    BY <1>1, <1>4 DEF Memory!GetNext, Waiting
  <1>5. CASE S # {}
    <2>1. PICK k : k = CHOOSE x \in S : \A j \in S \ {x} : Memory!Less(store, x, j)
      OBVIOUS
    <2>2. \E x \in S : \A j \in S \ {x} : Memory!Less(store, x, j)
      BY <1>3, <1>5, FirstExists DEF IsFirstOf
    <2>3. k \in S /\ \A j \in S \ {k} : Memory!Less(store, k, j)
      BY <2>1, <2>2
    <2>4. Memory!GetNext(store) = store[k].id
      BY <1>1, <1>5, <2>1 DEF Memory!GetNext, Waiting
    <2>5. store[k].id = k /\ k # 0
      BY <1>3, <2>3 DEF Timed
    <2>6. IsFirstOf(store, S, k)
      BY <2>3 DEF IsFirstOf
    <2> QED BY <1>1, <1>5, <2>4, <2>5, <2>6
  <1> QED BY <1>4, <1>5

(* What ORDER BY scheduled_at, priority DESC, created_at separates. *)
Sooner(r, u) ==
    \/ r["scheduled_at"] < u["scheduled_at"]
    \/ /\ r["scheduled_at"] = u["scheduled_at"]
       /\ r["priority"] > u["priority"]
    \/ /\ r["scheduled_at"] = u["scheduled_at"]
       /\ r["priority"] = u["priority"]
       /\ r["created_at"] < u["created_at"]

NextOrder ==
    <<Ent!Asc("scheduled_at"), Ent!Desc("priority"), Ent!Asc("created_at")>>

LEMMA PrecedesIsSooner ==
  ASSUME NEW r, NEW u
  PROVE  Ent!Precedes(NextOrder, r, u) => Sooner(r, u)
  <1>1. PICK o : o = NextOrder
    OBVIOUS
  <1>2. /\ DOMAIN o = {1, 2, 3}
        /\ o[1].column = "scheduled_at" /\ o[1].desc = FALSE
        /\ o[2].column = "priority" /\ o[2].desc = TRUE
        /\ o[3].column = "created_at" /\ o[3].desc = FALSE
    BY <1>1 DEF NextOrder, Ent!Asc, Ent!Desc
  <1>3. ASSUME Ent!Precedes(o, r, u)
        PROVE  Sooner(r, u)
    <2>1. PICK k \in DOMAIN o :
             /\ \A j \in 1 .. k - 1 : r[o[j].column] = u[o[j].column]
             /\ IF o[k].desc THEN r[o[k].column] > u[o[k].column]
                ELSE r[o[k].column] < u[o[k].column]
      BY <1>3 DEF Ent!Precedes
    <2>2. CASE k = 1
      BY <1>2, <2>1, <2>2 DEF Sooner
    <2>3. CASE k = 2
      <3>1. 1 \in 1 .. k - 1
        BY <2>3
      <3> QED BY <1>2, <2>1, <2>3, <3>1 DEF Sooner
    <2>4. CASE k = 3
      <3>1. 1 \in 1 .. k - 1 /\ 2 \in 1 .. k - 1
        BY <2>4
      <3> QED BY <1>2, <2>1, <2>4, <3>1 DEF Sooner
    <2> QED BY <1>2, <2>1, <2>2, <2>3, <2>4
  <1> QED BY <1>1, <1>3

NextIsAsked ==
    [where |-> <<Ent!StateEQ("scheduled")>>, order |-> NextOrder, limit |-> 1,
     offset |-> 0]

LEMMA NextIsAnswer ==
  ASSUME NEW tbl, NEW s
  PROVE  Ent!IsFirst(Ent!NextQuery, tbl, s) <=> Ent!IsAnswer(NextIsAsked, tbl, s)
  <1> DEFINE Names == {"where", "order", "limit", "offset"}
  <1>1. PICK where, order : /\ where = <<Ent!StateEQ("scheduled")>>
                            /\ order = NextOrder
    OBVIOUS
  <1>2. PICK new : new = Ent!NewQuery
    OBVIOUS
  <1>3. /\ new = [f \in Names |-> new[f]]
        /\ new.offset = None /\ new.limit = None
    BY <1>2 DEF Ent!NewQuery
  <1>4. PICK q : q = Ent!NextQuery
    OBVIOUS
  <1>5. q = [new EXCEPT !.where = where, !.order = order]
    BY <1>1, <1>2, <1>4 DEF Ent!NextQuery, NextOrder
  <1>6. PICK one : one = [q EXCEPT !.limit = 1]
    OBVIOUS
  <1>7. /\ one = [f \in Names |-> one[f]]
        /\ one.where = where /\ one.order = order /\ one.limit = 1
        /\ one.offset = None
    <2>1. /\ q = [f \in Names |-> q[f]]
          /\ q.where = where /\ q.order = order /\ q.offset = None
      BY <1>3, <1>5
    <2> QED BY <1>6, <2>1
  <1>8. Ent!QuerySpec(one) = [one EXCEPT !.limit = 1, !.offset = 0]
    <2>1. 1 # None
      BY DurationsAssumption
    <2> QED BY <1>7, <2>1 DEF Ent!QuerySpec
  <1>9. PICK asked : asked = [where |-> where, order |-> order, limit |-> 1,
                              offset |-> 0]
    OBVIOUS
  <1>10. /\ asked = [f \in Names |-> asked[f]]
         /\ asked.where = where /\ asked.order = order /\ asked.limit = 1
         /\ asked.offset = 0
    BY <1>9
  <1>11. [one EXCEPT !.limit = 1, !.offset = 0] = asked
    BY <1>7, <1>10
  <1>12. asked = NextIsAsked
    BY <1>1, <1>9 DEF NextIsAsked
  <1> QED BY <1>4, <1>6, <1>8, <1>11, <1>12 DEF Ent!IsFirst, Ent!IsAll

Scheduled(tbl) == {id \in DOMAIN tbl : InState(tbl[id], "scheduled")}

LEMMA EntNext ==
  ASSUME NEW tbl, IsFiniteSet(DOMAIN tbl)
  PROVE  /\ Ent!Nexts(tbl) \subseteq Scheduled(tbl)
         /\ \A id \in Scheduled(tbl) :
               (\A j \in Scheduled(tbl) : ~Sooner(tbl[j], tbl[id]))
               /\ ~Sooner(tbl[id], tbl[id]) => id \in Ent!Nexts(tbl)
  <1>1. PICK q, where, order :
           /\ q = [where |-> where, order |-> order, limit |-> 1, offset |-> 0]
           /\ where = <<Ent!StateEQ("scheduled")>> /\ order = NextOrder
    OBVIOUS
  <1>2. q.where = where /\ q.order = order /\ q.limit = 1 /\ q.offset = 0
    BY <1>1
  <1>3. q = NextIsAsked
    BY <1>1 DEF NextIsAsked
  <1>4. PICK hit : hit = {j \in DOMAIN tbl : Ent!SelectsAll(q.where, tbl[j])}
    OBVIOUS
  <1>5. hit = Scheduled(tbl)
    BY <1>1, <1>2, <1>4, SelectsState DEF Scheduled, InState
  <1>6. ASSUME NEW id
        PROVE  id \in Ent!Nexts(tbl) <=>
                  id \in DOMAIN tbl /\ Ent!IsAnswer(q, tbl, <<id>>)
    BY <1>3, NextIsAnswer DEF Ent!Nexts
  <1>7. ASSUME NEW id, id \in Ent!Nexts(tbl)
        PROVE  id \in hit
    <2>1. Ent!IsAnswer(q, tbl, <<id>>)
      BY <1>6, <1>7
    <2>2. Ent!ToSet(<<id>>) \subseteq hit
      BY <1>4, <2>1 DEF Ent!IsAnswer
    <2>3. Ent!ToSet(<<id>>) = {id}
      BY DEF Ent!ToSet
    <2> QED BY <2>2, <2>3
  <1>8. ASSUME NEW id \in hit, \A j \in hit : ~Sooner(tbl[j], tbl[id]),
               ~Sooner(tbl[id], tbl[id])
        PROVE  id \in Ent!Nexts(tbl)
    <2>1. PICK s : s = <<id>>
      OBVIOUS
    <2>2. /\ Ent!ToSet(s) = {id} /\ Len(s) = 1 /\ DOMAIN s = {1} /\ s[1] = id
          /\ Ent!IsInjective(s)
      BY <2>1 DEF Ent!ToSet, Ent!IsInjective
    <2> DEFINE Before(k) == {j \in hit : Ent!Precedes(q.order, tbl[j], tbl[s[k]])}
               After(k) == {j \in hit : Ent!Precedes(q.order, tbl[s[k]], tbl[j])}
    <2>3. Before(1) = {}
      BY <1>1, <1>2, <1>8, <2>2, PrecedesIsSooner
    <2>4. id \in hit \ After(1)
      BY <1>1, <1>2, <1>8, <2>2, PrecedesIsSooner
    <2>5. IsFiniteSet(hit) /\ IsFiniteSet(hit \ After(1))
      <3>1. hit \subseteq DOMAIN tbl /\ hit \ After(1) \subseteq DOMAIN tbl
        BY <1>4
      <3> QED BY <3>1, FS_Subset
    <2>6. /\ Cardinality(hit) \in Nat /\ Cardinality(hit) # 0
          /\ Cardinality(hit \ After(1)) \in Nat /\ Cardinality(hit \ After(1)) # 0
      <3>1. hit # {} /\ hit \ After(1) # {}
        BY <2>4
      <3> HIDE DEF After
      <3> QED BY <2>5, <3>1, FS_CardinalityType, FS_EmptySet
    <2>7. Cardinality(Before(1)) = 0
      BY <2>3, FS_EmptySet
    <2>c. \A S : Ent!Cardinality(S) = Cardinality(S)
      BY EntCardinality
    <2>8. PICK c : c = Ent!Cardinality(hit)
      OBVIOUS
    <2>9. c \in Nat /\ c >= 1
      BY <2>6, <2>8, <2>c
    <2> HIDE DEF Before, After
    <2>10. \A k \in DOMAIN s :
              /\ k = 1
              /\ Ent!Cardinality(Before(k)) = 0
              /\ Ent!Cardinality(hit \ After(k)) \in Nat
              /\ Ent!Cardinality(hit \ After(k)) >= 1
      BY <2>2, <2>6, <2>7, <2>c
    <2>11. /\ Ent!ToSet(s) \subseteq hit /\ Ent!IsInjective(s)
           /\ Len(s) = IF q.limit > 0 /\ q.limit < IF c > q.offset
                                                   THEN c - q.offset ELSE 0
                       THEN q.limit
                       ELSE IF c > q.offset THEN c - q.offset ELSE 0
           /\ \A k \in DOMAIN s :
                 /\ Ent!Cardinality(Before(k)) < q.offset + k
                 /\ Ent!Cardinality(hit \ After(k)) >= q.offset + k
                 /\ \A j \in 1 .. k - 1 : s[j] \notin After(k)
      BY <1>2, <1>8, <2>2, <2>9, <2>10
    <2>12. Ent!IsAnswer(q, tbl, s)
      BY <1>4, <2>8, <2>11 DEF Ent!IsAnswer, Before, After
    <2>13. id \in DOMAIN tbl
      BY <1>4, <1>8
    <2> QED BY <1>6, <2>1, <2>12, <2>13
  <1> QED BY <1>5, <1>7, <1>8

(* GetNext of one repository is one the other may answer with. *)
NextsAgree(store, tbl) ==
    LET next == Memory!GetNext(store)
    IN  IF next = 0 THEN Ent!Nexts(tbl) = {} ELSE next \in Ent!Nexts(tbl)

LEMMA TwinsNext ==
  ASSUME NEW store, NEW tbl, NEW parts, Twins(store, tbl, parts),
         \A id \in 1 .. Len(store) : parts[id] = {}
  PROVE  NextsAgree(store, tbl)
  <1>1. Timed(store)
    BY TwinsTimed
  <1>2. /\ Len(store) \in Nat /\ DOMAIN store = 1 .. Len(store)
        /\ DOMAIN tbl \subseteq 1 .. Len(store)
    BY SeqFacts DEF Twins
  <1>3. ASSUME NEW id \in 1 .. Len(store)
        PROVE  /\ id \in DOMAIN tbl
               /\ tbl[id]["scheduled_at"] = store[id].scheduled_at
               /\ tbl[id]["created_at"] = store[id].created_at
               /\ tbl[id]["priority"] = store[id].priority
               /\ tbl[id]["state"] = store[id].state
               /\ store[id].state # Null
    <2>1. TwinTask(tbl, store[id], {}, id)
      BY <1>3 DEF Twins
    <2>2. Fields # {} /\ Fields \ {} = Fields
      BY FieldNames
    <2>3. id \in DOMAIN tbl /\ RowMeans(tbl[id], store[id], Fields)
          /\ TaskOK(store[id], id)
      BY <2>1, <2>2 DEF TwinTask
    <2>4. {"scheduled_at", "created_at", "priority", "state"} \subseteq Fields
          /\ {"scheduled_at", "created_at", "priority", "state"}
                \cap (Maps \cup OptionalTimes) = {}
      BY FieldNames DEF Maps, OptionalTimes
    <2>5. store[id]["state"] # Null
      BY <2>3, <2>4 DEF TaskOK
    <2> QED BY <2>3, <2>4, <2>5 DEF RowMeans
  <1>4. Scheduled(tbl) = Waiting(store)
    BY <1>2, <1>3 DEF Scheduled, Waiting, InState
  <1>5. IsFiniteSet(DOMAIN tbl)
    <2>1. IsFiniteSet(1 .. Len(store))
      BY <1>2, FS_Interval
    <2> QED BY <1>2, <2>1, FS_Subset
  <1>6. PICK next : next = Memory!GetNext(store)
    OBVIOUS
  <1>7. CASE Waiting(store) = {}
    <2>1. next = 0
      BY <1>1, <1>6, <1>7, MemoryNext
    <2>2. Ent!Nexts(tbl) = {}
      BY <1>4, <1>5, <1>7, EntNext
    <2> QED BY <1>6, <2>1, <2>2 DEF NextsAgree
  <1>8. CASE Waiting(store) # {}
    <2>1. next # 0 /\ IsFirstOf(store, Waiting(store), next)
      BY <1>1, <1>6, <1>8, MemoryNext
    <2>2. next \in 1 .. Len(store)
      BY <1>2, <2>1 DEF IsFirstOf, Waiting
    <2>3. /\ store[next].scheduled_at \in Int /\ store[next].created_at \in Int
          /\ store[next].priority \in Int
      BY <1>1, <2>2 DEF Timed
    <2>4. ~Sooner(tbl[next], tbl[next])
      BY <1>3, <2>2, <2>3 DEF Sooner
    <2>5. ASSUME NEW j \in Waiting(store)
          PROVE  ~Sooner(tbl[j], tbl[next])
      <3>1. CASE j = next
        BY <2>4, <3>1
      <3>2. CASE j # next
        <4>1. Memory!Less(store, next, j)
          BY <2>1, <2>5, <3>2 DEF IsFirstOf
        <4>2. j \in 1 .. Len(store)
          BY <1>2, <2>5 DEF Waiting
        <4>3. /\ store[j].scheduled_at \in Int /\ store[j].created_at \in Int
              /\ store[j].priority \in Int
          BY <1>1, <4>2 DEF Timed
        <4> QED BY <1>3, <2>2, <2>3, <4>1, <4>2, <4>3 DEF Memory!Less, Sooner
      <3> QED BY <3>1, <3>2
    <2>6. next \in Scheduled(tbl)
      BY <1>4, <2>1 DEF IsFirstOf
    <2>7. next \in Ent!Nexts(tbl)
      BY <1>4, <1>5, <2>4, <2>5, <2>6, EntNext
    <2> QED BY <1>6, <2>1, <2>7 DEF NextsAgree
  <1> QED BY <1>7, <1>8

-----------------------------------------------------------------------------
(* The calls. *)
CallOK(c) ==
    /\ c.op \in {"AddTask", "UpdateById"} => IsParam(c.param)
    /\ c.op = "MarkAsDone" => c.result # Null

ScriptOK(s) == s = None \/ s \in Seq(Steps)

LEMMA FreeCallsOK ==
  ASSUME Len(memory) \in Nat, NEW c \in FreeCalls
  PROVE  CallOK(c)
  <1>1. CASE \E id : c \in CallsOn(id)
    <2>1. PICK id : c \in CallsOn(id)
      BY <1>1
    <2>2. CASE \E p \in UpdateParams : c = [op |-> "UpdateById", id |-> id, param |-> p]
      BY <2>2, TwinAssumption DEF CallOK
    <2>3. CASE \E op \in {"Cancel", "MarkAsDispatched"} : c = [op |-> op, id |-> id]
      BY <2>3 DEF CallOK
    <2>4. CASE \E r \in Results : c = [op |-> "MarkAsDone", id |-> id, result |-> r]
      <3>1. Null \notin Results
        BY TwinAssumption
      <3> QED BY <2>4, <3>1 DEF CallOK
    <2> QED BY <2>1, <2>2, <2>3, <2>4 DEF CallsOn
  <1>2. CASE Len(memory) < Len(AddParams)
             /\ \E p \in AddParams[Len(memory) + 1] : c = [op |-> "AddTask", param |-> p]
    <2>1. Len(memory) + 1 \in DOMAIN AddParams
      BY <1>2, TwinAssumption
    <2>2. \A p \in AddParams[Len(memory) + 1] : IsParam(p)
      BY <2>1, TwinAssumption
    <2> QED BY <1>2, <2>2 DEF CallOK
  <1>3. CASE \E op \in {"RevertDispatched", "CancelDispatched", "DeleteEnded"} :
                c = [op |-> op]
    BY <1>3 DEF CallOK
  <1> DEFINE some == UNION {CallsOn(id) : id \in {NeverExistentId}
                                \cup {id \in Ids : parted[id] # Fields}}
             added == {[op |-> "AddTask", param |-> p] :
                         p \in IF Len(memory) < Len(AddParams)
                               THEN AddParams[Len(memory) + 1] ELSE {}}
             all == {[op |-> op] : op \in {"RevertDispatched",
                                         "CancelDispatched", "DeleteEnded"}}
  <1>5. FreeCalls = some \cup added \cup all
    BY DEF FreeCalls
  <1>6. c \in some => \E id : c \in CallsOn(id)
    OBVIOUS
  <1>7. c \in added => Len(memory) < Len(AddParams)
           /\ \E p \in AddParams[Len(memory) + 1] : c = [op |-> "AddTask", param |-> p]
    OBVIOUS
  <1>8. c \in all => \E op \in {"RevertDispatched", "CancelDispatched", "DeleteEnded"} :
                c = [op |-> op]
    OBVIOUS
  <1> HIDE DEF some, added, all
  <1> QED BY <1>1, <1>2, <1>3, <1>5, <1>6, <1>7, <1>8

LEMMA AskedOK ==
  ASSUME Len(memory) \in Nat, ScriptOK(script), NEW op, NEW c \in Asked(op)
  PROVE  CallOK(c) /\ c.op = op
  <1>1. c.op = op
    BY DEF Asked
  <1>2. CASE script = None
    <2>1. c \in FreeCalls
      BY <1>2 DEF Asked
    <2> QED BY <1>1, <2>1, FreeCallsOK
  <1>3. CASE script # None
    <2>1. script \in Seq(Steps) /\ script # <<>> /\ c = Head(script).call
      BY <1>3 DEF Asked, ScriptOK
    <2>2. PICK s : s = Head(script)
      OBVIOUS
    <2>3. s \in Steps /\ c = s.call
      BY <2>1, <2>2
    <2> QED BY <1>1, <2>3, TwinAssumption DEF CallOK
  <1> QED BY <1>2, <1>3

LEMMA Going ==
  ASSUME ScriptOK(script), NEW op, NEW c \in Asked(op), Goes(c)
  PROVE  ScriptOK(script') /\ step'.call = c
  <1>1. CASE script = None
    <2>1. step' = [NoStep EXCEPT !.call = c] /\ script' = None
      BY <1>1 DEF Goes
    <2>2. PICK none : none = [op |-> "none"]
      OBVIOUS
    <2>3. PICK noErr : noErr = [err |-> ""]
      OBVIOUS
    <2>4. NoStep = [call |-> none, expect |-> noErr]
      BY <2>2, <2>3 DEF NoStep
    <2>5. [NoStep EXCEPT !.call = c].call = c
      BY <2>4
    <2> QED BY <2>1, <2>5 DEF ScriptOK
  <1>2. CASE script # None
    <2>1. script \in Seq(Steps) /\ script # <<>> /\ c = Head(script).call
      BY <1>2 DEF Asked, ScriptOK
    <2>2. script' = Tail(script) /\ step' = Head(script)
      BY <1>2 DEF Goes
    <2>3. Tail(script) \in Seq(Steps)
      BY <2>1
    <2> QED BY <2>1, <2>2, <2>3 DEF ScriptOK
  <1> QED BY <1>1, <1>2

LEMMA NowIsInt ==
  ASSUME clock \in Int, NEW now \in Nows
  PROVE  now \in Int
  BY DEF Nows, TicksPerMilli

(* The maps the INSERT takes from the schema. *)
LEMMA SharedIs ==
  ASSUME NEW p, IsParam(p)
  PROVE  Ent!SharedMaps(p) = {f \in Maps : f \notin DOMAIN p}
  <1>1. \A f \in Maps : Ent!ToTask(p, 1, 1)[f] = Nil <=> f \notin DOMAIN p
    <2>1. ASSUME NEW f \in Maps
          PROVE  Ent!ToTask(p, 1, 1)[f] = Nil <=> f \notin DOMAIN p
      <3>1. PICK t : t = ToTask(p, 1, 1)
        OBVIOUS
      <3>2. Ent!ToTask(p, 1, 1) = t
        BY <3>1, EntOperators
      <3>3. t[f] = IF f \in DOMAIN p THEN MapOf(p[f]) ELSE Nil
        BY <3>1, ToTaskFields
      <3>4. f \in DOMAIN p => MapOf(p[f]) # Nil
        BY TwinAssumption DEF MapOf
      <3> QED BY <3>2, <3>3, <3>4
    <2> QED BY <2>1
  <1>2. Ent!Maps = Maps
    BY EntOperators
  <1> QED BY <1>1, <1>2 DEF Ent!SharedMaps

-----------------------------------------------------------------------------
(* What holds in every state: the two are twins, but for where they are    *)
(* known to have parted, and time and script are what they are.            *)
TwinInv ==
    /\ Twins(memory, table, parted)
    /\ clock \in Int
    /\ ScriptOK(script)

LEMMA InvTasks ==
  ASSUME TwinInv
  PROVE  /\ Len(memory) \in Nat /\ Ids = 1 .. Len(memory)
         /\ Len(parted) = Len(memory) /\ DOMAIN parted = Ids
  BY SeqFacts DEF TwinInv, Twins, Ids

(* What one AddTask does to the two. *)
LEMMA AddToBothTwins ==
  ASSUME TwinInv, NEW now \in Int, NEW q, IsParam(q), AddToBoth(now, q)
  PROVE  /\ Twins(memory', table', parted')
         /\ said'.memory = said'.ent
         /\ said'.memory \in {"", "invalid_task"}
         /\ said'.memory = "" =>
               memory' = Append(memory, ToTask(q, Len(memory) + 1, now))
         /\ said'.memory # "" => memory' = memory
  <1>1. PICK id : id = Len(memory) + 1
    OBVIOUS
  <1>2. PICK m, e, part :
           /\ m = Memory!AddTask(memory, id, now, q)
           /\ e = Ent!AddTask(table, defaults, id, now, q)
           /\ part = {f \in Ent!SharedMaps(q) : defaults[f] # EmptyMap}
    OBVIOUS
  <1>3. /\ memory' = m.store /\ table' = e.store
        /\ said' = [memory |-> m.err, ent |-> e.err]
        /\ parted' = IF m.err = "" THEN Append(parted, part) ELSE parted
    BY <1>1, <1>2 DEF AddToBoth, Answered
  <1>4. DefaultsOK(q, defaults, part)
    <2>1. part = {f \in Maps : f \notin DOMAIN q /\ defaults[f] # EmptyMap}
      BY <1>2, SharedIs
    <2>2. Maps \subseteq Fields
      BY FieldNames
    <2> QED BY <2>1, <2>2 DEF DefaultsOK
  <1>5. IsMemoryAdd(m, memory, id, now, q) /\ IsAdd(e, table, defaults, id, now, q)
    BY <1>2 DEF IsMemoryAdd, IsAdd
  <1>6. PICK store, tbl, parts, d :
           store = memory /\ tbl = table /\ parts = parted /\ d = defaults
    OBVIOUS
  <1>7. AddedTwins(m, e, store, parts, part, q, id, now)
    <2>1. /\ Twins(store, tbl, parts) /\ DefaultsOK(q, d, part)
          /\ id = Len(store) + 1
          /\ IsMemoryAdd(m, store, id, now, q) /\ IsAdd(e, tbl, d, id, now, q)
      BY <1>1, <1>4, <1>5, <1>6 DEF TwinInv
    <2> QED BY <2>1, TwinsAdded
  <1>8. /\ m.err = e.err
        /\ Twins(m.store, e.store, IF m.err = "" THEN Append(parted, part) ELSE parted)
        /\ m.err = "" => m.store = Append(memory, ToTask(q, id, now))
        /\ m.err # "" => m.store = memory
        /\ m.err \in {"", "invalid_task"}
    BY <1>6, <1>7 DEF AddedTwins
  <1>9. said'.memory = m.err /\ said'.ent = e.err
    BY <1>3
  <1> QED BY <1>1, <1>3, <1>8, <1>9

-----------------------------------------------------------------------------
(* The invariant, action by action. *)
LEMMA PartedByIsParted ==
  ASSUME TwinInv, NEW id, NEW refused \in BOOLEAN, PartedBy(id, refused)
  PROVE  parted' = Parted(memory, parted, id, refused)
  BY InvTasks DEF PartedBy, Parted, Known

(* A task the two had parted in, they still have. *)
LEMMA StaysParted ==
  ASSUME TwinInv, NEW id, Known(memory, id), parted[id] # {},
         NEW refused \in BOOLEAN, PartedBy(id, refused),
         Twins(memory', table', parted')
  PROVE  id \in (Ids \ Agreeing)'
  <1>1. parted' = [parted EXCEPT ![id] = Fields]
    BY PartedByIsParted DEF Parted
  <1>2. id \in DOMAIN parted /\ Len(parted) \in Nat
    BY InvTasks DEF Known
  <1>3. PICK parts, parts2, store2, tbl2 :
           parts = parted /\ parts2 = parted' /\ store2 = memory' /\ tbl2 = table'
    OBVIOUS
  <1>4. IsSomeSeq(parts)
    BY <1>3 DEF TwinInv, Twins
  <1>5. Replaces(parts2, parts, id, Fields) /\ id \in 1 .. Len(parts)
    <2>1. id \in 1 .. Len(parts)
      BY <1>3, InvTasks DEF Known
    <2> QED BY <1>1, <1>3, <2>1 DEF Replaces
  <1>6. Len(parts2) = Len(parts) /\ parts2[id] = Fields
    BY <1>4, <1>5, SeqExcept
  <1>7. Len(parts2) = Len(store2)
    BY <1>3 DEF Twins
  <1>8. Fields # {}
    BY FieldNames
  <1> QED BY <1>3, <1>5, <1>6, <1>7, <1>8 DEF Ids, Agreeing

LEMMA StampStep ==
  ASSUME TwinInv, NEW op \in {"Cancel", "MarkAsDispatched", "MarkAsDone"},
         NEW c \in Asked(op), NEW now \in Nows, Goes(c), clock' = now,
         NEW m, NEW e, Answered(m, e), PartedBy(c.id, FALSE),
         TwinAnswers(m, e, memory, parted, c.id, PartedMore(memory, parted, c.id))
  PROVE  TwinInv' /\ AnswersAgree'
  <1>1. c.op = op
    BY InvTasks, AskedOK DEF TwinInv
  <1>2. ScriptOK(script') /\ step'.call = c
    BY Going DEF TwinInv
  <1>3. clock' \in Int
    BY NowIsInt DEF TwinInv
  <1>4. memory' = m.store /\ table' = e.store
        /\ said' = [memory |-> m.err, ent |-> e.err]
    BY DEF Answered
  <1>5. parted' = PartedMore(memory, parted, c.id)
    BY PartedByIsParted DEF PartedMore
  <1>6. Twins(memory', table', parted')
        /\ (m.err = e.err \/ (Known(memory, c.id) /\ parted[c.id] # {}))
    BY <1>4, <1>5 DEF TwinAnswers
  <1>7. TwinInv'
    BY <1>2, <1>3, <1>6 DEF TwinInv
  <1>8. Known(memory, c.id) /\ parted[c.id] # {} => c.id \in (Ids \ Agreeing)'
    BY <1>6, StaysParted
  <1>9. said'.memory = m.err /\ said'.ent = e.err
    BY <1>4
  <1>10. AnswersAgree'
    BY <1>1, <1>2, <1>6, <1>8, <1>9 DEF AnswersAgree
  <1> QED BY <1>7, <1>10

LEMMA StampSteps ==
  ASSUME TwinInv, Cancel \/ MarkAsDispatched \/ MarkAsDone
  PROVE  TwinInv' /\ AnswersAgree'
  <1>1. PICK store, tbl, parts : store = memory /\ tbl = table /\ parts = parted
    OBVIOUS
  <1>2. Twins(store, tbl, parts)
    BY <1>1 DEF TwinInv
  <1>3. CASE Cancel
    <2>1. PICK c \in Asked("Cancel"), now \in Nows :
             /\ Goes(c) /\ clock' = now
             /\ Answered(Memory!Cancel(memory, c.id, now),
                         Ent!Cancel(table, c.id, now))
             /\ PartedBy(c.id, FALSE)
      BY <1>3 DEF Cancel, Stamps
    <2>2. PICK id, m, e : /\ id = c.id /\ m = Memory!Cancel(store, id, now)
                          /\ e = Ent!Cancel(tbl, id, now)
      OBVIOUS
    <2>3. now \in Int
      BY NowIsInt DEF TwinInv
    <2>4. TwinAnswers(m, e, store, parts, id, PartedMore(store, parts, id))
      BY <1>2, <2>2, <2>3, CancelTwins
    <2> QED BY <1>1, <2>1, <2>2, <2>4, StampStep
  <1>4. CASE MarkAsDispatched
    <2>1. PICK c \in Asked("MarkAsDispatched"), now \in Nows :
             /\ Goes(c) /\ clock' = now
             /\ Answered(Memory!MarkAsDispatched(memory, c.id, now),
                         Ent!MarkAsDispatched(table, c.id, now))
             /\ PartedBy(c.id, FALSE)
      BY <1>4 DEF MarkAsDispatched, Stamps
    <2>2. PICK id, m, e : /\ id = c.id
                          /\ m = Memory!MarkAsDispatched(store, id, now)
                          /\ e = Ent!MarkAsDispatched(tbl, id, now)
      OBVIOUS
    <2>3. now \in Int
      BY NowIsInt DEF TwinInv
    <2>4. TwinAnswers(m, e, store, parts, id, PartedMore(store, parts, id))
      BY <1>2, <2>2, <2>3, MarkAsDispatchedTwins
    <2> QED BY <1>1, <2>1, <2>2, <2>4, StampStep
  <1>5. CASE MarkAsDone
    <2>1. PICK c \in Asked("MarkAsDone"), now \in Nows :
             /\ Goes(c) /\ clock' = now
             /\ Answered(Memory!MarkAsDone(memory, c.id, now, c.result),
                         Ent!MarkAsDone(table, c.id, now, c.result))
             /\ PartedBy(c.id, FALSE)
      BY <1>5 DEF MarkAsDone, Stamps
    <2>2. PICK id, r, m, e : /\ id = c.id /\ r = c.result
                             /\ m = Memory!MarkAsDone(store, id, now, r)
                             /\ e = Ent!MarkAsDone(tbl, id, now, r)
      OBVIOUS
    <2>3. now \in Int
      BY NowIsInt DEF TwinInv
    <2>4. r # Null
      BY <2>2, InvTasks, AskedOK DEF TwinInv, CallOK
    <2>5. TwinAnswers(m, e, store, parts, id, PartedMore(store, parts, id))
      BY <1>2, <2>2, <2>3, <2>4, MarkAsDoneTwins
    <2> QED BY <1>1, <2>1, <2>2, <2>5, StampStep
  <1> QED BY <1>3, <1>4, <1>5

LEMMA UpdateStep ==
  ASSUME TwinInv, UpdateById
  PROVE  TwinInv' /\ AnswersAgree'
  <1>1. PICK c \in Asked("UpdateById") :
           /\ Goes(c)
           /\ Answered(Memory!UpdateById(memory, c.id, c.param),
                       Ent!UpdateById(table, c.id, c.param))
           /\ PartedBy(c.id, /\ Memory!UpdateById(memory, c.id, c.param).err = ""
                             /\ Ent!UpdateById(table, c.id, c.param).err
                                   = "invalid_task")
           /\ clock' = clock
    BY DEF UpdateById
  <1>2. PICK store, tbl, parts, id, p, m, e :
           /\ store = memory /\ tbl = table /\ parts = parted
           /\ id = c.id /\ p = c.param
           /\ m = Memory!UpdateById(store, id, p) /\ e = Ent!UpdateById(tbl, id, p)
    OBVIOUS
  <1>3. CallOK(c) /\ c.op = "UpdateById"
    BY InvTasks, AskedOK DEF TwinInv
  <1>4. ScriptOK(script') /\ step'.call = c
    BY <1>1, Going DEF TwinInv
  <1>5. UpdateTwin(store, tbl, parts, id, m, e)
    <2>1. IsParam(p) /\ Twins(store, tbl, parts)
      BY <1>2, <1>3 DEF CallOK, TwinInv
    <2> QED BY <1>2, <2>1, UpdateTwins
  <1>6. PICK refused \in BOOLEAN : refused = (m.err = "" /\ e.err = "invalid_task")
    OBVIOUS
  <1>7. PartedBy(id, refused)
    BY <1>1, <1>2, <1>6
  <1>8. /\ memory' = m.store /\ table' = e.store
        /\ said' = [memory |-> m.err, ent |-> e.err]
    BY <1>1, <1>2 DEF Answered
  <1>9. parted' = Parted(store, parts, id, m.err = "" /\ e.err = "invalid_task")
    <2>1. parted' = Parted(memory, parted, id, refused)
      BY <1>7, PartedByIsParted
    <2> QED BY <1>2, <1>6, <2>1
  <1>10. /\ Twins(memory', table', parted')
         /\ \/ m.err = e.err
            \/ e.err = "invalid_task"
            \/ Known(memory, id) /\ parted[id] # {}
    BY <1>2, <1>5, <1>8, <1>9 DEF UpdateTwin
  <1>11. TwinInv'
    BY <1>1, <1>4, <1>10 DEF TwinInv
  <1>12. Known(memory, id) /\ parted[id] # {} => id \in (Ids \ Agreeing)'
    BY <1>7, <1>10, StaysParted
  <1>13. said'.memory = m.err /\ said'.ent = e.err
    BY <1>8
  <1>14. AnswersAgree'
    BY <1>2, <1>3, <1>4, <1>10, <1>12, <1>13 DEF AnswersAgree
  <1> QED BY <1>11, <1>14

LEMMA RepairStep ==
  ASSUME TwinInv, NEW op \in {"RevertDispatched", "CancelDispatched", "DeleteEnded"},
         NEW e, NEW states, NEW fields, Repairs(op, e, states, fields),
         clock' \in Int,
         \A parts2 : IsPartedBy(parts2, parted, memory, states, fields) =>
                        Twins(memory, e.store, parts2)
  PROVE  TwinInv' /\ AnswersAgree'
  <1>1. PICK c \in Asked(op) : Goes(c)
    BY DEF Repairs
  <1>2. ScriptOK(script') /\ step'.call = c
    BY <1>1, Going DEF TwinInv
  <1>3. /\ table' = e.store /\ memory' = memory
        /\ said' = [memory |-> e.err, ent |-> e.err]
        /\ IsPartedBy(parted', parted, memory, states, fields)
    BY DEF Repairs, IsPartedBy, Ids
  <1>4. Twins(memory', table', parted')
    <2>1. PICK parts2 : parts2 = parted'
      OBVIOUS
    <2>2. Twins(memory, e.store, parts2)
      BY <1>3, <2>1
    <2> QED BY <1>3, <2>1, <2>2
  <1>5. said'.memory = said'.ent
    BY <1>3
  <1> QED BY <1>2, <1>4, <1>5 DEF TwinInv, AnswersAgree

LEMMA RepairSteps ==
  ASSUME TwinInv, RevertDispatched \/ CancelDispatched \/ DeleteEnded
  PROVE  TwinInv' /\ AnswersAgree'
  <1>1. PICK store, tbl, parts : store = memory /\ tbl = table /\ parts = parted
    OBVIOUS
  <1>2. Twins(store, tbl, parts)
    BY <1>1 DEF TwinInv
  <1>3. CASE RevertDispatched
    <2>1. PICK e : e = Ent!RevertDispatched(tbl)
      OBVIOUS
    <2>2. PICK states, fields : states = {"dispatched"} /\ fields = {"state"}
      OBVIOUS
    <2>3. Repairs("RevertDispatched", e, states, fields) /\ clock' = clock
      BY <1>1, <1>3, <2>1, <2>2 DEF RevertDispatched
    <2>4. \A parts2 : IsPartedBy(parts2, parts, store, states, fields) =>
                         Twins(store, e.store, parts2)
      BY <1>2, <2>1, <2>2, RevertTwins
    <2>5. clock' \in Int
      BY <2>3 DEF TwinInv
    <2> QED BY <1>1, <2>3, <2>4, <2>5, RepairStep
  <1>4. CASE CancelDispatched
    <2>1. PICK now \in Nows :
             /\ clock' = now
             /\ Repairs("CancelDispatched", Ent!CancelDispatched(table, now),
                        {"dispatched"}, {"state", "cancelled_at"})
      BY <1>4 DEF CancelDispatched
    <2>2. PICK e : e = Ent!CancelDispatched(tbl, now)
      OBVIOUS
    <2>3. PICK states, fields :
             states = {"dispatched"} /\ fields = {"state", "cancelled_at"}
      OBVIOUS
    <2>4. Repairs("CancelDispatched", e, states, fields)
      BY <1>1, <2>1, <2>2, <2>3
    <2>5. \A parts2 : IsPartedBy(parts2, parts, store, states, fields) =>
                         Twins(store, e.store, parts2)
      BY <1>2, <2>2, <2>3, CancelDispatchedTwins
    <2>6. clock' \in Int
      BY <2>1, NowIsInt DEF TwinInv
    <2> QED BY <1>1, <2>4, <2>5, <2>6, RepairStep
  <1>5. CASE DeleteEnded
    <2>1. PICK e : e = Ent!DeleteEnded(tbl)
      OBVIOUS
    <2>2. PICK states, fields :
             states = {"cancelled", "done", "err"} /\ fields = Fields
      OBVIOUS
    <2>3. Repairs("DeleteEnded", e, states, fields) /\ clock' = clock
      BY <1>1, <1>5, <2>1, <2>2 DEF DeleteEnded
    <2>4. \A parts2 : IsPartedBy(parts2, parts, store, states, fields) =>
                         Twins(store, e.store, parts2)
      BY <1>2, <2>1, <2>2, DeleteTwins
    <2>5. clock' \in Int
      BY <2>3 DEF TwinInv
    <2> QED BY <1>1, <2>3, <2>4, <2>5, RepairStep
  <1> QED BY <1>3, <1>4, <1>5

LEMMA CallerStep ==
  ASSUME TwinInv, CallerWrites
  PROVE  TwinInv' /\ AnswersAgree'
  <1>1. /\ memory' = memory /\ table' = table /\ parted' = parted
        /\ clock' = clock /\ script' = script
        /\ said' = [memory |-> "", ent |-> ""]
    BY DEF CallerWrites, stores
  <1>2. said'.memory = said'.ent
    BY <1>1
  <1> QED BY <1>1, <1>2 DEF TwinInv, AnswersAgree

LEMMA ReadStep ==
  ASSUME TwinInv, Read
  PROVE  TwinInv' /\ AnswersAgree'
  <1>1. /\ memory' = memory /\ table' = table /\ parted' = parted /\ clock' = clock
    BY DEF Read, stores
  <1>2. Ids' = Ids /\ Agreeing' = Agreeing
    BY <1>1 DEF Ids, Agreeing
  <1>3. PICK store, tbl, parts : store = memory /\ tbl = table /\ parts = parted
    OBVIOUS
  <1>4. Twins(store, tbl, parts)
    BY <1>3 DEF TwinInv
  <1>5. ASSUME NEW op, NEW c \in Asked(op), Goes(c), AnswersAgree'
        PROVE  TwinInv' /\ AnswersAgree'
    BY <1>1, <1>5, Going DEF TwinInv
  <1>6. CASE \E c \in Asked("GetById") :
                /\ Goes(c)
                /\ said' = [memory |-> IF Memory!Has(memory, c.id) THEN ""
                                       ELSE "id_not_found",
                            ent |-> IF Ent!Get(table, c.id) THEN ""
                                    ELSE "id_not_found"]
    <2>1. PICK c \in Asked("GetById") :
             /\ Goes(c)
             /\ said' = [memory |-> IF Memory!Has(memory, c.id) THEN ""
                                    ELSE "id_not_found",
                         ent |-> IF Ent!Get(table, c.id) THEN ""
                                 ELSE "id_not_found"]
      BY <1>6
    <2>2. c.op = "GetById" /\ step'.call = c
      BY <2>1, InvTasks, AskedOK, Going DEF TwinInv
    <2>3. PICK id : id = c.id
      OBVIOUS
    <2>4. (Memory!Has(store, id) <=> Known(store, id))
          /\ (Ent!Get(tbl, id) <=> id \in DOMAIN tbl)
      BY <1>4, TwinsLookUp, TwinsGet
    <2>5. /\ said'.memory = IF Known(store, id) THEN "" ELSE "id_not_found"
          /\ said'.ent = IF id \in DOMAIN tbl THEN "" ELSE "id_not_found"
      BY <1>3, <2>1, <2>3, <2>4
    <2>6. id \in DOMAIN tbl => Known(store, id)
      BY <1>4 DEF Twins, Known
    <2>7. Known(store, id) /\ parts[id] = {} => id \in DOMAIN tbl
      <3>1. ASSUME Known(store, id), parts[id] = {}
            PROVE  id \in DOMAIN tbl
        <4>1. TwinTask(tbl, store[id], {}, id)
          BY <1>4, <3>1 DEF Twins, Known
        <4>2. Fields # {}
          BY FieldNames
        <4> QED BY <4>1, <4>2 DEF TwinTask
      <3> QED BY <3>1
    <2>8. Known(store, id) /\ parts[id] # {} => id \in (Ids \ Agreeing)'
      BY <1>2, <1>3 DEF Known, Ids, Agreeing
    <2>9. AnswersAgree'
      BY <2>2, <2>3, <2>5, <2>6, <2>7, <2>8 DEF AnswersAgree
    <2> QED BY <1>5, <2>1, <2>9
  <1>7. CASE \E c \in Asked("GetNext") :
                /\ Goes(c)
                /\ said' = [memory |-> IF Memory!GetNext(memory) # 0 THEN ""
                                       ELSE "exhausted",
                            ent |-> IF Ent!Nexts(table) # {} THEN ""
                                    ELSE "exhausted"]
    <2>1. PICK c \in Asked("GetNext") :
             /\ Goes(c)
             /\ said' = [memory |-> IF Memory!GetNext(memory) # 0 THEN ""
                                    ELSE "exhausted",
                         ent |-> IF Ent!Nexts(table) # {} THEN ""
                                 ELSE "exhausted"]
      BY <1>7
    <2>2. c.op = "GetNext" /\ step'.call = c
      BY <2>1, InvTasks, AskedOK, Going DEF TwinInv
    <2>3. CASE Agreeing = Ids
      <3>1. \A id \in 1 .. Len(store) : parts[id] = {}
        BY <1>3, <2>3 DEF Agreeing, Ids
      <3>2. NextsAgree(store, tbl)
        BY <1>4, <3>1, TwinsNext
      <3>3. Memory!GetNext(memory) # 0 <=> Ent!Nexts(table) # {}
        BY <1>3, <3>2 DEF NextsAgree
      <3>4. said'.memory = said'.ent
        BY <2>1, <3>3
      <3>5. AnswersAgree'
        BY <3>4 DEF AnswersAgree
      <3> QED BY <1>5, <2>1, <3>5
    <2>4. CASE Agreeing # Ids
      <3>1. AnswersAgree'
        BY <1>2, <2>2, <2>4 DEF AnswersAgree
      <3> QED BY <1>5, <2>1, <3>1
    <2> QED BY <2>3, <2>4
  <1>8. CASE \E c \in Asked("Find") :
                Goes(c) /\ said' = [memory |-> "", ent |-> ""]
    <2>1. PICK c \in Asked("Find") : Goes(c) /\ said' = [memory |-> "", ent |-> ""]
      BY <1>8
    <2>2. said'.memory = said'.ent
      BY <2>1
    <2>3. AnswersAgree'
      BY <2>2 DEF AnswersAgree
    <2> QED BY <1>5, <2>1, <2>3
  <1> QED BY <1>6, <1>7, <1>8 DEF Read

AddFails(how) ==
    /\ said' = [memory |-> how, ent |-> how]
    /\ UNCHANGED <<stores, parted, handed>>

LEMMA AddCases ==
  ASSUME TwinInv, AddTask
  PROVE  \E c \in Asked("AddTask"), now \in Nows :
            /\ Goes(c) /\ clock' = now /\ IsParam(c.param) /\ now \in Int
            /\ c.op = "AddTask" /\ step'.call = c /\ ScriptOK(script')
            /\ \/ AddFails("label")
               \/ /\ Load(MetaOf(c.param)) # None
                  /\ Apply(Load(MetaOf(c.param)), now, c.param) = {}
                  /\ AddFails("panic")
               \/ /\ Load(MetaOf(c.param)) # None
                  /\ \E q \in Apply(Load(MetaOf(c.param)), now, c.param) :
                        AddToBoth(now, q) /\ IsParam(q)
  <1>1. PICK c \in Asked("AddTask"), now \in Nows :
           /\ Goes(c) /\ clock' = now
           /\ LET ms == Load(MetaOf(c.param))
              IN  \/ ms = None /\ AddFails("label")
                  \/ ms # None /\ Apply(ms, now, c.param) = {} /\ AddFails("panic")
                  \/ ms # None /\ \E q \in Apply(ms, now, c.param) : AddToBoth(now, q)
    BY DEF AddTask, AddFails
  <1>2. c.op = "AddTask" /\ IsParam(c.param)
    BY InvTasks, AskedOK DEF TwinInv, CallOK
  <1>3. step'.call = c /\ ScriptOK(script')
    BY <1>1, Going DEF TwinInv
  <1>4. now \in Int
    BY NowIsInt DEF TwinInv
  <1>5. PICK p : p = c.param
    OBVIOUS
  <1>6. Load(MetaOf(p)) # None =>
           \A q \in Apply(Load(MetaOf(p)), now, p) : IsParam(q)
    BY <1>2, <1>4, <1>5, ApplyParams
  <1> QED BY <1>1, <1>2, <1>3, <1>4, <1>5, <1>6

LEMMA AddStep ==
  ASSUME TwinInv, AddTask
  PROVE  TwinInv' /\ AnswersAgree'
  <1>1. PICK c \in Asked("AddTask"), now \in Nows :
           /\ clock' = now /\ now \in Int /\ ScriptOK(script')
           /\ \/ AddFails("label") \/ AddFails("panic")
              \/ \E q : AddToBoth(now, q) /\ IsParam(q)
    BY AddCases
  <1>2. ASSUME NEW how, AddFails(how)
        PROVE  Twins(memory', table', parted') /\ said'.memory = said'.ent
    BY <1>2 DEF AddFails, stores, TwinInv
  <1>3. ASSUME NEW q, AddToBoth(now, q), IsParam(q)
        PROVE  Twins(memory', table', parted') /\ said'.memory = said'.ent
    BY <1>1, <1>3, AddToBothTwins
  <1>4. Twins(memory', table', parted') /\ said'.memory = said'.ent
    BY <1>1, <1>2, <1>3
  <1> QED BY <1>1, <1>4 DEF TwinInv, AnswersAgree

LEMMA InitTwins ==
  ASSUME Init
  PROVE  TwinInv /\ AnswersAgree
  <1>1. /\ memory = <<>> /\ parted = <<>> /\ DOMAIN table = {}
        /\ clock \in Int /\ ScriptOK(script)
    <2>1. memory = <<>> /\ parted = <<>> /\ clock = TicksPerMilli
      BY DEF Init
    <2>2. DOMAIN table = {}
      BY DEF Init
    <2>3. clock \in Int
      BY <2>1 DEF TicksPerMilli
    <2>4. script = None \/ script \in Scripts
      BY DEF Init
    <2>5. ScriptOK(script)
      BY <2>4, TwinAssumption DEF ScriptOK
    <2> QED BY <2>1, <2>2, <2>3, <2>5
  <1>2. IsSomeSeq(memory) /\ IsSomeSeq(parted) /\ Len(memory) = 0 /\ Len(parted) = 0
    <2>1. <<>> \in Seq({}) /\ Len(<<>>) = 0
      OBVIOUS
    <2> QED BY <1>1, <2>1 DEF IsSomeSeq
  <1>3. Twins(memory, table, parted)
    BY <1>1, <1>2 DEF Twins
  <1>4. said.memory = said.ent
    BY DEF Init
  <1> QED BY <1>1, <1>3, <1>4 DEF TwinInv, AnswersAgree

LEMMA NextTwins ==
  ASSUME TwinInv, AnswersAgree, [Next]_vars
  PROVE  TwinInv' /\ AnswersAgree'
  <1>1. CASE AddTask
    BY <1>1, AddStep
  <1>2. CASE UpdateById
    BY <1>2, UpdateStep
  <1>3. CASE Cancel \/ MarkAsDispatched \/ MarkAsDone
    BY <1>3, StampSteps
  <1>4. CASE RevertDispatched \/ CancelDispatched \/ DeleteEnded
    BY <1>4, RepairSteps
  <1>5. CASE CallerWrites
    BY <1>5, CallerStep
  <1>6. CASE Read
    BY <1>6, ReadStep
  <1>7. CASE UNCHANGED vars
    BY <1>7 DEF vars, stores, TwinInv, AnswersAgree, Ids, Agreeing
  <1> QED BY <1>1, <1>2, <1>3, <1>4, <1>5, <1>6, <1>7 DEF Next

LEMMA TwinsAlways == Spec => [](TwinInv /\ AnswersAgree)
  <1>1. Init => TwinInv /\ AnswersAgree
    BY InitTwins
  <1>2. (TwinInv /\ AnswersAgree) /\ [Next]_vars => (TwinInv /\ AnswersAgree)'
    BY NextTwins
  <1> QED BY <1>1, <1>2, PTL DEF Spec

LEMMA SameRowsHold ==
  ASSUME TwinInv
  PROVE  SameRows
  <1>1. PICK store, tbl, parts : store = memory /\ tbl = table /\ parts = parted
    OBVIOUS
  <1>2. Twins(store, tbl, parts)
    BY <1>1 DEF TwinInv
  <1>3. ASSUME NEW id \in Ids, Fields \ parted[id] # {}
        PROVE  /\ id \in DOMAIN table
               /\ Equal([f \in Fields |-> IF f \in Fields \ parted[id]
                                          THEN memory[id][f] ELSE ZeroTask[f]],
                        [f \in Fields |-> IF f \in Fields \ parted[id]
                                          THEN Ent!TaskOf(table, id)[f]
                                          ELSE ZeroTask[f]])
    <2>1. PICK t, row, fields :
             t = store[id] /\ row = tbl[id] /\ fields = Fields \ parts[id]
      OBVIOUS
    <2>2. TwinTask(tbl, t, parts[id], id)
      BY <1>1, <1>2, <1>3, <2>1 DEF Twins, Ids
    <2>3. /\ TaskOK(t, id) /\ fields \in SUBSET Fields
          /\ id \in DOMAIN tbl /\ RowMeans(row, t, fields)
      BY <1>1, <1>3, <2>1, <2>2 DEF TwinTask
    <2>4. \A f \in fields : IF f \in Maps THEN MapOf(RowTask(row)[f]) = MapOf(t[f])
                            ELSE RowTask(row)[f] = t[f]
      BY <2>3, RowRead
    <2>5. Ent!TaskOf(table, id) = RowTask(row)
      BY <1>1, <2>1 DEF Ent!TaskOf, RowTask
    <2>6. PICK u : u = RowTask(row)
      OBVIOUS
    <2>7. Equal([f \in Fields |-> IF f \in fields THEN t[f] ELSE ZeroTask[f]],
                [f \in Fields |-> IF f \in fields THEN u[f] ELSE ZeroTask[f]])
      BY <2>4, <2>6, FieldNames DEF Equal
    <2> QED BY <1>1, <2>1, <2>3, <2>5, <2>6, <2>7
  <1> QED BY <1>3 DEF SameRows

-----------------------------------------------------------------------------
(* Random shifts.  What fits a duration is not wrapped. *)
LEMMA WrapIsId ==
  ASSUME NEW d, IsDuration(d)
  PROVE  Wrap(d) = d
  <1>1. PICK h : h = HalfRange
    OBVIOUS
  <1>2. h \in Nat /\ h > 0
    BY <1>1, DurationsAssumption
  <1>3. d \in Int /\ 0 <= d + h /\ d + h < 2 * h
    BY <1>1, <1>2 DEF IsDuration
  <1>4. PICK x \in Int, m \in Int : x = d + h /\ m = 2 * h
    BY <1>2, <1>3
  <1>5. 0 <= x /\ x < m
    BY <1>3, <1>4
  <1>6. x % m = x
    BY <1>5
  <1>7. (d + h) % (2 * h) = d + h
    BY <1>4, <1>6
  <1>8. ((d + h) % (2 * h)) - h = d
    BY <1>2, <1>3, <1>7
  <1> QED BY <1>1, <1>8 DEF Wrap

(* The durations between two labels. *)
InRange(d, min, max) ==
    /\ IsDuration(d)
    /\ \/ min <= d /\ d < max
       \/ max < d /\ d <= min

LEMMA ShiftsInRange ==
  ASSUME NEW r, IsDuration(r.min), IsDuration(r.max),
         r.max - r.min \in 1 - HalfRange .. HalfRange - 1
  PROVE  /\ \A shift \in Shifts(r) : InRange(shift, r.min, r.max)
         /\ Shifts(r) = {} => \A d : ~InRange(d, r.min, r.max)
  <1>1. PICK h, min, max : h = HalfRange /\ min = r.min /\ max = r.max
    OBVIOUS
  <1>2. h \in Nat /\ h > 0 /\ min \in Int /\ max \in Int
    BY <1>1, DurationsAssumption DEF IsDuration
  <1>3. PICK diff \in Int : diff = max - min
    BY <1>2
  <1>4. IsDuration(diff) /\ IsDuration(-diff)
    BY <1>1, <1>2, <1>3 DEF IsDuration
  <1>5. PICK size \in Int : size = IF diff < 0 THEN -diff ELSE diff
    BY <1>3
  <1>6. Shifts(r) = {Wrap(min + (IF diff < 0 THEN -v ELSE v)) : v \in 0 .. size - 1}
    <2>1. PICK back : back = -diff
      OBVIOUS
    <2>2. Wrap(diff) = diff /\ Wrap(back) = back
      BY <1>4, <2>1, WrapIsId
    <2>3. Wrap(r.max - r.min) = diff /\ Wrap(-diff) = back
      BY <1>1, <1>3, <2>1, <2>2
    <2>4. size = IF diff < 0 THEN Wrap(-diff) ELSE diff
      BY <1>5, <2>1, <2>3
    <2> QED BY <1>1, <2>3, <2>4 DEF Shifts
  <1>7. ASSUME NEW v \in 0 .. size - 1
        PROVE  InRange(Wrap(min + (IF diff < 0 THEN -v ELSE v)), min, max)
    <2>1. PICK d \in Int : d = min + (IF diff < 0 THEN -v ELSE v)
      BY <1>2, <1>3, <1>5
    <2>2. (min <= d /\ d < max) \/ (max < d /\ d <= min)
      BY <1>2, <1>3, <1>5, <1>7, <2>1
    <2>3. IsDuration(d)
      BY <1>1, <1>2, <2>2 DEF IsDuration
    <2>4. Wrap(d) = d
      BY <2>3, WrapIsId
    <2> QED BY <2>1, <2>2, <2>3, <2>4 DEF InRange
  <1>8. \A shift \in Shifts(r) : InRange(shift, r.min, r.max)
    BY <1>1, <1>6, <1>7
  <1>9. ASSUME Shifts(r) = {}, NEW d, InRange(d, r.min, r.max)
        PROVE  FALSE
    <2>1. 0 \notin 0 .. size - 1
      BY <1>6, <1>9
    <2>2. diff = 0
      BY <1>3, <1>5, <2>1
    <2>3. d \in Int /\ ((min <= d /\ d < max) \/ (max < d /\ d <= min))
      BY <1>1, <1>2, <1>9 DEF InRange, IsDuration
    <2> QED BY <1>2, <1>3, <2>2, <2>3
  <1> QED BY <1>8, <1>9

(* ShiftStaysInRange of one answer and the task it stored. *)
ShiftOf(p, now, err, at) ==
    LET random == DecodeRandomizeScheduledAt(MetaOf(p))
        base == IF LabelScheduleAtNow \in DOMAIN MetaOf(p) THEN NormalizeTime(now)
                ELSE IF "scheduled_at" \in DOMAIN p THEN p.scheduled_at
                ELSE ZeroTime
    IN  random \notin {None, <<>>} =>
        LET r == random[1]
            range == {d \in -HalfRange .. HalfRange - 1 :
                         \/ r.min <= d /\ d < r.max
                         \/ r.max < d /\ d <= r.min}
        IN  r.max - r.min \in 1 - HalfRange .. HalfRange - 1 =>
                /\ err = "panic" => range = {}
                /\ err = "" => \E d \in range : at = NormalizeTime(base + d)

BaseTime(p, now) ==
    IF LabelScheduleAtNow \in DOMAIN MetaOf(p) THEN NormalizeTime(now)
    ELSE IF "scheduled_at" \in DOMAIN p THEN p.scheduled_at
    ELSE ZeroTime

LEMMA ShiftFollows ==
  ASSUME NEW p, NEW now, NEW err, NEW at,
         NEW random, random = DecodeRandomizeScheduledAt(MetaOf(p)),
         random \notin {None, <<>>} =>
            (random[1].max - random[1].min \in 1 - HalfRange .. HalfRange - 1 =>
               /\ err = "panic" => \A d : ~InRange(d, random[1].min, random[1].max)
               /\ err = "" => \E d : /\ InRange(d, random[1].min, random[1].max)
                                     /\ at = NormalizeTime(BaseTime(p, now) + d))
  PROVE  ShiftOf(p, now, err, at)
  <1>1. PICK min, max : min = random[1].min /\ max = random[1].max
    OBVIOUS
  <1>2. PICK range : range = {d \in -HalfRange .. HalfRange - 1 :
                                 \/ min <= d /\ d < max
                                 \/ max < d /\ d <= min}
    OBVIOUS
  <1>3. \A d : d \in range <=> InRange(d, min, max)
    BY <1>2 DEF InRange, IsDuration
  <1>4. random \notin {None, <<>>} =>
            (max - min \in 1 - HalfRange .. HalfRange - 1 =>
               /\ err = "panic" => range = {}
               /\ err = "" => \E d \in range : at = NormalizeTime(BaseTime(p, now) + d))
    BY <1>1, <1>3
  <1> QED BY <1>1, <1>2, <1>4 DEF ShiftOf, BaseTime

LEMMA ShiftUnfolds ==
  ASSUME NEW c, NEW err, step'.call = c, said'.ent = err,
         NEW at, at = memory'[Len(memory')].scheduled_at,
         ShiftOf(c.param, clock', err, at)
  PROVE  ShiftStaysInRange'
  BY DEF ShiftStaysInRange, ShiftOf

(* The task a shifted parameter becomes. *)
LEMMA ShiftedTask ==
  ASSUME NEW p, IsParam(p), NEW now \in Int, Load(MetaOf(p)) # None,
         NEW random, random = DecodeRandomizeScheduledAt(MetaOf(p)),
         random \notin {None, <<>>},
         NEW q \in Apply(Load(MetaOf(p)), now, p)
  PROVE  /\ IsDuration(random[1].min) /\ IsDuration(random[1].max)
         /\ \E shift \in Shifts(random[1]) :
               /\ "scheduled_at" \in DOMAIN q
               /\ q["scheduled_at"] = BaseTime(p, now) + shift
  <1>1. PICK base : base = BaseParam(p, now)
    OBVIOUS
  <1>2. /\ IsParam(base)
        /\ LabelScheduleAtNow \in DOMAIN MetaOf(p) =>
              "scheduled_at" \in DOMAIN base /\ base["scheduled_at"] = NormalizeTime(now)
        /\ LabelScheduleAtNow \notin DOMAIN MetaOf(p) => base = p
    BY <1>1, BaseIsParam DEF BaseParam
  <1>3. PICK r : r = random[1]
    OBVIOUS
  <1>4. /\ IsDuration(r.min) /\ IsDuration(r.max)
        /\ q \in RandomizeScheduledAt(r, base)
    BY <1>1, <1>3, ApplyCases
  <1>5. PICK at : at = IF "scheduled_at" \in DOMAIN base THEN base["scheduled_at"]
                       ELSE ZeroTime
    OBVIOUS
  <1>6. at = BaseTime(p, now)
    BY <1>2, <1>5 DEF BaseTime
  <1>7. PICK shift \in Shifts(r) : q = UpdateParam(base, [scheduled_at |-> at + shift])
    BY <1>4, <1>5 DEF RandomizeScheduledAt
  <1>8. PICK moved : moved = at + shift
    OBVIOUS
  <1>9. PICK u : u = [scheduled_at |-> moved]
    OBVIOUS
  <1>10. DOMAIN u = {"scheduled_at"} /\ u["scheduled_at"] = moved
    BY <1>9
  <1>11. q = UpdateParam(base, u)
    BY <1>7, <1>8, <1>9
  <1>12. "scheduled_at" \in DOMAIN q /\ q["scheduled_at"] = moved
    BY <1>10, <1>11 DEF UpdateParam
  <1> QED BY <1>3, <1>4, <1>6, <1>7, <1>8, <1>12

LEMMA StoredAt ==
  ASSUME NEW q, NEW id, NEW now, "scheduled_at" \in DOMAIN q, q["scheduled_at"] \in Int
  PROVE  ToTask(q, id, now)["scheduled_at"] = NormalizeTime(q["scheduled_at"])
  <1>1. PICK t : t = [ZeroTask EXCEPT !.id = id, !.state = "scheduled",
                                      !.created_at = NormalizeTime(now)]
    OBVIOUS
  <1>2. ToTask(q, id, now) = Update(t, q)
    BY <1>1 DEF ToTask
  <1>3. "scheduled_at" \in Fields /\ "scheduled_at" \notin Maps
        /\ "scheduled_at" \in Updatable /\ "scheduled_at" \in Times
    BY FieldNames DEF Maps, Updatable, Times
  <1>4. Update(t, q)["scheduled_at"] = Updated(t, q, "scheduled_at")
    BY <1>3, UpdateFields
  <1>5. Updated(t, q, "scheduled_at") = NormalizeOption(q["scheduled_at"])
    BY <1>3 DEF Updated, AssignIfSome
  <1> QED BY <1>2, <1>4, <1>5, Truncated

-----------------------------------------------------------------------------
(* What AddTask answers and stores. *)
LEMMA ShiftApplied ==
  ASSUME NEW p, IsParam(p), NEW now \in Int, Load(MetaOf(p)) # None,
         NEW q \in Apply(Load(MetaOf(p)), now, p),
         NEW id, NEW err, err # "panic",
         NEW at, at = ToTask(q, id, now)["scheduled_at"]
  PROVE  ShiftOf(p, now, err, at)
  <1>1. PICK random : random = DecodeRandomizeScheduledAt(MetaOf(p))
    OBVIOUS
  <1>2. ASSUME random \notin {None, <<>>},
               random[1].max - random[1].min \in 1 - HalfRange .. HalfRange - 1
        PROVE  \E d : /\ InRange(d, random[1].min, random[1].max)
                      /\ at = NormalizeTime(BaseTime(p, now) + d)
    <2>1. IsDuration(random[1].min) /\ IsDuration(random[1].max)
      BY <1>1, <1>2, ShiftedTask
    <2>2. PICK shift \in Shifts(random[1]) :
             /\ "scheduled_at" \in DOMAIN q
             /\ q["scheduled_at"] = BaseTime(p, now) + shift
      BY <1>1, <1>2, ShiftedTask
    <2>3. InRange(shift, random[1].min, random[1].max)
      BY <1>2, <2>1, ShiftsInRange
    <2>4. IsParam(q)
      BY ApplyParams
    <2>5. q["scheduled_at"] \in Int
      BY <2>2, <2>4 DEF IsParam
    <2>6. at = NormalizeTime(q["scheduled_at"])
      BY <2>2, <2>5, StoredAt
    <2>7. at = NormalizeTime(BaseTime(p, now) + shift)
      BY <2>2, <2>6
    <2> QED BY <2>3, <2>7
  <1> QED BY <1>1, <1>2, ShiftFollows

LEMMA ShiftPanics ==
  ASSUME NEW p, IsParam(p), NEW now \in Int, Load(MetaOf(p)) # None,
         Apply(Load(MetaOf(p)), now, p) = {}, NEW at
  PROVE  ShiftOf(p, now, "panic", at)
  <1>1. PICK random : random = DecodeRandomizeScheduledAt(MetaOf(p))
    OBVIOUS
  <1>2. ASSUME random \notin {None, <<>>},
               random[1].max - random[1].min \in 1 - HalfRange .. HalfRange - 1
        PROVE  \A d : ~InRange(d, random[1].min, random[1].max)
    <2>1. PICK r, base : r = random[1] /\ base = BaseParam(p, now)
      OBVIOUS
    <2>2. /\ IsDuration(r.min) /\ IsDuration(r.max)
          /\ RandomizeScheduledAt(r, base) = {}
      BY <1>1, <1>2, <2>1, ApplyCases
    <2>3. Shifts(r) = {}
      BY <2>2 DEF RandomizeScheduledAt
    <2> QED BY <1>2, <2>1, <2>2, <2>3, ShiftsInRange
  <1> QED BY <1>1, <1>2, ShiftFollows

LEMMA AddShifts ==
  ASSUME TwinInv, AddTask
  PROVE  ShiftStaysInRange'
  <1>1. PICK c \in Asked("AddTask"), now \in Nows :
           /\ clock' = now /\ IsParam(c.param) /\ now \in Int /\ step'.call = c
           /\ \/ AddFails("label")
              \/ /\ Load(MetaOf(c.param)) # None
                 /\ Apply(Load(MetaOf(c.param)), now, c.param) = {}
                 /\ AddFails("panic")
              \/ /\ Load(MetaOf(c.param)) # None
                 /\ \E q \in Apply(Load(MetaOf(c.param)), now, c.param) :
                       AddToBoth(now, q) /\ IsParam(q)
    BY AddCases
  <1>2. PICK p, err, at : /\ p = c.param /\ err = said'.ent
                          /\ at = memory'[Len(memory')].scheduled_at
    OBVIOUS
  <1>3. \A how : AddFails(how) => said'.ent = how
    BY DEF AddFails
  <1>4. ShiftOf(p, now, err, at)
    <2>1. CASE AddFails("label")
      <3>1. err # "" /\ err # "panic"
        BY <1>2, <1>3, <2>1
      <3> QED BY <3>1, ShiftFollows
    <2>2. CASE /\ Load(MetaOf(c.param)) # None
               /\ Apply(Load(MetaOf(c.param)), now, c.param) = {}
               /\ AddFails("panic")
      <3>1. err = "panic"
        BY <1>2, <1>3, <2>2
      <3> QED BY <1>1, <1>2, <2>2, <3>1, ShiftPanics
    <2>3. CASE /\ Load(MetaOf(c.param)) # None
               /\ \E q \in Apply(Load(MetaOf(c.param)), now, c.param) :
                     AddToBoth(now, q) /\ IsParam(q)
      <3>1. PICK q \in Apply(Load(MetaOf(p)), now, p) : AddToBoth(now, q) /\ IsParam(q)
        BY <1>2, <2>3
      <3>2. /\ said'.memory = err /\ err \in {"", "invalid_task"}
            /\ err = "" => memory' = Append(memory, ToTask(q, Len(memory) + 1, now))
        BY <1>1, <1>2, <3>1, AddToBothTwins
      <3>3. CASE err = ""
        <4>1. PICK id, t : id = Len(memory) + 1 /\ t = ToTask(q, id, now)
          OBVIOUS
        <4>2. memory' = Append(memory, t)
          BY <3>2, <3>3, <4>1
        <4>3. memory'[Len(memory')] = t
          BY <4>2, SeqFacts DEF TwinInv, Twins
        <4>4. at = ToTask(q, id, now)["scheduled_at"]
          BY <1>2, <4>1, <4>3
        <4>5. Load(MetaOf(p)) # None
          BY <1>2, <2>3
        <4> QED BY <1>1, <1>2, <3>1, <3>3, <4>4, <4>5, ShiftApplied
      <3>4. CASE err = "invalid_task"
        <4>1. err # "" /\ err # "panic"
          BY <3>4
        <4> QED BY <4>1, ShiftFollows
      <3> QED BY <3>2, <3>3, <3>4
    <2> QED BY <1>1, <2>1, <2>2, <2>3
  <1> QED BY <1>1, <1>2, <1>4, ShiftUnfolds

LEMMA OthersDoNotAdd ==
  ASSUME TwinInv, NEW op, op # "AddTask", NEW c \in Asked(op), Goes(c)
  PROVE  ShiftStaysInRange'
  <1>1. c.op = op /\ step'.call = c
    BY InvTasks, AskedOK, Going DEF TwinInv
  <1> QED BY <1>1 DEF ShiftStaysInRange

LEMMA InitShifts ==
  ASSUME Init
  PROVE  ShiftStaysInRange
  <1>1. step.call.op # "AddTask"
    BY DEF Init, NoStep
  <1> QED BY <1>1 DEF ShiftStaysInRange

LEMMA NextShifts ==
  ASSUME TwinInv, ShiftStaysInRange, [Next]_vars
  PROVE  ShiftStaysInRange'
  <1>1. CASE AddTask
    BY <1>1, AddShifts
  <1>2. CASE UpdateById
    <2>1. PICK c \in Asked("UpdateById") : Goes(c)
      BY <1>2 DEF UpdateById
    <2> QED BY <2>1, OthersDoNotAdd
  <1>3. CASE Cancel
    <2>1. PICK c \in Asked("Cancel") : Goes(c)
      BY <1>3 DEF Cancel, Stamps
    <2> QED BY <2>1, OthersDoNotAdd
  <1>4. CASE MarkAsDispatched
    <2>1. PICK c \in Asked("MarkAsDispatched") : Goes(c)
      BY <1>4 DEF MarkAsDispatched, Stamps
    <2> QED BY <2>1, OthersDoNotAdd
  <1>5. CASE MarkAsDone
    <2>1. PICK c \in Asked("MarkAsDone") : Goes(c)
      BY <1>5 DEF MarkAsDone, Stamps
    <2> QED BY <2>1, OthersDoNotAdd
  <1>6. CASE RevertDispatched
    <2>1. PICK c \in Asked("RevertDispatched") : Goes(c)
      BY <1>6 DEF RevertDispatched, Repairs
    <2> QED BY <2>1, OthersDoNotAdd
  <1>7. CASE CancelDispatched
    <2>1. PICK c \in Asked("CancelDispatched") : Goes(c)
      BY <1>7 DEF CancelDispatched, Repairs
    <2> QED BY <2>1, OthersDoNotAdd
  <1>8. CASE DeleteEnded
    <2>1. PICK c \in Asked("DeleteEnded") : Goes(c)
      BY <1>8 DEF DeleteEnded, Repairs
    <2> QED BY <2>1, OthersDoNotAdd
  <1>9. CASE CallerWrites
    <2>1. step' = NoStep
      BY <1>9 DEF CallerWrites
    <2>2. step'.call.op # "AddTask"
      BY <2>1 DEF NoStep
    <2> QED BY <2>2 DEF ShiftStaysInRange
  <1>10. CASE Read
    <2>1. \/ \E c \in Asked("GetById") : Goes(c)
          \/ \E c \in Asked("GetNext") : Goes(c)
          \/ \E c \in Asked("Find") : Goes(c)
      BY <1>10 DEF Read
    <2> QED BY <2>1, OthersDoNotAdd
  <1>11. CASE UNCHANGED vars
    BY <1>11 DEF vars, stores, ShiftStaysInRange
  <1> QED BY <1>1, <1>2, <1>3, <1>4, <1>5, <1>6, <1>7, <1>8, <1>9, <1>10, <1>11
          DEF Next

LEMMA NextsHold ==
  ASSUME TwinInv
  PROVE  Agreeing = Ids => NextAgrees
  <1>1. PICK store, tbl, parts : store = memory /\ tbl = table /\ parts = parted
    OBVIOUS
  <1>2. Twins(store, tbl, parts)
    BY <1>1 DEF TwinInv
  <1>3. ASSUME Agreeing = Ids
        PROVE  NextAgrees
    <2>1. \A id \in 1 .. Len(store) : parts[id] = {}
      BY <1>1, <1>3 DEF Agreeing, Ids
    <2>2. NextsAgree(store, tbl)
      BY <1>2, <2>1, TwinsNext
    <2> QED BY <1>1, <2>2 DEF NextsAgree, NextAgrees
  <1> QED BY <1>3

-----------------------------------------------------------------------------
(* Find.  A row is selected by what its task matches. *)
LEMMA QueryOperators ==
  /\ \A q : Memory!NormalizeQuery(q) = NormalizeQuery(q)
  /\ \A q : Ent!NormalizeQuery(q) = NormalizeQuery(q)
  /\ \A q, t : Memory!Match(q, t) <=> Match(q, t)
  /\ \A x : Ent!GetTimeType(x) = GetTimeType(x)
  /\ \A x : Ent!GetMapType(x) = GetMapType(x)
  /\ \A s, t : Ent!IsPrefix(s, t) <=> IsPrefix(s, t)
  /\ \A s, t : Ent!IsSuffix(s, t) <=> IsSuffix(s, t)
  /\ \A s, t : Ent!IsWithin(s, t) <=> IsWithin(s, t)
  <1>1. ASSUME NEW q
        PROVE  Memory!NormalizeQuery(q) = NormalizeQuery(q)
    BY DEF Memory!NormalizeQuery, NormalizeQuery, Memory!NormalizeMatcher,
           NormalizeMatcher, Memory!NormalizeTime, NormalizeTime,
           Memory!TicksPerMilli, TicksPerMilli, Memory!Times, Times,
           Memory!OptionalTimes, OptionalTimes
  <1>2. ASSUME NEW q
        PROVE  Ent!NormalizeQuery(q) = NormalizeQuery(q)
    BY DEF Ent!NormalizeQuery, NormalizeQuery, Ent!NormalizeMatcher,
           NormalizeMatcher, Ent!NormalizeTime, NormalizeTime,
           Ent!TicksPerMilli, TicksPerMilli, Ent!Times, Times,
           Ent!OptionalTimes, OptionalTimes
  <1>3. ASSUME NEW s, NEW t
        PROVE  /\ Memory!IsPrefix(s, t) <=> IsPrefix(s, t)
               /\ Ent!IsPrefix(s, t) <=> IsPrefix(s, t)
    BY DEF Memory!IsPrefix, Ent!IsPrefix, IsPrefix
  <1>4. ASSUME NEW s
        PROVE  Memory!Reverse(s) = Reverse(s) /\ Ent!Reverse(s) = Reverse(s)
    BY DEF Memory!Reverse, Ent!Reverse, Reverse
  <1>5. ASSUME NEW s, NEW t
        PROVE  /\ Memory!IsSuffix(s, t) <=> IsSuffix(s, t)
               /\ Ent!IsSuffix(s, t) <=> IsSuffix(s, t)
    BY <1>3, <1>4 DEF Memory!IsSuffix, Ent!IsSuffix, IsSuffix
  <1>6. ASSUME NEW s, NEW t
        PROVE  /\ Memory!IsWithin(s, t) <=> IsWithin(s, t)
               /\ Ent!IsWithin(s, t) <=> IsWithin(s, t)
    BY <1>3 DEF Memory!IsWithin, Ent!IsWithin, IsWithin
  <1>7. ASSUME NEW x
        PROVE  /\ Memory!GetTimeType(x) = GetTimeType(x)
               /\ Ent!GetTimeType(x) = GetTimeType(x)
               /\ Memory!GetMapType(x) = GetMapType(x)
               /\ Ent!GetMapType(x) = GetMapType(x)
    BY DEF Memory!GetTimeType, Ent!GetTimeType, GetTimeType, Memory!GetMapType,
           Ent!GetMapType, GetMapType, Memory!TimeMatchTypes,
           Ent!TimeMatchTypes, TimeMatchTypes, Memory!MapMatchTypes,
           Ent!MapMatchTypes, MapMatchTypes
  <1>8. ASSUME NEW m, NEW v
        PROVE  Memory!MatchTime(m, v) <=> MatchTime(m, v)
    BY <1>7 DEF Memory!MatchTime, MatchTime
  <1>9. ASSUME NEW m, NEW v
        PROVE  Memory!MatchEntry(m, v) <=> MatchEntry(m, v)
    BY <1>3, <1>5, <1>6, <1>7
       DEF Memory!MatchEntry, MatchEntry, Memory!MapOf, MapOf,
           Memory!EmptyMap, EmptyMap
  <1>10. ASSUME NEW m, NEW v
         PROVE  /\ Memory!MatchMap(m, v) <=> MatchMap(m, v)
                /\ Memory!MatchOptTime(m, v) <=> MatchOptTime(m, v)
    BY <1>8, <1>9 DEF Memory!MatchMap, MatchMap, Memory!MatchOptTime, MatchOptTime
  <1>11. ASSUME NEW q, NEW t
         PROVE  Memory!Match(q, t) <=> Match(q, t)
    <2>1. /\ Memory!Maps = Maps /\ Memory!OptionalTimes = OptionalTimes
          /\ Memory!Times = Times
      BY DEF Memory!Maps, Maps, Memory!OptionalTimes, OptionalTimes,
             Memory!Times, Times
    <2> QED BY <1>8, <1>10, <2>1 DEF Memory!Match, Match
  <1> QED BY <1>1, <1>2, <1>3, <1>5, <1>6, <1>7, <1>11

(* What a matcher on field f says of a value. *)
MatchesField(f, m, v) ==
    IF f \in Maps THEN MatchMap(m, v)
    ELSE IF f \in OptionalTimes THEN MatchOptTime(m, v)
    ELSE IF f \in Times THEN MatchTime(m, v)
    ELSE v = m

(* The column of a row that is NULL for a value that is not there. *)
ColumnIs(row, f, v) ==
    IF v = None THEN row[f] = Null ELSE row[f] = v /\ v # Null

LEMMA TimeSelects ==
  ASSUME NEW f, f \notin Maps, NEW m, NEW row, NEW v,
         ColumnIs(row, f, v)
  PROVE  Ent!Selects(Ent!timePred(f, m), row) <=> MatchTime(m, v)
  <1>1. PICK p : p = Ent!timePred(f, m)
    OBVIOUS
  <1>2. PICK type : type = GetTimeType(m.type)
    OBVIOUS
  <1>3. type \in {"NonNull", "Equal", "Before", "BeforeEqual", "After", "AfterEqual"}
    BY <1>2 DEF GetTimeType, TimeMatchTypes
  <1>4. Ent!GetTimeType(m.type) = type
    BY <1>2, QueryOperators
  <1>5. /\ p.column = f /\ p.value = m.value
        /\ type = "NonNull" => p.op = "NotNull"
        /\ type = "Equal" => p.op = "EQ"
        /\ type = "Before" => p.op = "LT"
        /\ type = "BeforeEqual" => p.op = "LTE"
        /\ type = "After" => p.op = "GT"
        /\ type = "AfterEqual" => p.op = "GTE"
    BY <1>1, <1>3, <1>4 DEF Ent!timePred, Ent!FieldIs
  <1>6. f \notin Ent!Maps
    BY EntOperators
  <1>7. PICK w : w = row[f]
    OBVIOUS
  <1>8. (w # Null <=> v # None) /\ (v # None => w = v)
    BY <1>7 DEF ColumnIs
  <1>9. Ent!Selects(p, row)
          <=> /\ w # Null
              /\ type = "Equal" => w = m.value
              /\ type = "Before" => w < m.value
              /\ type = "BeforeEqual" => w <= m.value
              /\ type = "After" => w > m.value
              /\ type = "AfterEqual" => w >= m.value
    BY <1>3, <1>5, <1>6, <1>7 DEF Ent!Selects
  <1>10. MatchTime(m, v)
          <=> /\ v # None
              /\ type = "Equal" => v = m.value
              /\ type = "Before" => v < m.value
              /\ type = "BeforeEqual" => v <= m.value
              /\ type = "After" => v > m.value
              /\ type = "AfterEqual" => v >= m.value
    BY <1>2 DEF MatchTime
  <1> QED BY <1>1, <1>8, <1>9, <1>10

LEMMA NullSelects ==
  ASSUME NEW f, NEW row
  PROVE  Ent!Selects(Ent!FieldIs(f, "IsNull", None), row) <=> row[f] = Null
  <1>1. PICK p : p = Ent!FieldIs(f, "IsNull", None)
    OBVIOUS
  <1>2. p.column = f /\ p.op = "IsNull"
    BY <1>1 DEF Ent!FieldIs
  <1> QED BY <1>1, <1>2 DEF Ent!Selects

LEMMA EqualSelects ==
  ASSUME NEW f, f \notin Maps, NEW m, NEW row, row[f] # Null
  PROVE  Ent!Selects(Ent!FieldIs(f, "EQ", m), row) <=> row[f] = m
  <1>1. PICK p : p = Ent!FieldIs(f, "EQ", m)
    OBVIOUS
  <1>2. p.column = f /\ p.op = "EQ" /\ p.value = m
    BY <1>1 DEF Ent!FieldIs
  <1>3. f \notin Ent!Maps
    BY EntOperators
  <1> QED BY <1>1, <1>2, <1>3 DEF Ent!Selects

LEMMA EntrySelects ==
  ASSUME NEW f \in Maps, NEW ms, NEW k \in DOMAIN ms, NEW row, NEW v,
         row[f] \notin {Null, Nil}, MapOf(row[f]) = MapOf(v)
  PROVE  Ent!Selects(Ent!jsonMatcher(f, ms)[k], row) <=> MatchEntry(ms[k], v)
  <1>1. PICK p : p = Ent!jsonMatcher(f, ms)[k]
    OBVIOUS
  <1>2. PICK m : m = ms[k]
    OBVIOUS
  <1>3. PICK type : type = GetMapType(m.type)
    OBVIOUS
  <1>4. type \in {"HasKey", "Exact", "Forward", "Backward", "Middle"}
    BY <1>3 DEF GetMapType, MapMatchTypes
  <1>5. Ent!GetMapType(ms[k].type) = type
    BY <1>2, <1>3, QueryOperators
  <1>6. /\ p.column = f /\ p.value = m.value /\ p.key = m.key
        /\ type = "HasKey" => p.op = "HasKey"
        /\ type = "Exact" => p.op = "ValueEQ"
        /\ type = "Forward" => p.op = "StringHasPrefix"
        /\ type = "Backward" => p.op = "StringHasSuffix"
        /\ type = "Middle" => p.op = "StringContains"
    BY <1>1, <1>2, <1>4, <1>5 DEF Ent!jsonMatcher, Ent!EntryIs
  <1>7. f \in Ent!Maps
    BY EntOperators
  <1>8. PICK w : w = row[f]
    OBVIOUS
  <1>9. w = MapOf(v)
    BY <1>8 DEF MapOf
  <1>10. v # Nil => w = v
    BY <1>9 DEF MapOf
  <1>11. v = Nil => m.key \notin DOMAIN w
    BY <1>9 DEF MapOf, EmptyMap
  <1>12. Ent!Selects(p, row)
          <=> /\ m.key \in DOMAIN w
              /\ type = "Exact" => w[m.key] = m.value
              /\ type = "Forward" => IsPrefix(m.value, w[m.key])
              /\ type = "Backward" => IsSuffix(m.value, w[m.key])
              /\ type = "Middle" => IsWithin(m.value, w[m.key])
    BY <1>4, <1>6, <1>7, <1>8, QueryOperators DEF Ent!Selects
  <1>13. MatchEntry(m, v)
          <=> /\ m.key \in DOMAIN w
              /\ type = "Exact" => v[m.key] = m.value
              /\ type = "Forward" => IsPrefix(m.value, v[m.key])
              /\ type = "Backward" => IsSuffix(m.value, v[m.key])
              /\ type = "Middle" => IsWithin(m.value, v[m.key])
    BY <1>3, <1>9 DEF MatchEntry
  <1>14. MatchEntry(m, v) <=> Ent!Selects(p, row)
    BY <1>10, <1>11, <1>12, <1>13
  <1> QED BY <1>1, <1>2, <1>14

(* The predicates s test the fields F of a task by its row. *)
TestsFields(q, F, s, row, t) ==
    /\ IsSomeSeq(s)
    /\ Ent!SelectsAll(s, row)
         <=> \A f \in F \cap DOMAIN q : MatchesField(f, q[f], t[f])

LEMMA JoinTests ==
  ASSUME NEW q, NEW row, NEW t, NEW F, NEW G, NEW s, NEW r, NEW u,
         TestsFields(q, F, s, row, t), TestsFields(q, G, r, row, t),
         Joins(u, s, r)
  PROVE  TestsFields(q, F \cup G, u, row, t)
  <1>1. PICK S : s \in Seq(S)
    BY DEF TestsFields, IsSomeSeq
  <1>2. PICK R : r \in Seq(R)
    BY DEF TestsFields, IsSomeSeq
  <1>3. PICK T : T = S \cup R
    OBVIOUS
  <1>4. s \in Seq(T) /\ r \in Seq(T)
    BY <1>1, <1>2, <1>3
  <1>5. PICK m \in Nat, n \in Nat : m = Len(s) /\ n = Len(r)
    BY <1>4
  <1>6. /\ u \in Seq(T) /\ Len(u) = m + n
        /\ \A i \in 1 .. m : u[i] = s[i]
        /\ \A i \in 1 .. n : u[m + i] = r[i]
    BY <1>4, <1>5, JoinFacts
  <1>7. DOMAIN s = 1 .. m /\ DOMAIN r = 1 .. n /\ DOMAIN u = 1 .. m + n
    BY <1>4, <1>5, <1>6
  <1>8. ASSUME Ent!SelectsAll(s, row), Ent!SelectsAll(r, row)
        PROVE  Ent!SelectsAll(u, row)
    <2>1. ASSUME NEW k \in DOMAIN u
          PROVE  Ent!Selects(u[k], row)
      <3>1. CASE k \in 1 .. m
        BY <1>6, <1>7, <1>8, <3>1 DEF Ent!SelectsAll
      <3>2. CASE k \notin 1 .. m
        <4>1. PICK i \in 1 .. n : k = m + i
          <5>1. k \in Int /\ k > m /\ k <= m + n
            BY <1>5, <1>7, <2>1, <3>2
          <5>2. k - m \in 1 .. n /\ k = m + (k - m)
            BY <1>5, <5>1
          <5> QED BY <5>2
        <4> QED BY <1>6, <1>7, <1>8, <4>1 DEF Ent!SelectsAll
      <3> QED BY <3>1, <3>2
    <2> QED BY <2>1 DEF Ent!SelectsAll
  <1>9. ASSUME Ent!SelectsAll(u, row)
        PROVE  Ent!SelectsAll(s, row) /\ Ent!SelectsAll(r, row)
    <2>1. ASSUME NEW k \in DOMAIN s
          PROVE  Ent!Selects(s[k], row)
      <3>1. k \in DOMAIN u /\ u[k] = s[k]
        BY <1>5, <1>6, <1>7, <2>1
      <3> QED BY <1>9, <3>1 DEF Ent!SelectsAll
    <2>2. ASSUME NEW k \in DOMAIN r
          PROVE  Ent!Selects(r[k], row)
      <3>1. PICK i : i = m + k
        OBVIOUS
      <3>2. i \in DOMAIN u /\ u[i] = r[k]
        BY <1>5, <1>6, <1>7, <2>2, <3>1
      <3> QED BY <1>9, <3>2 DEF Ent!SelectsAll
    <2> QED BY <2>1, <2>2 DEF Ent!SelectsAll
  <1>10. IsSomeSeq(u)
    BY <1>6 DEF IsSomeSeq
  <1>11. (\A f \in (F \cup G) \cap DOMAIN q : MatchesField(f, q[f], t[f]))
           <=> /\ \A f \in F \cap DOMAIN q : MatchesField(f, q[f], t[f])
               /\ \A f \in G \cap DOMAIN q : MatchesField(f, q[f], t[f])
    OBVIOUS
  <1> QED BY <1>8, <1>9, <1>10, <1>11 DEF TestsFields

(* One field, with one predicate if it is asked for and none if not. *)
LEMMA OneTests ==
  ASSUME NEW q, NEW row, NEW t, NEW f, NEW s, NEW p,
         f \notin DOMAIN q => s = <<>>,
         f \in DOMAIN q =>
            /\ s = <<p>>
            /\ Ent!Selects(p, row) <=> MatchesField(f, q[f], t[f])
  PROVE  TestsFields(q, {f}, s, row, t)
  <1>1. CASE f \notin DOMAIN q
    <2>1. s = <<>> /\ {f} \cap DOMAIN q = {}
      BY <1>1
    <2>2. IsSomeSeq(s) /\ DOMAIN s = {}
      <3>1. s \in Seq({})
        BY <2>1
      <3> QED BY <2>1, <3>1 DEF IsSomeSeq
    <2> QED BY <2>1, <2>2 DEF TestsFields, Ent!SelectsAll
  <1>2. CASE f \in DOMAIN q
    <2>1. s = <<p>> /\ {f} \cap DOMAIN q = {f}
      BY <1>2
    <2>2. s \in Seq({p}) /\ DOMAIN s = {1} /\ s[1] = p
      BY <2>1
    <2>3. Ent!SelectsAll(s, row) <=> Ent!Selects(p, row)
      BY <2>2 DEF Ent!SelectsAll
    <2> QED BY <1>2, <2>1, <2>2, <2>3 DEF TestsFields, IsSomeSeq
  <1> QED BY <1>1, <1>2

(* The task a row means in every column. *)
IsRowOf(row, t) == \E id : TaskOK(t, id) /\ RowMeans(row, t, Fields)

LEMMA RowColumns ==
  ASSUME NEW row, NEW t, IsRowOf(row, t)
  PROVE  /\ \A f \in Times : ColumnIs(row, f, t[f])
         /\ \A f \in Fields \ (Maps \cup Times) : row[f] = t[f] /\ row[f] # Null
         /\ \A f \in Maps : row[f] \notin {Null, Nil} /\ MapOf(row[f]) = MapOf(t[f])
  <1>1. PICK id : TaskOK(t, id) /\ RowMeans(row, t, Fields)
    BY DEF IsRowOf
  <1>2. ASSUME NEW f \in Times
        PROVE  ColumnIs(row, f, t[f])
    <2>1. f \in Fields /\ f \notin Maps
      BY FieldNames
    <2>2. t[f] \in Int \cup {None}
      BY <1>1 DEF TaskOK
    <2>3. f \notin OptionalTimes => t[f] \in Int
      BY <1>1 DEF TaskOK
    <2>4. Null \notin Int /\ None \notin Int
      BY TwinAssumption, DurationsAssumption
    <2>5. row[f] = IF f \in OptionalTimes /\ t[f] = None THEN Null ELSE t[f]
      BY <1>1, <2>1 DEF RowMeans
    <2>6. ColumnIs(row, f, t[f])
      BY <2>2, <2>3, <2>4, <2>5 DEF ColumnIs
    <2> QED BY <2>6
  <1>3. ASSUME NEW f \in Fields \ (Maps \cup Times)
        PROVE  row[f] = t[f] /\ row[f] # Null
    <2>1. f \notin OptionalTimes
      BY FieldNames
    <2>2. row[f] = t[f]
      BY <1>1, <2>1 DEF RowMeans
    <2>3. t[f] # Null
      BY <1>1, <2>1 DEF TaskOK
    <2> QED BY <2>2, <2>3
  <1>4. \A f \in Maps : row[f] \notin {Null, Nil} /\ MapOf(row[f]) = MapOf(t[f])
    BY <1>1, FieldNames DEF RowMeans
  <1> QED BY <1>2, <1>3, <1>4

(* What where adds for a field. *)
Part(q, f) ==
    IF f \in Maps THEN Ent!whereMap(q, f)
    ELSE IF f \in OptionalTimes THEN Ent!whereOptTime(q, f)
    ELSE IF f \in Times THEN Ent!whereTime(q, f)
    ELSE IF f \in DOMAIN q THEN <<Ent!FieldIs(f, "EQ", q[f])>> ELSE <<>>

LEMMA PartTests ==
  ASSUME NEW q, IsQuery(q), NEW row, NEW t, IsRowOf(row, t), NEW f \in Fields
  PROVE  TestsFields(q, {f}, Part(q, f), row, t)
  <1>1. PICK s : s = Part(q, f)
    OBVIOUS
  <1>2. PICK m : m = q[f]
    OBVIOUS
  <1>3. CASE f \notin Maps \cup Times
    <2>1. PICK p : p = Ent!FieldIs(f, "EQ", m)
      OBVIOUS
    <2>2. f \notin OptionalTimes
      BY <1>3, FieldNames
    <2>3. IF f \in DOMAIN q THEN s = <<p>> ELSE s = <<>>
      BY <1>1, <1>2, <1>3, <2>1, <2>2 DEF Part
    <2>4. row[f] = t[f] /\ row[f] # Null
      BY <1>3, RowColumns
    <2>5. Ent!Selects(p, row) <=> row[f] = m
      BY <1>3, <2>1, <2>4, EqualSelects
    <2>6. Ent!Selects(p, row) <=> MatchesField(f, q[f], t[f])
      BY <1>2, <1>3, <2>2, <2>4, <2>5 DEF MatchesField
    <2> QED BY <1>1, <2>3, <2>6, OneTests
  <1>4. CASE f \in Times /\ ~(f \in OptionalTimes /\ f \in DOMAIN q /\ m = None)
    <2>1. PICK p : p = Ent!timePred(f, m)
      OBVIOUS
    <2>2. f \notin Maps /\ f \in Times
      BY <1>4, FieldNames
    <2>3. s = Ent!whereTime(q, f)
      BY <1>1, <1>2, <1>4, <2>2 DEF Part, Ent!whereOptTime
    <2>4. IF f \in DOMAIN q THEN s = <<p>> ELSE s = <<>>
      BY <1>2, <2>1, <2>3 DEF Ent!whereTime
    <2>5. Ent!Selects(p, row) <=> MatchTime(m, t[f])
      BY <2>1, <2>2, RowColumns, TimeSelects
    <2>6. f \in DOMAIN q => (MatchTime(m, t[f]) <=> MatchesField(f, q[f], t[f]))
      BY <1>2, <1>4, <2>2 DEF MatchesField, MatchOptTime
    <2> QED BY <1>1, <2>4, <2>5, <2>6, OneTests
  <1>5. CASE f \in OptionalTimes /\ f \in DOMAIN q /\ m = None
    <2>1. PICK p : p = Ent!FieldIs(f, "IsNull", None)
      OBVIOUS
    <2>2. f \notin Maps /\ f \in Times
      BY <1>5, FieldNames
    <2>3. s = <<p>>
      BY <1>1, <1>2, <1>5, <2>1, <2>2 DEF Part, Ent!whereOptTime
    <2>4. Ent!Selects(p, row) <=> row[f] = Null
      BY <2>1, NullSelects
    <2>5. ColumnIs(row, f, t[f])
      BY <2>2, RowColumns
    <2>6. MatchesField(f, q[f], t[f]) <=> t[f] = None
      BY <1>2, <1>5, <2>2 DEF MatchesField, MatchOptTime
    <2>7. Ent!Selects(p, row) <=> MatchesField(f, q[f], t[f])
      BY <2>4, <2>5, <2>6 DEF ColumnIs
    <2> QED BY <1>1, <1>5, <2>3, <2>7, OneTests
  <1>6. CASE f \in Maps
    <2>1. row[f] \notin {Null, Nil} /\ MapOf(row[f]) = MapOf(t[f])
      BY <1>6, RowColumns
    <2>2. CASE f \notin DOMAIN q
      <3>1. s = <<>>
        BY <1>1, <1>6, <2>2 DEF Part, Ent!whereMap
      <3> QED BY <1>1, <2>2, <3>1, OneTests
    <2>3. CASE f \in DOMAIN q
      <3>1. s = Ent!jsonMatcher(f, m)
        BY <1>1, <1>2, <1>6, <2>3 DEF Part, Ent!whereMap
      <3>2. m \in Seq(Range(m))
        BY <1>2, <1>6, <2>3 DEF IsQuery
      <3>3. DOMAIN s = DOMAIN m /\ IsSomeSeq(s)
        <4>1. PICK n \in Nat : n = Len(m) /\ DOMAIN m = 1 .. n
          BY <3>2
        <4> DEFINE Entry(k) ==
                     LET op == CASE Ent!GetMapType(m[k].type) = "HasKey" -> "HasKey"
                                 [] Ent!GetMapType(m[k].type) = "Exact" -> "ValueEQ"
                                 [] Ent!GetMapType(m[k].type) = "Forward"
                                       -> "StringHasPrefix"
                                 [] Ent!GetMapType(m[k].type) = "Backward"
                                       -> "StringHasSuffix"
                                 [] Ent!GetMapType(m[k].type) = "Middle"
                                       -> "StringContains"
                     IN  Ent!EntryIs(f, op, m[k].key, m[k].value)
        <4>s. s = [k \in DOMAIN m |-> Entry(k)]
          BY <3>1, Zenon DEF Ent!jsonMatcher
        <4> HIDE DEF Entry
        <4>2. s = [k \in 1 .. n |-> s[k]]
          BY <4>s, <4>1
        <4>3. PICK T : T = {s[k] : k \in 1 .. n}
          OBVIOUS
        <4>4. s \in [1 .. n -> T]
          <5>1. \A k \in 1 .. n : s[k] \in T
            BY <4>3
          <5> HIDE DEF Ent!jsonMatcher
          <5> QED BY <4>2, <5>1
        <4>5. s \in Seq(T)
          BY <4>4, SeqDef
        <4> QED BY <4>1, <4>2, <4>5 DEF IsSomeSeq
      <3>4. ASSUME NEW k \in DOMAIN m
            PROVE  Ent!Selects(s[k], row) <=> MatchEntry(m[k], t[f])
        BY <1>6, <2>1, <3>1, <3>4, EntrySelects
      <3>5. Ent!SelectsAll(s, row) <=> MatchMap(m, t[f])
        BY <3>3, <3>4 DEF Ent!SelectsAll, MatchMap
      <3>6. Ent!SelectsAll(s, row) <=> MatchesField(f, m, t[f])
        BY <1>6, <3>5 DEF MatchesField
      <3>7. {f} \cap DOMAIN q = {f}
        BY <2>3
      <3> QED BY <1>1, <1>2, <3>3, <3>6, <3>7 DEF TestsFields
    <2> QED BY <2>2, <2>3
  <1> QED BY <1>3, <1>4, <1>5, <1>6

LEMMA WhereMatches ==
  ASSUME NEW q, IsQuery(q), NEW row, NEW t, IsRowOf(row, t)
  PROVE  Ent!SelectsAll(Ent!where(q), row) <=> Match(q, t)
  <1>1. PICK p1, p2, p3, p4, p5, p6, p7, p8, p9, p10, p11, p12, p13 :
           /\ p1 = Part(q, "id")
           /\ p2 = Part(q, "work_id")
           /\ p3 = Part(q, "priority")
           /\ p4 = Part(q, "state")
           /\ p5 = Part(q, "err")
           /\ p6 = Part(q, "scheduled_at")
           /\ p7 = Part(q, "created_at")
           /\ p8 = Part(q, "deadline")
           /\ p9 = Part(q, "cancelled_at")
           /\ p10 = Part(q, "dispatched_at")
           /\ p11 = Part(q, "done_at")
           /\ p12 = Part(q, "param")
           /\ p13 = Part(q, "meta")
    OBVIOUS
  <1>2. /\ \A f \in Maps : Part(q, f) = Ent!whereMap(q, f)
        /\ \A f \in OptionalTimes : Part(q, f) = Ent!whereOptTime(q, f)
        /\ \A f \in {"scheduled_at", "created_at"} :
              Part(q, f) = Ent!whereTime(q, f)
        /\ \A f \in {"id", "work_id", "priority", "state", "err"} :
              Part(q, f) = IF f \in DOMAIN q THEN <<Ent!FieldIs(f, "EQ", q[f])>>
                           ELSE <<>>
    BY DEF Part, Maps, OptionalTimes, Times
  <1>3. Ent!where(q) = p1 \o p2 \o p3 \o p4 \o p5 \o p6 \o p7 \o p8
                         \o p9 \o p10 \o p11 \o p12 \o p13
    BY <1>1, <1>2
       DEF Ent!where, Ent!whereFieldEq, Ent!IDEQ, Ent!WorkIDEQ, Ent!PriorityEQ,
           Ent!StateEQ, Ent!ErrEQ, Maps, OptionalTimes
  <1>4. PICK u1, u2, u3, u4, u5, u6, u7, u8, u9, u10, u11, u12 :
           /\ Joins(u1, p1, p2)
           /\ Joins(u2, u1, p3)
           /\ Joins(u3, u2, p4)
           /\ Joins(u4, u3, p5)
           /\ Joins(u5, u4, p6)
           /\ Joins(u6, u5, p7)
           /\ Joins(u7, u6, p8)
           /\ Joins(u8, u7, p9)
           /\ Joins(u9, u8, p10)
           /\ Joins(u10, u9, p11)
           /\ Joins(u11, u10, p12)
           /\ Joins(u12, u11, p13)
    BY DEF Joins
  <1>5. Ent!where(q) = u12
    BY <1>3, <1>4 DEF Joins
  <1>6. /\ TestsFields(q, {"id"}, p1, row, t)
        /\ TestsFields(q, {"work_id"}, p2, row, t)
        /\ TestsFields(q, {"priority"}, p3, row, t)
        /\ TestsFields(q, {"state"}, p4, row, t)
        /\ TestsFields(q, {"err"}, p5, row, t)
        /\ TestsFields(q, {"scheduled_at"}, p6, row, t)
        /\ TestsFields(q, {"created_at"}, p7, row, t)
        /\ TestsFields(q, {"deadline"}, p8, row, t)
        /\ TestsFields(q, {"cancelled_at"}, p9, row, t)
        /\ TestsFields(q, {"dispatched_at"}, p10, row, t)
        /\ TestsFields(q, {"done_at"}, p11, row, t)
        /\ TestsFields(q, {"param"}, p12, row, t)
        /\ TestsFields(q, {"meta"}, p13, row, t)
    BY <1>1, FieldNames, PartTests
  <1> DEFINE F1 == {"id"} \cup {"work_id"}
             F2 == F1 \cup {"priority"}
             F3 == F2 \cup {"state"}
             F4 == F3 \cup {"err"}
             F5 == F4 \cup {"scheduled_at"}
             F6 == F5 \cup {"created_at"}
             F7 == F6 \cup {"deadline"}
             F8 == F7 \cup {"cancelled_at"}
             F9 == F8 \cup {"dispatched_at"}
             F10 == F9 \cup {"done_at"}
             F11 == F10 \cup {"param"}
             F12 == F11 \cup {"meta"}
  <1>7. TestsFields(q, F1, u1, row, t)
    BY <1>4, <1>6, JoinTests
  <1>8. TestsFields(q, F2, u2, row, t)
    <2> HIDE DEF F1
    <2> QED BY <1>4, <1>6, <1>7, JoinTests
  <1>9. TestsFields(q, F3, u3, row, t)
    <2> HIDE DEF F2
    <2> QED BY <1>4, <1>6, <1>8, JoinTests
  <1>10. TestsFields(q, F4, u4, row, t)
    <2> HIDE DEF F3
    <2> QED BY <1>4, <1>6, <1>9, JoinTests
  <1>11. TestsFields(q, F5, u5, row, t)
    <2> HIDE DEF F4
    <2> QED BY <1>4, <1>6, <1>10, JoinTests
  <1>12. TestsFields(q, F6, u6, row, t)
    <2> HIDE DEF F5
    <2> QED BY <1>4, <1>6, <1>11, JoinTests
  <1>13. TestsFields(q, F7, u7, row, t)
    <2> HIDE DEF F6
    <2> QED BY <1>4, <1>6, <1>12, JoinTests
  <1>14. TestsFields(q, F8, u8, row, t)
    <2> HIDE DEF F7
    <2> QED BY <1>4, <1>6, <1>13, JoinTests
  <1>15. TestsFields(q, F9, u9, row, t)
    <2> HIDE DEF F8
    <2> QED BY <1>4, <1>6, <1>14, JoinTests
  <1>16. TestsFields(q, F10, u10, row, t)
    <2> HIDE DEF F9
    <2> QED BY <1>4, <1>6, <1>15, JoinTests
  <1>17. TestsFields(q, F11, u11, row, t)
    <2> HIDE DEF F10
    <2> QED BY <1>4, <1>6, <1>16, JoinTests
  <1>18. TestsFields(q, F12, u12, row, t)
    <2> HIDE DEF F11
    <2> QED BY <1>4, <1>6, <1>17, JoinTests
  <1>19. F12 = Fields
    BY FieldNames
  <1> HIDE DEF F12
  <1>20. Match(q, t) <=> \A f \in Fields \cap DOMAIN q : MatchesField(f, q[f], t[f])
    BY DEF IsQuery, Match, MatchesField
  <1> QED BY <1>5, <1>18, <1>19, <1>20 DEF TestsFields

LEMMA QueryNormalized ==
  ASSUME NEW q, IsQuery(q)
  PROVE  IsQuery(NormalizeQuery(q))
  <1>1. /\ DOMAIN NormalizeQuery(q) = DOMAIN q
        /\ \A f \in Maps \cap DOMAIN q : NormalizeQuery(q)[f] = q[f]
    BY FieldNames DEF NormalizeQuery
  <1> QED BY <1>1 DEF IsQuery

-----------------------------------------------------------------------------
(* The loop of Find, after the first k tasks. *)
Collects(store, q, g, n) ==
    g = [k \in 0 .. n |-> IF k = 0 THEN <<>>
                          ELSE IF Memory!Match(q, store[k])
                               THEN Append(g[k - 1], store[k])
                          ELSE g[k - 1]]

LEMMA CollectExists ==
  ASSUME NEW store, NEW q, NEW n \in Nat
  PROVE  \E g : Collects(store, q, g, n)
  <1> DEFINE S == {m \in Nat : \E g : Collects(store, q, g, m)}
  <1>1. 0 \in S
    <2>1. Collects(store, q, [k \in 0 .. 0 |-> <<>>], 0)
      BY DEF Collects
    <2> QED BY <2>1
  <1>2. ASSUME NEW m \in Nat, m \in S
        PROVE  m + 1 \in S
    <2>1. PICK g : Collects(store, q, g, m)
      BY <1>2
    <2> DEFINE h == [k \in 0 .. m + 1 |->
                       IF k = m + 1
                       THEN IF Memory!Match(q, store[m + 1])
                            THEN Append(g[m], store[m + 1]) ELSE g[m]
                       ELSE g[k]]
    <2>2. ASSUME NEW k \in 0 .. m + 1
          PROVE  h[k] = IF k = 0 THEN <<>>
                        ELSE IF Memory!Match(q, store[k])
                             THEN Append(h[k - 1], store[k])
                        ELSE h[k - 1]
      <3>1. CASE k = m + 1
        <4>1. k - 1 = m /\ k # 0 /\ m \in 0 .. m + 1 /\ m # m + 1
          BY <3>1
        <4>2. h[m] = g[m]
          BY <4>1
        <4>3. h[k] = IF Memory!Match(q, store[k]) THEN Append(g[m], store[k])
                     ELSE g[m]
          BY <3>1
        <4> HIDE DEF h
        <4> QED BY <4>1, <4>2, <4>3
      <3>2. CASE k # m + 1
        <4>1. k \in 0 .. m /\ h[k] = g[k] /\ (k # 0 => h[k - 1] = g[k - 1])
          BY <3>2
        <4> HIDE DEF h
        <4> QED BY <2>1, <4>1 DEF Collects
      <3> QED BY <3>1, <3>2
    <2>3. h = [k \in 0 .. m + 1 |-> h[k]]
      OBVIOUS
    <2> HIDE DEF h
    <2>4. Collects(store, q, h, m + 1)
      BY <2>2, <2>3 DEF Collects
    <2> QED BY <2>4
  <1> HIDE DEF S
  <1>3. n \in S
    BY <1>1, <1>2, SetInduction
  <1> QED BY <1>3 DEF S

(* h holds the tasks q matches among the first k, oldest first. *)
Hits(h, store, q, k) ==
    /\ IsSomeSeq(h)
    /\ \A i \in 1 .. Len(h) : h[i].id \in 1 .. k /\ h[i] = store[h[i].id]
    /\ \A i, j \in 1 .. Len(h) : i < j => h[i].id < h[j].id
    /\ {h[i].id : i \in 1 .. Len(h)}
          = {j \in 1 .. k : Memory!Match(q, store[j])}

LEMMA HitsMore ==
  ASSUME NEW store, NEW q, NEW k \in Nat, NEW n \in Nat, n = k + 1,
         store[n].id = n, NEW h, Hits(h, store, q, k), NEW u,
         u = IF Memory!Match(q, store[n]) THEN Append(h, store[n]) ELSE h
  PROVE  Hits(u, store, q, n)
  <1>1. PICK T : h \in Seq(T)
    BY DEF Hits, IsSomeSeq
  <1>2. PICK m \in Nat, z \in Nat : m = Len(h) /\ z = m + 1
    BY <1>1
  <1>3. CASE ~Memory!Match(q, store[n])
    <2>1. u = h
      BY <1>3
    <2>2. {j \in 1 .. n : Memory!Match(q, store[j])}
             = {j \in 1 .. k : Memory!Match(q, store[j])}
      BY <1>3
    <2>3. 1 .. k \subseteq 1 .. n
      OBVIOUS
    <2> QED BY <2>1, <2>2, <2>3 DEF Hits
  <1>4. CASE Memory!Match(q, store[n])
    <2>1. PICK U : U = T \cup {store[n]}
      OBVIOUS
    <2>2. /\ u \in Seq(U) /\ Len(u) = z /\ u[z] = store[n]
          /\ \A i \in 1 .. m : u[i] = h[i]
      <3>1. h \in Seq(U) /\ store[n] \in U /\ u = Append(h, store[n])
        BY <1>1, <1>4, <2>1
      <3> QED BY <1>2, <3>1, AppendProperties
    <2>3. /\ 1 .. z = (1 .. m) \cup {z} /\ z \notin 1 .. m
          /\ 1 .. n = (1 .. k) \cup {n} /\ n \notin 1 .. k
      BY <1>2
    <2>4. \A i \in 1 .. m : h[i].id \in 1 .. k /\ h[i] = store[h[i].id]
      BY <1>2 DEF Hits
    <2>10. u[z].id = n
      BY <2>2
    <2>5. ASSUME NEW i \in 1 .. z
          PROVE  u[i].id \in 1 .. n /\ u[i] = store[u[i].id]
      <3>1. CASE i \in 1 .. m
        BY <2>2, <2>3, <2>4, <3>1
      <3>2. CASE i = z
        BY <2>2, <2>10, <3>2
      <3> QED BY <2>3, <3>1, <3>2
    <2>6. ASSUME NEW i \in 1 .. z, NEW j \in 1 .. z, i < j
          PROVE  u[i].id < u[j].id
      <3>1. i \in 1 .. m
        BY <1>2, <2>6
      <3>2. u[i].id = h[i].id /\ h[i].id \in 1 .. k
        BY <2>2, <2>4, <3>1
      <3>3. CASE j = z
        BY <2>2, <3>2, <3>3
      <3>4. CASE j # z
        <4>1. j \in 1 .. m
          BY <2>3, <3>4
        <4> QED BY <1>2, <2>2, <2>6, <3>1, <4>1 DEF Hits
      <3> QED BY <3>3, <3>4
    <2>7. {u[i].id : i \in 1 .. z} = {h[i].id : i \in 1 .. m} \cup {n}
      <3>1. \A i \in 1 .. m : u[i].id = h[i].id
        BY <2>2
      <3>2. PICK D, E : D = 1 .. z /\ E = 1 .. m
        OBVIOUS
      <3>3. D = E \cup {z}
        BY <2>3, <3>2
      <3>4. \A i \in E : u[i].id = h[i].id
        BY <3>1, <3>2
      <3>5. PICK A, B : A = {u[i].id : i \in D} /\ B = {h[i].id : i \in E}
        OBVIOUS
      <3>6. ASSUME NEW i \in D
            PROVE  u[i].id \in B \cup {n}
        <4>1. CASE i \in E
          BY <3>4, <3>5, <4>1
        <4>2. CASE i = z
          BY <2>10, <4>2
        <4> QED BY <3>3, <4>1, <4>2
      <3>7. ASSUME NEW i \in E
            PROVE  h[i].id \in A
        <4>1. i \in D /\ u[i].id = h[i].id
          BY <3>3, <3>4
        <4> QED BY <3>5, <4>1
      <3>8. n \in A
        BY <2>10, <3>3, <3>5
      <3>9. A = B \cup {n}
        BY <3>5, <3>6, <3>7, <3>8
      <3> QED BY <3>2, <3>5, <3>9
    <2>8. {j \in 1 .. n : Memory!Match(q, store[j])}
             = {j \in 1 .. k : Memory!Match(q, store[j])} \cup {n}
      BY <1>4, <2>3
    <2>9. {h[i].id : i \in 1 .. m} = {j \in 1 .. k : Memory!Match(q, store[j])}
      BY <1>2 DEF Hits
    <2> QED BY <2>2, <2>5, <2>6, <2>7, <2>8, <2>9 DEF Hits, IsSomeSeq
  <1> QED BY <1>3, <1>4

LEMMA MatchingHits ==
  ASSUME NEW store, IsSomeSeq(store), NEW q,
         \A j \in 1 .. Len(store) : store[j].id = j
  PROVE  Hits(Memory!Matching(store, q), store, q, Len(store))
  <1>1. PICK n \in Nat : n = Len(store)
    BY SeqFacts
  <1>2. PICK g : g = CHOOSE f : Collects(store, q, f, n)
    OBVIOUS
  <1>3. Memory!Matching(store, q) = g[n]
    BY <1>1, <1>2 DEF Memory!Matching, Collects
  <1>4. Collects(store, q, g, n)
    BY <1>2, CollectExists
  <1> DEFINE S == {k \in Nat : k <= n => Hits(g[k], store, q, k)}
  <1>5. 0 \in S
    <2>1. g[0] = <<>>
      BY <1>4 DEF Collects
    <2>2. IsSomeSeq(<<>>) /\ Len(<<>>) = 0
      <3>1. <<>> \in Seq({})
        OBVIOUS
      <3> QED BY <3>1 DEF IsSomeSeq
    <2> QED BY <2>1, <2>2 DEF Hits
  <1>6. ASSUME NEW k \in Nat, k \in S
        PROVE  k + 1 \in S
    <2>1. ASSUME k + 1 <= n
          PROVE  Hits(g[k + 1], store, q, k + 1)
      <3>1. PICK z \in Nat : z = k + 1
        OBVIOUS
      <3>2. z \in 0 .. n /\ z # 0 /\ z - 1 = k /\ z \in 1 .. Len(store)
        BY <1>1, <2>1, <3>1
      <3>3. g[z] = IF Memory!Match(q, store[z]) THEN Append(g[k], store[z])
                   ELSE g[k]
        BY <1>4, <3>2 DEF Collects
      <3>4. Hits(g[k], store, q, k)
        BY <1>6, <2>1
      <3>5. store[z].id = z
        BY <3>2
      <3>6. PICK h, u : h = g[k] /\ u = g[z]
        OBVIOUS
      <3>7. Hits(u, store, q, z)
        BY <3>1, <3>3, <3>4, <3>5, <3>6, HitsMore
      <3> QED BY <3>1, <3>6, <3>7
    <2> QED BY <2>1
  <1> HIDE DEF S
  <1>7. n \in S
    BY <1>5, <1>6, SetInduction
  <1> QED BY <1>1, <1>3, <1>7 DEF S

(* A sequence without repetitions has as many elements as positions. *)
Prefix(r, m) == {r[i] : i \in 1 .. m}

LEMMA PrefixCardinality ==
  ASSUME NEW r, NEW n \in Nat, \A i, j \in 1 .. n : r[i] = r[j] => i = j,
         NEW m \in 0 .. n
  PROVE  IsFiniteSet(Prefix(r, m)) /\ Cardinality(Prefix(r, m)) = m
  <1> DEFINE P(k) == Prefix(r, k)
             S == {k \in Nat : k <= n => /\ IsFiniteSet(P(k))
                                         /\ Cardinality(P(k)) = k}
  <1>1. 0 \in S
    <2>1. P(0) = {}
      BY DEF Prefix
    <2> HIDE DEF P
    <2> QED BY <2>1, FS_EmptySet
  <1>2. ASSUME NEW k \in Nat, k \in S
        PROVE  k + 1 \in S
    <2>1. PICK z \in Nat : z = k + 1
      OBVIOUS
    <2>2. ASSUME z <= n
          PROVE  IsFiniteSet(P(z)) /\ Cardinality(P(z)) = z
      <3>1. IsFiniteSet(P(k)) /\ Cardinality(P(k)) = k
        BY <1>2, <2>1, <2>2
      <3>2. P(z) = P(k) \cup {r[z]}
        <4>1. 1 .. z = (1 .. k) \cup {z}
          BY <2>1
        <4> QED BY <4>1 DEF Prefix
      <3>3. r[z] \notin P(k)
        BY <2>1, <2>2 DEF Prefix
      <3>4. PICK A, x : A = P(k) /\ x = r[z]
        OBVIOUS
      <3> HIDE DEF P
      <3>5. IsFiniteSet(A \cup {x}) /\ Cardinality(A \cup {x}) = k + 1
        BY <3>1, <3>3, <3>4, FS_AddElement
      <3> QED BY <2>1, <3>2, <3>4, <3>5
    <2> HIDE DEF P
    <2> QED BY <2>1, <2>2
  <1> HIDE DEF S
  <1>3. m \in S
    BY <1>1, <1>2, SetInduction
  <1> QED BY <1>3 DEF S

-----------------------------------------------------------------------------
(* What an offset and a limit leave of n. *)
Rest(n, offset) == IF n > offset THEN n - offset ELSE 0
Size(n, offset, limit) ==
    IF limit > 0 /\ limit < Rest(n, offset) THEN limit ELSE Rest(n, offset)

LEMMA SizeFits ==
  ASSUME NEW n \in Nat, NEW offset \in Nat, NEW limit \in Int
  PROVE  /\ Size(n, offset, limit) \in Nat
         /\ \A k \in 1 .. Size(n, offset, limit) :
               offset + k \in 1 .. n /\ offset + k - 1 \in 0 .. n
  BY DEF Size, Rest

(* s is the part of r, which has n elements, that they leave. *)
IsWindow(s, r, n, offset, limit) ==
    /\ IsSomeSeq(s) /\ Len(s) = Size(n, offset, limit)
    /\ \A k \in 1 .. Len(s) : s[k] = r[offset + k]

LEMMA FindWindow ==
  ASSUME NEW store, NEW q, NEW h, h = Memory!Matching(store, NormalizeQuery(q)),
         IsSomeSeq(h), NEW offset \in Nat, NEW limit \in Int \ {0}
  PROVE  IsWindow(Memory!Find(store, q, offset, limit), h, Len(h), offset,
                  limit)
  <1>1. PICK T : h \in Seq(T)
    BY DEF IsSomeSeq
  <1>2. PICK n \in Nat : n = Len(h)
    BY <1>1
  <1>3. PICK b : b = offset + 1
    OBVIOUS
  <1>4. b \in Int /\ n \in Int /\ b >= 1
    BY <1>3
  <1>5. PICK rest : rest = SubSeq(h, b, n)
    OBVIOUS
  <1>6. /\ rest \in Seq(T)
        /\ Len(rest) = IF b <= n THEN n - b + 1 ELSE 0
        /\ \A i \in 1 .. n - b + 1 : rest[i] = h[b + i - 1]
    <2>1. \A i \in b .. n : h[i] \in T
      BY <1>1, <1>2, <1>4
    <2> QED BY <1>4, <1>5, <2>1, SubSeqProperties
  <1>7. PICK m \in Nat : m = Len(rest) /\ m = Rest(n, offset)
    BY <1>3, <1>6 DEF Rest
  <1>8. \A k \in 1 .. m : rest[k] = h[offset + k]
    <2>1. ASSUME NEW k \in 1 .. m
          PROVE  rest[k] = h[offset + k]
      <3>1. k \in 1 .. n - b + 1 /\ b + k - 1 = offset + k
        BY <1>3, <1>4, <1>6, <1>7
      <3>2. rest[k] = h[b + k - 1]
        BY <1>6, <3>1
      <3> QED BY <3>1, <3>2
    <2> QED BY <2>1
  <1>9. Memory!Find(store, q, offset, limit)
           = IF limit >= 0 /\ limit < m THEN SubSeq(rest, 1, limit) ELSE rest
    <2>1. ~(offset < 0)
      OBVIOUS
    <2>2. h = Memory!Matching(store, Memory!NormalizeQuery(q))
      BY QueryOperators
    <2> QED BY <1>2, <1>3, <1>5, <1>7, <2>1, <2>2 DEF Memory!Find
  <1>10. PICK found : found = Memory!Find(store, q, offset, limit)
    OBVIOUS
  <1>11. CASE limit > 0 /\ limit < m
    <2>1. found = SubSeq(rest, 1, limit)
      BY <1>9, <1>10, <1>11
    <2>2. /\ found \in Seq(T)
          /\ Len(found) = IF 1 <= limit THEN limit - 1 + 1 ELSE 0
          /\ \A i \in 1 .. limit - 1 + 1 : found[i] = rest[1 + i - 1]
      <3>1. \A i \in 1 .. limit : rest[i] \in T
        BY <1>6, <1>7, <1>11
      <3> QED BY <2>1, <3>1, SubSeqProperties
    <2>3. Len(found) = limit /\ limit - 1 + 1 = limit
      BY <1>11, <2>2
    <2>4. ASSUME NEW k \in 1 .. limit
          PROVE  found[k] = h[offset + k]
      <3>1. k \in 1 .. limit - 1 + 1 /\ 1 + k - 1 = k /\ k \in 1 .. m
        BY <1>11
      <3>2. found[k] = rest[k]
        BY <2>2, <3>1
      <3> QED BY <1>8, <3>1, <3>2
    <2>5. Size(n, offset, limit) = limit
      BY <1>7, <1>11 DEF Size
    <2> QED BY <1>2, <1>10, <2>2, <2>3, <2>4, <2>5 DEF IsWindow, IsSomeSeq
  <1>12. CASE ~(limit > 0 /\ limit < m)
    <2>1. found = rest
      BY <1>9, <1>10, <1>12
    <2>2. Size(n, offset, limit) = m
      BY <1>7, <1>12 DEF Size
    <2> QED BY <1>2, <1>6, <1>7, <1>8, <1>10, <2>1, <2>2 DEF IsWindow, IsSomeSeq
  <1> QED BY <1>11, <1>12

(* A window on what is selected, in the order asked for, is an answer. *)
Selecting(q, tbl) == {j \in DOMAIN tbl : Ent!SelectsAll(q.where, tbl[j])}

ListsInOrder(r, n, q, tbl) ==
    /\ {r[i] : i \in 1 .. n} = Selecting(q, tbl)
    /\ \A i, j \in 1 .. n : r[i] = r[j] => i = j
    /\ \A i, j \in 1 .. n :
          i <= j => ~Ent!Precedes(q.order, tbl[r[j]], tbl[r[i]])

LEMMA WindowIsAnswer ==
  ASSUME NEW q, NEW tbl, NEW r, NEW n \in Nat, ListsInOrder(r, n, q, tbl),
         q.offset \in Nat, q.limit \in Int, NEW s,
         IsWindow(s, r, n, q.offset, q.limit)
  PROVE  Ent!IsAnswer(q, tbl, s)
  <1>1. PICK hit : hit = Selecting(q, tbl)
    OBVIOUS
  <1>2. PICK offset \in Nat, limit \in Int :
           offset = q.offset /\ limit = q.limit
    OBVIOUS
  <1>3. PICK size \in Nat : size = Size(n, offset, limit)
    BY SizeFits
  <1>4. /\ DOMAIN s = 1 .. size /\ Len(s) = size
        /\ \A k \in 1 .. size : s[k] = r[offset + k]
    BY <1>2, <1>3, SeqFacts DEF IsWindow
  <1>5. \A k \in 1 .. size : offset + k \in 1 .. n /\ offset + k - 1 \in 0 .. n
    BY <1>3, SizeFits
  <1>6. \A i, j \in 1 .. n : r[i] = r[j] => i = j
    BY DEF ListsInOrder
  <1>7. \A i, j \in 1 .. n :
           i <= j => ~Ent!Precedes(q.order, tbl[r[j]], tbl[r[i]])
    BY DEF ListsInOrder
  <1>8. {r[i] : i \in 1 .. n} = hit
    BY <1>1 DEF ListsInOrder
  <1>9. \A m \in 0 .. n : /\ IsFiniteSet(Prefix(r, m))
                          /\ Cardinality(Prefix(r, m)) = m
    BY <1>6, PrefixCardinality
  <1>10. IsFiniteSet(hit) /\ Cardinality(hit) = n
    <2>1. n \in 0 .. n
      OBVIOUS
    <2>2. hit = Prefix(r, n)
      BY <1>8 DEF Prefix
    <2> QED BY <1>9, <2>1, <2>2
  <1> DEFINE Before(id) == {j \in hit : Ent!Precedes(q.order, tbl[j], tbl[id])}
             After(id) == {j \in hit : Ent!Precedes(q.order, tbl[id], tbl[j])}
  <1>11. ASSUME NEW k \in 1 .. size
         PROVE  /\ Cardinality(Before(s[k])) < offset + k
                /\ Cardinality(hit \ After(s[k])) >= offset + k
                /\ \A j \in 1 .. k - 1 : s[j] \notin After(s[k])
    <2>1. PICK c \in 1 .. n, d \in 0 .. n : c = offset + k /\ d = c - 1
      BY <1>5
    <2>2. s[k] = r[c]
      BY <1>4, <2>1
    <2>3. PICK B, A : B = Before(s[k]) /\ A = hit \ After(s[k])
      OBVIOUS
    <2>4. PICK Fore, Upto : Fore = Prefix(r, d) /\ Upto = Prefix(r, c)
      OBVIOUS
    <2>5. B \subseteq Fore
      <3>1. ASSUME NEW x \in B
            PROVE  x \in Fore
        <4>1. PICK i \in 1 .. n : x = r[i]
          BY <1>8, <2>3
        <4>2. Ent!Precedes(q.order, tbl[r[i]], tbl[r[c]])
          BY <2>2, <2>3, <4>1
        <4>3. ~(c <= i)
          BY <1>7, <4>2
        <4>4. i \in 1 .. d
          BY <2>1, <4>3
        <4> QED BY <2>4, <4>1, <4>4 DEF Prefix
      <3> QED BY <3>1
    <2>6. Upto \subseteq A
      <3>1. ASSUME NEW x \in Upto
            PROVE  x \in A
        <4>1. PICK i \in 1 .. c : x = r[i]
          BY <2>4 DEF Prefix
        <4>2. i \in 1 .. n /\ i <= c
          BY <4>1
        <4>3. ~Ent!Precedes(q.order, tbl[r[c]], tbl[r[i]])
          BY <1>7, <4>2
        <4>4. x \in hit
          BY <1>8, <4>1, <4>2
        <4> QED BY <2>2, <2>3, <4>1, <4>3, <4>4
      <3> QED BY <3>1
    <2>7. /\ IsFiniteSet(Fore) /\ Cardinality(Fore) = d
          /\ Cardinality(Upto) = c
      <3>1. c \in 0 .. n
        OBVIOUS
      <3> QED BY <1>9, <2>4, <3>1
    <2>8. IsFiniteSet(A)
      <3>1. A \subseteq hit
        BY <2>3
      <3> QED BY <1>10, <3>1, FS_Subset
    <2>9. Cardinality(B) <= d /\ IsFiniteSet(B)
      BY <2>5, <2>7, FS_Subset
    <2>10. c <= Cardinality(A)
      BY <2>6, <2>7, <2>8, FS_Subset
    <2>11. Cardinality(B) \in Nat /\ Cardinality(A) \in Nat
      BY <2>8, <2>9, FS_CardinalityType
    <2>12. ASSUME NEW j \in 1 .. k - 1
           PROVE  s[j] \notin After(s[k])
      <3>1. j \in 1 .. size /\ j < k
        BY <2>12
      <3>2. PICK i \in 1 .. n : i = offset + j
        BY <1>5, <3>1
      <3>3. i <= c
        BY <2>1, <3>1, <3>2
      <3>4. s[j] = r[i]
        BY <1>4, <3>1, <3>2
      <3> QED BY <1>7, <2>2, <3>3, <3>4
    <2>13. Cardinality(B) < offset + k /\ Cardinality(A) >= offset + k
      BY <2>1, <2>9, <2>10, <2>11
    <2> QED BY <2>3, <2>12, <2>13
  <1>12. Ent!ToSet(s) \subseteq hit
    <2>1. ASSUME NEW k \in 1 .. size
          PROVE  s[k] \in hit
      BY <1>4, <1>5, <1>8
    <2> QED BY <1>4, <2>1 DEF Ent!ToSet
  <1>13. Ent!IsInjective(s)
    <2>1. ASSUME NEW j \in 1 .. size, NEW k \in 1 .. size, s[j] = s[k]
          PROVE  j = k
      <3>1. PICK a \in 1 .. n, b \in 1 .. n : a = offset + j /\ b = offset + k
        BY <1>5
      <3>2. r[a] = r[b]
        BY <1>4, <2>1, <3>1
      <3>3. a = b
        BY <1>6, <3>2
      <3> QED BY <3>1, <3>3
    <2> QED BY <1>4, <2>1 DEF Ent!IsInjective
  <1>14. \A S : Ent!Cardinality(S) = Cardinality(S)
    BY EntCardinality
  <1>15. Len(s) = IF q.limit > 0
                     /\ q.limit < IF Ent!Cardinality(hit) > q.offset
                                  THEN Ent!Cardinality(hit) - q.offset ELSE 0
                  THEN q.limit
                  ELSE IF Ent!Cardinality(hit) > q.offset
                       THEN Ent!Cardinality(hit) - q.offset ELSE 0
    BY <1>2, <1>3, <1>4, <1>10, <1>14 DEF Size, Rest
  <1>16. \A k \in DOMAIN s :
            /\ Ent!Cardinality(Before(s[k])) < q.offset + k
            /\ Ent!Cardinality(hit \ After(s[k])) >= q.offset + k
            /\ \A j \in 1 .. k - 1 : s[j] \notin After(s[k])
    <2> HIDE DEF Before, After
    <2> QED BY <1>2, <1>4, <1>11, <1>14
  <1> HIDE DEF Before, After
  <1> QED BY <1>1, <1>12, <1>13, <1>15, <1>16
          DEF Ent!IsAnswer, Before, After, Selecting

-----------------------------------------------------------------------------
(* Find of one repository is what the other may answer with. *)
Ordered(store) ==
    \A j, k \in 1 .. Len(store) :
        j <= k => store[j].created_at <= store[k].created_at

CreatedOrder == <<Ent!Asc("created_at")>>

LEMMA PrecedesIsOlder ==
  ASSUME NEW r, NEW u
  PROVE  Ent!Precedes(CreatedOrder, r, u) => r["created_at"] < u["created_at"]
  <1>1. PICK o : o = CreatedOrder
    OBVIOUS
  <1>2. DOMAIN o = {1} /\ o[1].column = "created_at" /\ o[1].desc = FALSE
    BY <1>1 DEF CreatedOrder, Ent!Asc
  <1>3. ASSUME Ent!Precedes(o, r, u)
        PROVE  r["created_at"] < u["created_at"]
    BY <1>2, <1>3 DEF Ent!Precedes
  <1> QED BY <1>1, <1>3

(* What Find asks the table. *)
Asks(q, nq, offset, limit) ==
    /\ q.where = Ent!where(nq) /\ q.order = CreatedOrder
    /\ q.offset = offset /\ q.limit = limit

LEMMA FoundIsAnswer ==
  ASSUME NEW tbl, NEW q, NEW offset \in Int, NEW limit \in Int, NEW s
  PROVE  \E a : /\ Asks(a, NormalizeQuery(q), offset, limit)
                /\ Ent!IsFound(tbl, q, offset, limit, s)
                     <=> Ent!IsAnswer(a, tbl, s)
  <1>1. PICK w, o : w = Ent!where(NormalizeQuery(q)) /\ o = CreatedOrder
    OBVIOUS
  <1>2. PICK a : a = [where |-> w, order |-> o, offset |-> offset,
                      limit |-> limit]
    OBVIOUS
  <1>3. /\ a.where = w /\ a.order = o /\ a.offset = offset /\ a.limit = limit
        /\ a = [f \in {"where", "order", "offset", "limit"} |-> a[f]]
    BY <1>2
  <1>4. Ent!QuerySpec(a) = a
    <2>1. offset # None /\ limit # None
      BY DurationsAssumption
    <2>2. Ent!QuerySpec(a) = [a EXCEPT !.limit = limit, !.offset = offset]
      BY <1>3, <2>1 DEF Ent!QuerySpec
    <2> QED BY <1>3, <2>2
  <1>5. Ent!IsFound(tbl, q, offset, limit, s) <=> Ent!IsAll(a, tbl, s)
    BY <1>1, <1>2, QueryOperators DEF Ent!IsFound, CreatedOrder
  <1>6. Asks(a, NormalizeQuery(q), offset, limit)
    BY <1>1, <1>3 DEF Asks
  <1> QED BY <1>4, <1>5, <1>6 DEF Ent!IsAll

IsIdsOf(s, found) == s = [k \in DOMAIN found |-> found[k].id]

LEMMA TwinsFind ==
  ASSUME NEW store, NEW tbl, NEW parts, Twins(store, tbl, parts),
         \A id \in 1 .. Len(store) : parts[id] = {}, Ordered(store),
         NEW q, IsQuery(q), NEW offset \in Nat, NEW limit \in Int \ {0},
         NEW s, IsIdsOf(s, Memory!Find(store, q, offset, limit))
  PROVE  Ent!IsFound(tbl, q, offset, limit, s)
  <1>1. /\ IsSomeSeq(store) /\ Len(store) \in Nat
        /\ DOMAIN tbl \subseteq 1 .. Len(store)
        /\ \A id \in 1 .. Len(store) : TwinTask(tbl, store[id], {}, id)
    BY SeqFacts DEF Twins
  <1>2. ASSUME NEW id \in 1 .. Len(store)
        PROVE  /\ id \in DOMAIN tbl /\ store[id].id = id
               /\ IsRowOf(tbl[id], store[id])
    <2>1. Fields # {} /\ Fields \ {} = Fields
      BY FieldNames
    <2>2. /\ TaskOK(store[id], id) /\ id \in DOMAIN tbl
          /\ RowMeans(tbl[id], store[id], Fields)
      BY <1>1, <2>1 DEF TwinTask
    <2>3. store[id].id = id
      BY <2>2 DEF TaskOK
    <2> QED BY <2>2, <2>3 DEF IsRowOf
  <1>3. PICK nq : nq = NormalizeQuery(q)
    OBVIOUS
  <1>4. IsQuery(nq)
    BY <1>3, QueryNormalized
  <1>5. PICK h : h = Memory!Matching(store, nq)
    OBVIOUS
  <1>6. Hits(h, store, nq, Len(store))
    BY <1>1, <1>2, <1>5, MatchingHits
  <1>7. PICK n \in Nat : n = Len(h)
    BY <1>6, SeqFacts DEF Hits
  <1>8. PICK found : found = Memory!Find(store, q, offset, limit)
    OBVIOUS
  <1>9. IsWindow(found, h, n, offset, limit)
    <2>1. IsSomeSeq(h)
      BY <1>6 DEF Hits
    <2> QED BY <1>3, <1>5, <1>7, <1>8, <2>1, FindWindow
  <1>10. PICK r : r = [i \in 1 .. n |-> h[i].id]
    OBVIOUS
  <1>11. \A i \in 1 .. n : r[i] = h[i].id
    BY <1>10
  <1>12. IsWindow(s, r, n, offset, limit)
    <2>1. PICK size \in Nat : size = Size(n, offset, limit)
      BY SizeFits
    <2>2. /\ DOMAIN found = 1 .. size
          /\ \A k \in 1 .. size : found[k] = h[offset + k]
      BY <1>9, <2>1, SeqFacts DEF IsWindow
    <2>3. \A k \in 1 .. size : offset + k \in 1 .. n
      BY <2>1, SizeFits
    <2>4. s = [k \in 1 .. size |-> found[k].id]
      BY <1>8, <2>2 DEF IsIdsOf
    <2>5. s = [k \in 1 .. size |-> s[k]]
      BY <2>4
    <2>6. PICK T : T = {s[k] : k \in 1 .. size}
      OBVIOUS
    <2>7. s \in [1 .. size -> T]
      BY <2>5, <2>6
    <2>8. s \in Seq(T) /\ Len(s) = size
      BY <2>7
    <2>9. \A k \in 1 .. size : s[k] = r[offset + k]
      <3>1. ASSUME NEW k \in 1 .. size
            PROVE  s[k] = r[offset + k]
        <4>1. s[k] = found[k].id
          BY <2>4
        <4>2. PICK c \in 1 .. n : c = offset + k
          BY <2>3
        <4>3. found[k] = h[c]
          BY <2>2, <4>2
        <4> QED BY <1>11, <4>1, <4>2, <4>3
      <3> QED BY <3>1
    <2> QED BY <2>1, <2>8, <2>9 DEF IsWindow, IsSomeSeq
  <1>13. PICK a : /\ Asks(a, nq, offset, limit)
                  /\ Ent!IsFound(tbl, q, offset, limit, s)
                       <=> Ent!IsAnswer(a, tbl, s)
    <2>1. offset \in Int /\ limit \in Int
      OBVIOUS
    <2> QED BY <1>3, <2>1, FoundIsAnswer
  <1>14. Selecting(a, tbl)
            = {j \in 1 .. Len(store) : Memory!Match(nq, store[j])}
    <2>1. ASSUME NEW j \in 1 .. Len(store)
          PROVE  /\ j \in DOMAIN tbl
                 /\ Ent!SelectsAll(a.where, tbl[j])
                      <=> Memory!Match(nq, store[j])
      <3>1. Ent!SelectsAll(Ent!where(nq), tbl[j]) <=> Match(nq, store[j])
        BY <1>2, <1>4, WhereMatches
      <3>2. Match(nq, store[j]) <=> Memory!Match(nq, store[j])
        BY QueryOperators
      <3> QED BY <1>2, <1>13, <3>1, <3>2 DEF Asks
    <2> QED BY <1>1, <2>1 DEF Selecting
  <1>15. ASSUME NEW i \in 1 .. n
         PROVE  r[i] \in 1 .. Len(store)
    BY <1>6, <1>7, <1>11 DEF Hits
  <1>16. ASSUME NEW i \in 1 .. n, NEW j \in 1 .. n, i < j
         PROVE  r[i] < r[j]
    BY <1>6, <1>7, <1>11, <1>16 DEF Hits
  <1>17. \A i, j \in 1 .. n : r[i] = r[j] => i = j
    <2>1. ASSUME NEW i \in 1 .. n, NEW j \in 1 .. n, i # j
          PROVE  r[i] # r[j]
      <3>1. r[i] \in Int /\ r[j] \in Int
        BY <1>15
      <3>2. CASE i < j
        BY <1>16, <3>1, <3>2
      <3>3. CASE j < i
        BY <1>16, <3>1, <3>3
      <3> QED BY <2>1, <3>2, <3>3
    <2> QED BY <2>1
  <1>18. ASSUME NEW i \in 1 .. n, NEW j \in 1 .. n, i <= j
         PROVE  ~Ent!Precedes(a.order, tbl[r[j]], tbl[r[i]])
    <2>1. PICK x \in 1 .. Len(store), y \in 1 .. Len(store) :
             x = r[i] /\ y = r[j]
      BY <1>15
    <2>2. x <= y
      <3>1. CASE i < j
        BY <1>16, <2>1, <3>1
      <3>2. CASE i = j
        BY <2>1, <3>2
      <3> QED BY <1>18, <3>1, <3>2
    <2>3. store[x].created_at <= store[y].created_at
      BY <2>2 DEF Ordered
    <2>4. ASSUME NEW z \in 1 .. Len(store)
          PROVE  tbl[z]["created_at"] = store[z].created_at
      <3>1. ColumnIs(tbl[z], "created_at", store[z].created_at)
        BY <1>2, RowColumns DEF Times
      <3>2. store[z].created_at \in Int
        BY <1>1, TwinsTimed DEF Timed
      <3> QED BY <3>1, <3>2, DurationsAssumption DEF ColumnIs
    <2>5. store[x].created_at \in Int /\ store[y].created_at \in Int
      BY <1>1, TwinsTimed DEF Timed
    <2>6. ~(tbl[y]["created_at"] < tbl[x]["created_at"])
      BY <2>3, <2>4, <2>5
    <2>7. a.order = CreatedOrder
      BY <1>13 DEF Asks
    <2> QED BY <2>1, <2>6, <2>7, PrecedesIsOlder
  <1>19. {r[i] : i \in 1 .. n} = Selecting(a, tbl)
    <2>1. {h[i].id : i \in 1 .. n}
             = {j \in 1 .. Len(store) : Memory!Match(nq, store[j])}
      BY <1>6, <1>7 DEF Hits
    <2>2. {r[i] : i \in 1 .. n} = {h[i].id : i \in 1 .. n}
      BY <1>11
    <2> QED BY <1>14, <2>1, <2>2
  <1>20. ListsInOrder(r, n, a, tbl)
    BY <1>17, <1>18, <1>19 DEF ListsInOrder
  <1>21. a.offset = offset /\ a.limit = limit
    BY <1>13 DEF Asks
  <1>22. Ent!IsAnswer(a, tbl, s)
    BY <1>12, <1>20, <1>21, WindowIsAnswer
  <1> QED BY <1>13, <1>22

-----------------------------------------------------------------------------
(* Tasks are stored in the order they were created in, as the clock does   *)
(* not go back: what makes oldest first the order ORDER BY asks for.       *)
OrderInv ==
    /\ Ordered(memory)
    /\ \A k \in 1 .. Len(memory) : memory[k].created_at <= NormalizeTime(clock)

LEMMA TruncationIsMonotonic ==
  ASSUME NEW v \in Int, NEW w \in Int, v <= w
  PROVE  /\ NormalizeTime(v) \in Int /\ NormalizeTime(w) \in Int
         /\ NormalizeTime(v) <= NormalizeTime(w)
  BY DEF NormalizeTime, TicksPerMilli

LEMMA NowIsLater ==
  ASSUME clock \in Int, NEW now \in Nows
  PROVE  now \in Int /\ clock <= now
  BY DEF Nows, TicksPerMilli

(* No task is another time created. *)
KeepsCreated(new, old) ==
    /\ Len(new) = Len(old)
    /\ \A k \in 1 .. Len(old) : new[k].created_at = old[k].created_at

LEMMA OrderKept ==
  ASSUME TwinInv, OrderInv, KeepsCreated(memory', memory), clock' \in Int,
         clock <= clock'
  PROVE  OrderInv'
  <1>1. PICK old, new, now : old = memory /\ new = memory' /\ now = clock'
    OBVIOUS
  <1>2. /\ Ordered(old)
        /\ \A k \in 1 .. Len(old) : old[k].created_at <= NormalizeTime(clock)
    BY <1>1 DEF OrderInv
  <1>3. /\ Len(new) = Len(old)
        /\ \A k \in 1 .. Len(old) : new[k].created_at = old[k].created_at
    BY <1>1 DEF KeepsCreated
  <1>4. \A k \in 1 .. Len(old) : old[k].created_at \in Int
    BY <1>1, TwinsTimed DEF TwinInv, Timed
  <1>5. Ordered(new)
    BY <1>2, <1>3 DEF Ordered
  <1>6. /\ NormalizeTime(clock) \in Int /\ NormalizeTime(now) \in Int
        /\ NormalizeTime(clock) <= NormalizeTime(now)
    BY <1>1, TruncationIsMonotonic DEF TwinInv
  <1>7. \A k \in 1 .. Len(new) : new[k].created_at <= NormalizeTime(now)
    <2>1. PICK v \in Int, w \in Int :
             v = NormalizeTime(clock) /\ w = NormalizeTime(now)
      BY <1>6
    <2>2. v <= w /\ \A k \in 1 .. Len(old) : old[k].created_at <= v
      BY <1>2, <1>6, <2>1
    <2> QED BY <1>3, <1>4, <2>1, <2>2
  <1>8. /\ Ordered(memory')
        /\ \A k \in 1 .. Len(memory') :
              memory'[k].created_at <= NormalizeTime(clock')
    BY <1>1, <1>5, <1>7
  <1> QED BY <1>8 DEF OrderInv, Ordered, NormalizeTime, TicksPerMilli

LEMMA OutcomeKeeps ==
  ASSUME NEW store, IsSomeSeq(store), NEW m, NEW id, NEW s, NEW kind, NEW new,
         MemoryOutcome(m, store, id, s, kind, new),
         Known(store, id) => new["created_at"] = store[id]["created_at"]
  PROVE  KeepsCreated(m.store, store)
  <1>1. CASE Known(store, id) /\ store[id].state = s
    <2>1. PICK store2 : store2 = m.store
      OBVIOUS
    <2>2. Replaces(store2, store, id, new) /\ id \in 1 .. Len(store)
      BY <1>1, <2>1 DEF MemoryOutcome, Replaces, Known
    <2>3. /\ Len(store2) = Len(store) /\ store2[id] = new
          /\ \A j \in 1 .. Len(store) : j # id => store2[j] = store[j]
      BY <2>2, SeqExcept
    <2>4. new.created_at = store[id].created_at
      BY <1>1
    <2> QED BY <2>1, <2>3, <2>4 DEF KeepsCreated
  <1>2. CASE ~(Known(store, id) /\ store[id].state = s)
    <2>1. m.store = store
      BY <1>2 DEF MemoryOutcome
    <2> QED BY <2>1 DEF KeepsCreated
  <1> QED BY <1>1, <1>2

LEMMA StampsKeep ==
  ASSUME NEW store, NEW tbl, NEW parts, Twins(store, tbl, parts), NEW id,
         NEW now
  PROVE  /\ KeepsCreated(Memory!Cancel(store, id, now).store, store)
         /\ KeepsCreated(Memory!MarkAsDispatched(store, id, now).store, store)
         /\ \A r :
               KeepsCreated(Memory!MarkAsDone(store, id, now, r).store, store)
  <1>1. IsSomeSeq(store)
    BY DEF Twins
  <1>2. PICK t, v : t = store[id] /\ v = NormalizeTime(now)
    OBVIOUS
  <1>3. /\ "created_at" \in Fields
        /\ "created_at" \notin {"state", "err", "cancelled_at", "dispatched_at",
                                "done_at"}
    BY FieldNames
  <1>4. \A state, err, f : f # "created_at" =>
           Stamped(t, state, err, f, v)["created_at"] = t["created_at"]
    BY <1>3 DEF Stamped
  <1>5. PICK new : new = Stamped(t, "cancelled", t.err, "cancelled_at", v)
    OBVIOUS
  <1>6. PICK m : m = Memory!Cancel(store, id, now)
    OBVIOUS
  <1>7. MemoryOutcome(m, store, id, "scheduled", ErrKindUpdate(t), new)
    BY <1>2, <1>5, <1>6, MemoryStamps
  <1>8. KeepsCreated(m.store, store)
    <2>1. new["created_at"] = store[id]["created_at"]
      BY <1>2, <1>4, <1>5
    <2> QED BY <1>1, <1>7, <2>1, OutcomeKeeps
  <1>9. PICK new2, m2 :
           /\ new2 = Stamped(t, "dispatched", t.err, "dispatched_at", v)
           /\ m2 = Memory!MarkAsDispatched(store, id, now)
    OBVIOUS
  <1>10. KeepsCreated(m2.store, store)
    <2>1. new2["created_at"] = store[id]["created_at"]
      BY <1>2, <1>4, <1>9
    <2>2. MemoryOutcome(m2, store, id, "scheduled", ErrKindUpdate(t), new2)
      BY <1>2, <1>9, MemoryStamps
    <2> QED BY <1>1, <2>1, <2>2, OutcomeKeeps
  <1>11. ASSUME NEW r
         PROVE  KeepsCreated(Memory!MarkAsDone(store, id, now, r).store, store)
    <2>1. PICK s, new3, m3 :
             /\ s = IF r = "" THEN "done" ELSE "err"
             /\ new3 = Stamped(t, s, r, "done_at", v)
             /\ m3 = Memory!MarkAsDone(store, id, now, r)
      OBVIOUS
    <2>2. new3["created_at"] = store[id]["created_at"]
      <3>1. "done_at" # "created_at"
        OBVIOUS
      <3>2. Stamped(t, s, r, "done_at", v)["created_at"] = t["created_at"]
        BY <1>4, <3>1
      <3>3. new3 = Stamped(t, s, r, "done_at", v)
        BY <2>1, Zenon
      <3> QED BY <1>2, <3>2, <3>3, Zenon
    <2>3. MemoryOutcome(m3, store, id, "dispatched", ErrKindMarkAsDone(t), new3)
      BY <1>2, <2>1, MemoryStamps
    <2>4. KeepsCreated(m3.store, store)
      BY <1>1, <2>2, <2>3, OutcomeKeeps
    <2> QED BY <2>1, <2>4
  <1> QED BY <1>6, <1>8, <1>9, <1>10, <1>11

LEMMA CreatedKept ==
  ASSUME NEW t, NEW id, TaskOK(t, id), NEW p
  PROVE  Update(t, p)["created_at"] = t["created_at"]
  <1>1. "created_at" \in Fields /\ "created_at" \in Times
        /\ "created_at" \notin Updatable
    BY FieldNames DEF Times, Updatable
  <1>2. Update(t, p)["created_at"] = NormalizeOption(t["created_at"])
    BY <1>1, UpdateFields DEF Updated
  <1> QED BY <1>1, <1>2 DEF TaskOK

LEMMA UpdateKeeps ==
  ASSUME NEW store, NEW tbl, NEW parts, Twins(store, tbl, parts), NEW id,
         NEW p, IsParam(p)
  PROVE  KeepsCreated(Memory!UpdateById(store, id, p).store, store)
  <1>1. PICK m, t, new : /\ m = Memory!UpdateById(store, id, p)
                         /\ t = store[id] /\ new = Update(t, p)
    OBVIOUS
  <1>2. MemoryOutcome(m, store, id, "scheduled", ErrKindUpdate(t), new)
    BY <1>1, MemoryUpdates
  <1>3. Known(store, id) => new["created_at"] = store[id]["created_at"]
    <2>1. Known(store, id) => TaskOK(t, id)
      BY <1>1 DEF Twins, TwinTask, Known
    <2> QED BY <1>1, <2>1, CreatedKept
  <1>4. IsSomeSeq(store)
    BY DEF Twins
  <1> QED BY <1>1, <1>2, <1>3, <1>4, OutcomeKeeps

LEMMA CreatedNow ==
  ASSUME NEW p, NEW id, NEW now \in Int
  PROVE  ToTask(p, id, now)["created_at"] = NormalizeTime(now)
  <1>1. PICK t : t = NewTask(id, now)
    OBVIOUS
  <1>2. t["created_at"] = NormalizeTime(now)
    BY <1>1, NewTaskFields
  <1>3. "created_at" \in Fields /\ "created_at" \in Times
        /\ "created_at" \notin Updatable
    BY FieldNames DEF Times, Updatable
  <1>4. ToTask(p, id, now) = Update(t, p)
    BY <1>1 DEF ToTask, NewTask
  <1>5. Update(t, p)["created_at"] = NormalizeOption(t["created_at"])
    BY <1>3, UpdateFields DEF Updated
  <1>6. NormalizeOption(NormalizeTime(now)) = NormalizeTime(now)
    <2>1. /\ NormalizeTime(now) \in Int
          /\ NormalizeTime(NormalizeTime(now)) = NormalizeTime(now)
      <3>1. now \in Int \cup {None}
        OBVIOUS
      <3> QED BY <3>1, Truncated
    <2>2. PICK v \in Int : v = NormalizeTime(now) /\ NormalizeTime(v) = v
      BY <2>1, Zenon
    <2>3. NormalizeOption(v) = NormalizeTime(v)
      <3>1. v \in Int \cup {None}
        OBVIOUS
      <3> QED BY <3>1, Truncated
    <2> QED BY <2>2, <2>3
  <1> QED BY <1>2, <1>4, <1>5, <1>6

LEMMA OrderAppended ==
  ASSUME TwinInv, OrderInv, clock' \in Int, clock <= clock', NEW t,
         t["created_at"] = NormalizeTime(clock'), memory' = Append(memory, t)
  PROVE  OrderInv'
  <1>1. PICK old, new, now : old = memory /\ new = memory' /\ now = clock'
    OBVIOUS
  <1>2. PICK v \in Int, w \in Int :
           v = NormalizeTime(clock) /\ w = NormalizeTime(now) /\ v <= w
    BY <1>1, TruncationIsMonotonic DEF TwinInv
  <1>3. Ordered(old) /\ \A k \in 1 .. Len(old) : old[k].created_at <= v
    BY <1>1, <1>2 DEF OrderInv
  <1>4. \A k \in 1 .. Len(old) : old[k].created_at \in Int
    BY <1>1, TwinsTimed DEF TwinInv, Timed
  <1>5. PICK n \in Nat, z \in Nat : n = Len(old) /\ z = n + 1
    <2>1. Len(old) \in Nat
      BY <1>1, InvTasks
    <2> QED BY <2>1
  <1>6. /\ Len(new) = z /\ new[z] = t
        /\ \A k \in 1 .. n : new[k] = old[k]
    <2>1. PICK T : old \in Seq(T)
      BY <1>1 DEF TwinInv, Twins, IsSomeSeq
    <2>2. PICK U : U = T \cup {t}
      OBVIOUS
    <2>3. old \in Seq(U) /\ t \in U /\ new = Append(old, t)
      BY <1>1, <2>1, <2>2
    <2> QED BY <1>5, <2>3, AppendProperties
  <1>7. \A k \in 1 .. z : k = z \/ k \in 1 .. n
    BY <1>5
  <1>8. new[z].created_at = w
    BY <1>1, <1>2, <1>6
  <1>9. \A k \in 1 .. z : new[k].created_at \in Int /\ new[k].created_at <= w
    BY <1>2, <1>3, <1>4, <1>5, <1>6, <1>7, <1>8
  <1>10. ASSUME NEW j \in 1 .. z, NEW k \in 1 .. z, j <= k
         PROVE  new[j].created_at <= new[k].created_at
    <2>1. CASE k = z
      BY <1>8, <1>9, <2>1
    <2>2. CASE k # z
      <3>1. j \in 1 .. n /\ k \in 1 .. n
        BY <1>5, <1>10, <2>2
      <3> QED BY <1>3, <1>5, <1>6, <1>10, <3>1 DEF Ordered
    <2> QED BY <2>1, <2>2
  <1>11. /\ Ordered(memory')
        /\ \A k \in 1 .. Len(memory') :
              memory'[k].created_at <= NormalizeTime(clock')
    BY <1>1, <1>2, <1>6, <1>9, <1>10 DEF Ordered
  <1> QED BY <1>11 DEF OrderInv, Ordered, NormalizeTime, TicksPerMilli

LEMMA OrderHeld ==
  ASSUME TwinInv, OrderInv, memory' = memory, clock' \in Int, clock <= clock'
  PROVE  OrderInv'
  <1>1. KeepsCreated(memory', memory)
    BY DEF KeepsCreated
  <1> QED BY <1>1, OrderKept

LEMMA OrderAdds ==
  ASSUME TwinInv, OrderInv, AddTask
  PROVE  OrderInv'
  <1>1. PICK c \in Asked("AddTask"), now \in Nows :
           /\ clock' = now /\ now \in Int
           /\ \/ AddFails("label")
              \/ AddFails("panic")
              \/ \E q \in Apply(Load(MetaOf(c.param)), now, c.param) :
                    AddToBoth(now, q) /\ IsParam(q)
    BY AddCases
  <1>2. clock' \in Int /\ clock <= clock'
    BY <1>1, NowIsLater DEF TwinInv
  <1>3. CASE memory' = memory
    BY <1>2, <1>3, OrderHeld
  <1>4. CASE \E q : AddToBoth(now, q) /\ IsParam(q)
    <2>1. PICK q : AddToBoth(now, q) /\ IsParam(q)
      BY <1>4
    <2>2. PICK id, t : id = Len(memory) + 1 /\ t = ToTask(q, id, now)
      OBVIOUS
    <2>3. \/ memory' = memory
          \/ memory' = Append(memory, t)
      BY <1>1, <2>1, <2>2, AddToBothTwins
    <2>4. CASE memory' = Append(memory, t)
      <3>1. t["created_at"] = NormalizeTime(clock')
        BY <1>1, <2>2, CreatedNow
      <3> QED BY <1>2, <2>4, <3>1, OrderAppended
    <2> QED BY <1>3, <2>3, <2>4
  <1>5. memory' = memory \/ \E q : AddToBoth(now, q) /\ IsParam(q)
    BY <1>1 DEF AddFails, stores
  <1> QED BY <1>3, <1>4, <1>5

LEMMA OrderUpdates ==
  ASSUME TwinInv, OrderInv, UpdateById
  PROVE  OrderInv'
  <1>1. PICK c \in Asked("UpdateById") :
           /\ memory' = Memory!UpdateById(memory, c.id, c.param).store
           /\ clock' = clock
    BY DEF UpdateById, Answered
  <1>2. IsParam(c.param)
    BY InvTasks, AskedOK DEF TwinInv, CallOK
  <1>3. KeepsCreated(memory', memory)
    <2>1. PICK id, p, store : id = c.id /\ p = c.param /\ store = memory
      OBVIOUS
    <2>2. Twins(store, table, parted) /\ IsParam(p)
      BY <1>2, <2>1 DEF TwinInv
    <2>3. KeepsCreated(Memory!UpdateById(store, id, p).store, store)
      BY <2>2, UpdateKeeps
    <2> QED BY <1>1, <2>1, <2>3
  <1>4. clock' \in Int /\ clock <= clock'
    BY <1>1 DEF TwinInv
  <1> QED BY <1>3, <1>4, OrderKept

LEMMA OrderStamps ==
  ASSUME TwinInv, OrderInv, Cancel \/ MarkAsDispatched \/ MarkAsDone
  PROVE  OrderInv'
  <1>1. \E now \in Nows : \E id, r :
           /\ clock' = now
           /\ \/ memory' = Memory!Cancel(memory, id, now).store
              \/ memory' = Memory!MarkAsDispatched(memory, id, now).store
              \/ memory' = Memory!MarkAsDone(memory, id, now, r).store
    <2>1. CASE Cancel
      <3>1. PICK c \in Asked("Cancel"), now \in Nows :
               /\ clock' = now
               /\ memory' = Memory!Cancel(memory, c.id, now).store
        BY <2>1 DEF Cancel, Stamps, Answered
      <3> QED BY <3>1
    <2>2. CASE MarkAsDispatched
      <3>1. PICK c \in Asked("MarkAsDispatched"), now \in Nows :
               /\ clock' = now
               /\ memory' = Memory!MarkAsDispatched(memory, c.id, now).store
        BY <2>2 DEF MarkAsDispatched, Stamps, Answered
      <3> QED BY <3>1
    <2>3. CASE MarkAsDone
      <3>1. PICK c \in Asked("MarkAsDone"), now \in Nows :
               /\ clock' = now
               /\ memory' = Memory!MarkAsDone(memory, c.id, now, c.result).store
        BY <2>3 DEF MarkAsDone, Stamps, Answered
      <3> QED BY <3>1
    <2> QED BY <2>1, <2>2, <2>3
  <1>2. PICK now \in Nows : \E id, r :
           /\ clock' = now
           /\ \/ memory' = Memory!Cancel(memory, id, now).store
              \/ memory' = Memory!MarkAsDispatched(memory, id, now).store
              \/ memory' = Memory!MarkAsDone(memory, id, now, r).store
    BY <1>1
  <1>3. PICK id, r :
           /\ clock' = now
           /\ \/ memory' = Memory!Cancel(memory, id, now).store
              \/ memory' = Memory!MarkAsDispatched(memory, id, now).store
              \/ memory' = Memory!MarkAsDone(memory, id, now, r).store
    BY <1>2
  <1>4. clock' \in Int /\ clock <= clock'
    BY <1>3, NowIsLater DEF TwinInv
  <1>5. KeepsCreated(memory', memory)
    <2>1. PICK store : store = memory
      OBVIOUS
    <2>2. Twins(store, table, parted)
      BY <2>1 DEF TwinInv
    <2>3. /\ KeepsCreated(Memory!Cancel(store, id, now).store, store)
          /\ KeepsCreated(Memory!MarkAsDispatched(store, id, now).store, store)
          /\ KeepsCreated(Memory!MarkAsDone(store, id, now, r).store, store)
      BY <2>2, StampsKeep
    <2> QED BY <1>3, <2>1, <2>3
  <1> QED BY <1>4, <1>5, OrderKept

LEMMA OrderRepairs ==
  ASSUME TwinInv, OrderInv, RevertDispatched \/ CancelDispatched \/ DeleteEnded
  PROVE  OrderInv'
  <1>1. /\ memory' = memory
        /\ clock' = clock \/ \E now \in Nows : clock' = now
    BY DEF RevertDispatched, CancelDispatched, DeleteEnded, Repairs
  <1>2. clock' \in Int /\ clock <= clock'
    BY <1>1, NowIsLater DEF TwinInv
  <1> QED BY <1>1, <1>2, OrderHeld

LEMMA NextInOrder ==
  ASSUME TwinInv, OrderInv, [Next]_vars
  PROVE  OrderInv'
  <1>1. CASE AddTask
    BY <1>1, OrderAdds
  <1>2. CASE UpdateById
    BY <1>2, OrderUpdates
  <1>3. CASE Cancel \/ MarkAsDispatched \/ MarkAsDone
    BY <1>3, OrderStamps
  <1>4. CASE RevertDispatched \/ CancelDispatched \/ DeleteEnded
    BY <1>4, OrderRepairs
  <1>5. CASE CallerWrites \/ Read \/ UNCHANGED vars
    <2>1. memory' = memory /\ clock' = clock
      BY <1>5 DEF CallerWrites, Read, stores, vars
    <2>2. clock' \in Int /\ clock <= clock'
      BY <2>1 DEF TwinInv
    <2> QED BY <2>1, <2>2, OrderHeld
  <1> QED BY <1>1, <1>2, <1>3, <1>4, <1>5 DEF Next

LEMMA InitInOrder ==
  ASSUME Init
  PROVE  OrderInv
  <1>1. PICK store : store = memory
    OBVIOUS
  <1>2. store = <<>>
    BY <1>1 DEF Init
  <1>3. 1 .. Len(store) = {}
    BY <1>2
  <1>4. \A v : Ordered(store) /\ \A k \in 1 .. Len(store) : store[k].created_at <= v
    BY <1>3 DEF Ordered
  <1>5. OrderInv <=> /\ Ordered(store)
                     /\ \A k \in 1 .. Len(store) :
                          store[k].created_at <= NormalizeTime(clock)
    BY <1>1 DEF OrderInv
  <1> QED BY <1>4, <1>5

LEMMA OrderAlways == Spec => []OrderInv
  <1>1. Init => OrderInv
    BY InitInOrder
  <1>2. TwinInv /\ OrderInv /\ [Next]_vars => OrderInv'
    BY NextInOrder
  <1> QED BY <1>1, <1>2, TwinsAlways, PTL DEF Spec

(* What FindsAgree asks of a query, an offset and a limit, whichever.      *)
Finds(q, offset, limit) ==
    Ent!IsFound(table, q, offset, limit, FoundIds(q, offset, limit))

LEMMA FindsHold ==
  ASSUME TwinInv, OrderInv, Agreeing = Ids, NEW q, IsQuery(q),
         NEW offset \in Nat, NEW limit \in Int \ {0}
  PROVE  Finds(q, offset, limit)
  <1>1. PICK store, tbl, parts, s :
           /\ store = memory /\ tbl = table /\ parts = parted
           /\ s = FoundIds(q, offset, limit)
    OBVIOUS
  <1>2. Twins(store, tbl, parts) /\ Ordered(store)
    BY <1>1 DEF TwinInv, OrderInv
  <1>3. \A id \in 1 .. Len(store) : parts[id] = {}
    BY <1>1 DEF Agreeing, Ids
  <1>4. PICK found : found = Memory!Find(store, q, offset, limit)
    OBVIOUS
  <1>5. IsIdsOf(s, found)
    <2>1. s = [k \in DOMAIN found |-> found[k].id]
      BY <1>1, <1>4 DEF FoundIds
    <2> QED BY <2>1 DEF IsIdsOf
  <1>6. IsIdsOf(s, Memory!Find(store, q, offset, limit))
    BY <1>4, <1>5
  <1>7. Ent!IsFound(tbl, q, offset, limit, s)
    BY <1>2, <1>3, <1>6, TwinsFind
  <1> QED BY <1>1, <1>7 DEF Finds

LEMMA ReadsHold ==
  ASSUME TwinInv, OrderInv
  PROVE  ReadsAgree
  <1>1. ASSUME Agreeing = Ids
        PROVE  FindsAgree
    <2>1. ASSUME NEW q \in Queries, NEW offset \in 0 .. 1, NEW limit \in {-1, 1}
          PROVE  Ent!IsFound(table, q, offset, limit, FoundIds(q, offset, limit))
      <3>1. IsQuery(q)
        BY TwinAssumption
      <3>2. offset \in Nat /\ limit \in Int \ {0}
        OBVIOUS
      <3>3. Finds(q, offset, limit)
        BY <1>1, <3>1, <3>2, FindsHold
      <3> QED BY <3>3 DEF Finds
    <2> QED BY <2>1 DEF FindsAgree
  <1>2. Agreeing = Ids => NextAgrees
    BY NextsHold
  <1> QED BY <1>1, <1>2 DEF ReadsAgree

-----------------------------------------------------------------------------
(* The columns mean the struct: whatever parameters were set, cleared, nil, *)
(* or not truncated yet, and whatever the statements in between matched,   *)
(* the row of a task read back is the task the in-memory repository holds, *)
(* but for the fields the two are known to have parted in.                 *)
THEOREM RowsAgree == Spec => []SameRows
  <1>1. TwinInv => SameRows
    BY SameRowsHold
  <1> QED BY <1>1, TwinsAlways, PTL

(* The guard of a task that is looked up first and the WHERE clause of an  *)
(* UPDATE accept the same calls, and the error read off the task is the    *)
(* one read off the row selected after nothing was updated.                *)
THEOREM ErrorsAgree == Spec => []AnswersAgree
  BY TwinsAlways, PTL

(* RandomizeScheduledAt with any two labels, of whatever sign and order:   *)
(* what AddTask stores is scheduled between them, and it panics only for   *)
(* equal ones, as long as a duration can hold their difference.            *)
THEOREM ShiftInRange == Spec => []ShiftStaysInRange
  <1>1. Init => ShiftStaysInRange
    BY InitShifts
  <1>2. TwinInv /\ ShiftStaysInRange /\ [Next]_vars => ShiftStaysInRange'
    BY NextShifts
  <1> QED BY <1>1, <1>2, TwinsAlways, PTL DEF Spec

(* Matchers over structs and WHERE over columns select the same tasks, the *)
(* order tasks were stored in is the one ORDER BY created_at asks for, a   *)
(* limit and an offset leave the same of them; and the root of the heap,   *)
(* which insertion breaks the ties of, is a row that ORDER BY scheduled_at, *)
(* priority DESC, created_at may put first.                                *)
THEOREM FindAndNextAgree == Spec => []ReadsAgree
  <1>1. TwinInv /\ OrderInv => ReadsAgree
    BY ReadsHold
  <1> QED BY <1>1, TwinsAlways, OrderAlways, PTL

(* The same of Find for every query of matchers, not only those a run      *)
(* lists, any offset, and any limit but 0, which only the table takes for  *)
(* no limit.                                                               *)
THEOREM EveryFindAgrees ==
  Spec => [](Agreeing = Ids =>
                \A q, offset, limit :
                   IsQuery(q) /\ offset \in Nat /\ limit \in Int \ {0} =>
                      Finds(q, offset, limit))
  <1>1. TwinInv /\ OrderInv =>
           (Agreeing = Ids =>
              \A q, offset, limit :
                 IsQuery(q) /\ offset \in Nat /\ limit \in Int \ {0} =>
                    Finds(q, offset, limit))
    <2>1. ASSUME TwinInv, OrderInv, Agreeing = Ids, NEW q, NEW offset, NEW limit,
                 IsQuery(q), offset \in Nat, limit \in Int \ {0}
          PROVE  Finds(q, offset, limit)
      BY <2>1, FindsHold
    <2> QED BY <2>1
  <1> QED BY <1>1, TwinsAlways, OrderAlways, PTL
=============================================================================
