--------------------------- MODULE TwinRepositories -------------------------
(***************************************************************************)
(* The two implementations of def.Repository side by side: every call is   *)
(* made to both, with the same clock and the same ids, behind a            *)
(* ParamMutatingRepository.  What one stores and answers is what the other *)
(* has to store and answer, down to the columns.                           *)
(*                                                                         *)
(* A behaviour makes either calls of CallsOn in any order, or the calls of *)
(* one script, whose expectations come from the acceptance tests.          *)
(***************************************************************************)
EXTENDS Mutators

CONSTANTS
    Null,
    Scripts,       (* the scripts                                          *)
    AddParams,     (* out of script: the parameters AddTask is called with, *)
                   (* a set for the first task, one for the second, ...    *)
    UpdateParams,  (* those UpdateById is called with                      *)
    Queries,       (* the queries both have to find the same tasks for     *)
    MaxCalls,      (* bound: calls out of script                           *)
    MaxClock       (* bound: the clock out of script                       *)

VARIABLES
    memory,     (* InMemoryRepository: its tasks, oldest first             *)
    table,      (* EntRepository: the rows                                 *)
    defaults,   (* task.DefaultParam and task.DefaultMeta                  *)
    handed,     (* the defaults a caller got hold of                       *)
    clock,      (* what mockable.Clock last answered                       *)
    parted,     (* history: by id, the fields the two may differ in        *)
    step,       (* the last call, and what is expected of its answers      *)
    said,       (* those answers                                           *)
    script,     (* the steps to come, None: any                            *)
    left        (* how many, out of script                                 *)

stores == <<memory, table>>
vars == <<memory, table, defaults, handed, clock, parted, step, said, script,
          left>>

Memory == INSTANCE MemoryStore
Ent == INSTANCE EntStore

(* What the parameters of a call are made of. *)
IsParam(p) ==
    /\ DOMAIN p \subseteq Updatable
    /\ "priority" \in DOMAIN p => p.priority \in Int
    /\ "scheduled_at" \in DOMAIN p => p.scheduled_at \in Int
    /\ "deadline" \in DOMAIN p => p.deadline \in Int \cup {None}
    /\ \A f \in ({"work_id"} \cup Maps) \cap DOMAIN p : p[f] # Null

(* What a query is made of: matchers, those of a map in a list.            *)
IsQuery(q) ==
    /\ DOMAIN q \subseteq Fields
    /\ \A f \in Maps \cap DOMAIN q : q[f] \in Seq(Range(q[f]))

Steps == UNION {Range(s) : s \in Scripts}

(* What a task is done with, out of script. *)
Results == {"", "failed"}

ASSUME TwinAssumption ==
    /\ Null \notin Int \cup States \cup Results \cup {Nil, EmptyMap}
    /\ Nil \notin Int \cup {EmptyMap}
    /\ AddParams \in Seq(Range(AddParams))
    /\ \A k \in DOMAIN AddParams : \A p \in AddParams[k] : IsParam(p)
    /\ \A p \in UpdateParams : IsParam(p)
    /\ \A q \in Queries : IsQuery(q)
    /\ Scripts \subseteq Seq(Steps)
    /\ \A s \in Steps :
          /\ s.call.op \in {"AddTask", "UpdateById"} => IsParam(s.call.param)
          /\ s.call.op = "MarkAsDone" => s.call.result # Null

NoStep == [call |-> [op |-> "none"], expect |-> [err |-> ""]]

Init ==
    /\ memory = <<>>
    /\ table = [id \in {} |-> ZeroTask]
    /\ defaults = [f \in Maps |-> EmptyMap]
    /\ handed = {}
    /\ clock = TicksPerMilli
    /\ parted = <<>>
    /\ step = NoStep
    /\ said = [memory |-> "", ent |-> ""]
    /\ script \in Scripts \cup {None}
    /\ left = IF script = None THEN MaxCalls ELSE 0

Ids == 1 .. Len(memory)
Agreeing == {id \in Ids : parted[id] = {}}

-----------------------------------------------------------------------------
CallsOn(id) ==
    {[op |-> "UpdateById", id |-> id, param |-> p] : p \in UpdateParams}
    \cup {[op |-> op, id |-> id] : op \in {"Cancel", "MarkAsDispatched"}}
    \cup {[op |-> "MarkAsDone", id |-> id, result |-> r] : r \in Results}

(* Bound: a task the two have wholly parted in is left alone. *)
FreeCalls ==
    (UNION {CallsOn(id) :
               id \in {NeverExistentId} \cup {id \in Ids : parted[id] # Fields}})
    \cup {[op |-> "AddTask", param |-> p] :
            p \in IF Len(memory) < Len(AddParams)
                  THEN AddParams[Len(memory) + 1] ELSE {}}
    \cup {[op |-> op] : op \in {"RevertDispatched", "CancelDispatched",
                                "DeleteEnded"}}

(* The calls that may be made now, of this operation.                      *)
Asked(op) ==
    {c \in IF script = None THEN IF left = 0 THEN {} ELSE FreeCalls
           ELSE IF script = <<>> THEN {} ELSE {Head(script).call} : c.op = op}

Goes(call) ==
    IF script = None
    THEN script' = None /\ left' = left - 1 /\ step' = [NoStep EXCEPT !.call = call]
    ELSE script' = Tail(script) /\ left' = 0 /\ step' = Head(script)

(* What clock.Now() answers; both repositories read it once, together.  In *)
(* a script no two calls are within a millisecond.                         *)
Nows ==
    IF script = None THEN {now \in {clock, clock + 1} : now <= MaxClock}
    ELSE {clock + TicksPerMilli + 1}

-----------------------------------------------------------------------------
(* Both answered.  Where they part once, later calls may part them further. *)
Answered(m, e) ==
    /\ memory' = m.store
    /\ table' = e.store
    /\ said' = [memory |-> m.err, ent |-> e.err]

AddToBoth(now, p) ==
    LET id == Len(memory) + 1
        m == Memory!AddTask(memory, id, now, p)
        scribbled == {f \in Ent!SharedMaps(p) : defaults[f] # EmptyMap}
    IN  /\ Answered(m, Ent!AddTask(table, defaults, id, now, p))
        /\ parted' = IF m.err = "" THEN Append(parted, scribbled) ELSE parted
        /\ handed' = IF m.err = "" THEN handed \cup Ent!SharedMaps(p) ELSE handed

(* ParamMutatingRepository.AddTask: Load, Apply, AddTask; it may panic.    *)
AddTask ==
    /\ \E c \in Asked("AddTask"), now \in Nows :
          LET mutators == Load(MetaOf(c.param))
              params == IF mutators = None THEN {} ELSE Apply(mutators, now, c.param)
              Fails(how) == /\ said' = [memory |-> how, ent |-> how]
                            /\ UNCHANGED <<stores, parted, handed>>
          IN  /\ Goes(c)
              /\ clock' = now
              /\ IF mutators = None THEN Fails("label")
                 ELSE IF params = {} THEN Fails("panic")
                 ELSE \E p \in params : AddToBoth(now, p)
    /\ UNCHANGED defaults

PartedBy(id, refused) ==
    parted' = IF id \in Ids /\ (parted[id] # {} \/ refused)
              THEN [parted EXCEPT ![id] = Fields] ELSE parted

UpdateById ==
    /\ \E c \in Asked("UpdateById") :
          LET m == Memory!UpdateById(memory, c.id, c.param)
              e == Ent!UpdateById(table, c.id, c.param)
          IN  /\ Goes(c)
              /\ Answered(m, e)
              /\ PartedBy(c.id, m.err = "" /\ e.err = "invalid_task")
    /\ UNCHANGED <<defaults, handed, clock>>

(* An operation that stamps the task with the time it is called at.        *)
Stamps(op, InMemory(_, _), InEnt(_, _)) ==
    /\ \E c \in Asked(op), now \in Nows :
          /\ Goes(c)
          /\ clock' = now
          /\ Answered(InMemory(c, now), InEnt(c, now))
          /\ PartedBy(c.id, FALSE)
    /\ UNCHANGED <<defaults, handed>>

Cancel ==
    Stamps("Cancel", LAMBDA c, now : Memory!Cancel(memory, c.id, now),
                     LAMBDA c, now : Ent!Cancel(table, c.id, now))

MarkAsDispatched ==
    Stamps("MarkAsDispatched",
           LAMBDA c, now : Memory!MarkAsDispatched(memory, c.id, now),
           LAMBDA c, now : Ent!MarkAsDispatched(table, c.id, now))

MarkAsDone ==
    Stamps("MarkAsDone",
           LAMBDA c, now : Memory!MarkAsDone(memory, c.id, now, c.result),
           LAMBDA c, now : Ent!MarkAsDone(table, c.id, now, c.result))

-----------------------------------------------------------------------------
(* What only EntRepository has.  The tasks it is for part by what the      *)
(* operation changes.                                                      *)
Repairs(op, e, states, fields) ==
    /\ \E c \in Asked(op) : Goes(c)
    /\ table' = e.store
    /\ said' = [memory |-> e.err, ent |-> e.err]
    /\ parted' = [id \in Ids |->
                    IF parted[id] # {} THEN Fields
                    ELSE IF memory[id].state \in states THEN fields ELSE {}]
    /\ UNCHANGED <<memory, defaults, handed>>

RevertDispatched ==
    /\ Repairs("RevertDispatched", Ent!RevertDispatched(table),
               {"dispatched"}, {"state"})
    /\ UNCHANGED clock

CancelDispatched ==
    \E now \in Nows :
        /\ clock' = now
        /\ Repairs("CancelDispatched", Ent!CancelDispatched(table, now),
                   {"dispatched"}, {"state", "cancelled_at"})

DeleteEnded ==
    /\ Repairs("DeleteEnded", Ent!DeleteEnded(table),
               {"cancelled", "done", "err"}, Fields)
    /\ UNCHANGED clock

(* A caller writes to a map of the task AddTask answered it with.          *)
CallerWrites ==
    /\ script = None /\ left > 0
    /\ \E f \in handed :
          /\ defaults[f] = EmptyMap
          /\ defaults' = [defaults EXCEPT ![f] = "scribble" :> <<>>]
    /\ step' = NoStep
    /\ said' = [memory |-> "", ent |-> ""]
    /\ left' = left - 1
    /\ UNCHANGED <<stores, handed, clock, parted, script>>

(* A script reads: nothing changes, AsAccepted looks at the answers.       *)
Read ==
    /\ \/ \E c \in Asked("GetById") :
             /\ Goes(c)
             /\ said' = [memory |-> IF Memory!Has(memory, c.id) THEN ""
                                    ELSE "id_not_found",
                         ent |-> IF Ent!Get(table, c.id) THEN ""
                                 ELSE "id_not_found"]
       \/ \E c \in Asked("GetNext") :
             /\ Goes(c)
             /\ said' = [memory |-> IF Memory!GetNext(memory) # 0 THEN ""
                                    ELSE "exhausted",
                         ent |-> IF Ent!Nexts(table) # {} THEN ""
                                 ELSE "exhausted"]
       \/ \E c \in Asked("Find") :
             /\ Goes(c)
             /\ said' = [memory |-> "", ent |-> ""]
    /\ UNCHANGED <<stores, defaults, handed, clock, parted>>

Next ==
    \/ AddTask \/ UpdateById \/ Cancel \/ MarkAsDispatched \/ MarkAsDone
    \/ RevertDispatched \/ CancelDispatched \/ DeleteEnded
    \/ CallerWrites \/ Read

Spec == Init /\ [][Next]_vars

-----------------------------------------------------------------------------
(* A row means the task the in-memory repository holds: whatever was       *)
(* called, with whatever options, nil maps and fractions of milliseconds,  *)
(* and although one stores structs and the other NULLs, cleared columns    *)
(* and defaults.  Excepted is what the two are known to part in.           *)
SameRows ==
    \A id \in Ids :
        LET fields == Fields \ parted[id]
            Seen(t) == [f \in Fields |-> IF f \in fields THEN t[f] ELSE ZeroTask[f]]
        IN  fields # {} =>
                /\ id \in DOMAIN table
                /\ Equal(Seen(memory[id]), Seen(Ent!TaskOf(table, id)))

FoundIds(q, offset, limit) ==
    LET found == Memory!Find(memory, q, offset, limit)
    IN  [k \in DOMAIN found |-> found[k].id]

(* A limit of 0 and negative offsets are left out, the two disagree there. *)
FindsAgree ==
    \A q \in Queries, offset \in 0 .. 1, limit \in {-1, 1} :
        Ent!IsFound(table, q, offset, limit, FoundIds(q, offset, limit))

NextAgrees ==
    LET next == Memory!GetNext(memory)
    IN  IF next = 0 THEN Ent!Nexts(table) = {} ELSE next \in Ent!Nexts(table)

(* Find and GetNext: what one repository computes by matchers and a heap,  *)
(* the other leaves to WHERE, ORDER BY, LIMIT and OFFSET.                  *)
ReadsAgree == Agreeing = Ids => FindsAgree /\ NextAgrees

(* Both answer a call with the same error, although one reads it off the   *)
(* task it looked up and the other off the row it selects after an UPDATE  *)
(* matched none; only EntRepository checks what UpdateById leads to.       *)
(* GetNext is about all tasks, so it may differ once any two have parted.  *)
AnswersAgree ==
    LET call == step.call
    IN  \/ said.memory = said.ent
        \/ call.op = "UpdateById" /\ said.ent = "invalid_task"
        \/ call.op = "GetNext" /\ Agreeing # Ids
        \/ /\ call.op \notin {"none", "AddTask", "GetNext"}
           /\ call.id \in Ids \ Agreeing

(* The acceptance tests, call by call: each answer is the one expected of  *)
(* it, in both repositories.                                               *)
Shows(want, t) ==
    /\ \A f \in DOMAIN want.has :
          IF f \in Maps THEN MapOf(t[f]) = want.has[f] ELSE t[f] = want.has[f]
    /\ "notNil" \in DOMAIN want => \A f \in want.notNil : t[f] # Nil
    /\ "stamped" \in DOMAIN want =>
          \A f \in want.stamped : t[f] # None /\ t[f] = NormalizeTime(clock)

AsAccepted ==
    LET call == step.call
        want == step.expect
        id == IF call.op = "AddTask" THEN Len(memory) ELSE call.id
    IN  script # None =>
            /\ said.memory = want.err /\ said.ent = want.err
            /\ "has" \in DOMAIN want =>
                  /\ Shows(want, Memory!GetById(memory, id))
                  /\ Shows(want, Ent!TaskOf(table, id))
            /\ "finds" \in DOMAIN want =>
                  IF call.op = "GetNext"
                  THEN /\ want.finds = <<Memory!GetNext(memory)>>
                       /\ Ent!Nexts(table) = ToSet(want.finds)
                  ELSE /\ want.finds = FoundIds(call.query, 0, -1)
                       /\ Ent!IsFound(table, call.query, 0, -1, want.finds)

(* A task labelled with a random shift is scheduled between its two labels, *)
(* the first included and the second not, in whichever order they are; the *)
(* call panics only for an empty range.  Excepted are labels whose         *)
(* difference no duration can hold.                                        *)
ShiftStaysInRange ==
    step.call.op = "AddTask" =>
        LET p == step.call.param
            random == DecodeRandomizeScheduledAt(MetaOf(p))
            base == IF LabelScheduleAtNow \in DOMAIN MetaOf(p)
                    THEN NormalizeTime(clock)
                    ELSE IF "scheduled_at" \in DOMAIN p THEN p.scheduled_at
                    ELSE ZeroTime
        IN  random \notin {None, <<>>} =>
            LET r == random[1]
                range == {d \in -HalfRange .. HalfRange - 1 :
                             \/ r.min <= d /\ d < r.max
                             \/ r.max < d /\ d <= r.min}
            IN  r.max - r.min \in 1 - HalfRange .. HalfRange - 1 =>
                    /\ said.ent = "panic" => range = {}
                    /\ said.ent = "" =>
                          \E d \in range :
                             memory[Len(memory)].scheduled_at
                                = NormalizeTime(base + d)
=============================================================================
