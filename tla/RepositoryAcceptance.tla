------------------------- MODULE RepositoryAcceptance -----------------------
(***************************************************************************)
(* def/acceptance/repository, the tests "only those which can pass" count  *)
(* as conformers: as scripts, sequences of a call with what the test       *)
(* expects of the answer.  A loop over parameters is one script each, on   *)
(* an empty repository.  Constant operators only.                          *)
(*                                                                         *)
(* Ids are 1, 2, ... in the order in which tasks are added.  An            *)
(* expectation has the fields the test looks at: err always, has for       *)
(* fields of the task answered with, notNil for its maps, stamped for its  *)
(* times that are those of the last mutation, finds for the ids of the     *)
(* tasks answered with.                                                    *)
(***************************************************************************)
EXTENDS TaskData

(* The calls of def.Repository. *)
AddTaskCall(p) == [op |-> "AddTask", param |-> p]
UpdateByIdCall(id, p) == [op |-> "UpdateById", id |-> id, param |-> p]
CancelCall(id) == [op |-> "Cancel", id |-> id]
DispatchedCall(id) == [op |-> "MarkAsDispatched", id |-> id]
DoneCall(id, result) == [op |-> "MarkAsDone", id |-> id, result |-> result]
GetByIdCall(id) == [op |-> "GetById", id |-> id]
GetNextCall == [op |-> "GetNext"]
FindCall(q) == [op |-> "Find", query |-> q]

Expect(call, err) == [call |-> call, expect |-> [err |-> err]]
Succeeds(call) == Expect(call, "")
Answers(call, fields) == [call |-> call, expect |-> [err |-> "", has |-> fields]]
AnswersNotNil(call, fields) ==
    [call |-> call,
     expect |-> [err |-> "", has |-> fields, notNil |-> DOMAIN fields]]
AnswersStamped(call, fields, stamp) ==
    [call |-> call, expect |-> [err |-> "", has |-> fields, stamped |-> {stamp}]]
Finds(call, ids) == [call |-> call, expect |-> [err |-> "", finds |-> ids]]

-----------------------------------------------------------------------------
Millisecond == TicksPerMilli
Minute == 60000 * Millisecond
Hour == 60 * Minute

sampleDate == 500000000
exampleDateNormalized == 300000000
exampleDateNotNormalized == exampleDateNormalized + 1

initialParam ==
    [work_id |-> "foo", param |-> "bar" :> <<"baz">>, priority |-> 12,
     scheduled_at |-> sampleDate, deadline |-> sampleDate + 5 * Minute,
     meta |-> "qux" :> <<"quux">>]

updateParam ==
    [work_id |-> "bar",
     param |-> "corge" :> <<"grault">> @@ "garply" :> <<"waldo">>,
     priority |-> -5, scheduled_at |-> sampleDate + Hour,
     deadline |-> sampleDate + 10 * Minute, meta |-> "fred" :> <<"plugh">>]

NoFields == [f \in {} |-> 0]
Only(p, fs) == [f \in DOMAIN p \cap fs |-> p[f]]
But(p, fs) == [f \in DOMAIN p \ fs |-> p[f]]

-----------------------------------------------------------------------------
(* What testRepository_add_task requires of the task it is answered with.  *)
Added(p) ==
    UpdateParam([priority |-> 0, param |-> EmptyMap, meta |-> EmptyMap,
                 deadline |-> None, state |-> "scheduled", err |-> "",
                 cancelled_at |-> None, dispatched_at |-> None,
                 done_at |-> None], p)

AddCombinations ==
    {LET p == But(initialParam, without)
     IN  <<AnswersStamped(AddTaskCall(p), Added(p), "created_at"),
           AnswersStamped(GetByIdCall(1), Added(p), "created_at")>> :
        without \in SUBSET {"param", "priority", "deadline", "meta"}
                    \ {{"param", "priority", "deadline", "meta"}}}

AddErrors ==
    {<<Expect(AddTaskCall(p), "invalid_task")>> :
        p \in {NoFields, [work_id |-> ""], [scheduled_at |-> ZeroTime],
               Only(initialParam, {"param", "priority", "scheduled_at", "meta"}),
               [work_id |-> "foo"]}}

AddNilMaps ==
    <<AnswersNotNil(AddTaskCall([work_id |-> "nah", scheduled_at |-> sampleDate,
                                 param |-> Nil, meta |-> Nil]),
                    [param |-> EmptyMap, meta |-> EmptyMap])>>

AddNormalize ==
    <<Answers(AddTaskCall(UpdateParam(initialParam,
                  [scheduled_at |-> exampleDateNotNormalized,
                   deadline |-> exampleDateNotNormalized + 3 * Minute])),
              [scheduled_at |-> exampleDateNormalized,
               deadline |-> exampleDateNormalized + 3 * Minute])>>

-----------------------------------------------------------------------------
(* CreateEachState: the tasks b+1 to b+5, in the states of the names.      *)
CreateEachState(b) ==
    LET add == Succeeds(AddTaskCall(initialParam))
    IN  <<add,
          add, Succeeds(CancelCall(b + 2)),
          add, Succeeds(DispatchedCall(b + 3)),
          add, Succeeds(DispatchedCall(b + 4)), Succeeds(DoneCall(b + 4, "")),
          add, Succeeds(DispatchedCall(b + 5)),
               Succeeds(DoneCall(b + 5, "fake error"))>>

EachScheduled == 1
EachCancelled == 2
EachDispatched == 3
EachDone == 4
EachErr == 5

(* The calls a test expects to be refused once for each state.             *)
RefusedBy(Call(_), kinds) ==
    <<Expect(Call(NeverExistentId), "id_not_found")>>
    \o [k \in DOMAIN kinds |-> Expect(Call(kinds[k][1]), kinds[k][2])]

Ended ==
    <<<<EachCancelled, "already_cancelled">>, <<EachDone, "already_done">>,
      <<EachErr, "already_done">>>>

-----------------------------------------------------------------------------
UpdateKnown ==
    LET partial == But(updateParam, {"priority"})
    IN  <<Succeeds(AddTaskCall(initialParam)),
          Succeeds(UpdateByIdCall(1, partial)),
          Answers(GetByIdCall(1), Added(UpdateParam(initialParam, partial)))>>

UpdateCombinations ==
    {LET p == But(updateParam, without)
     IN  <<Succeeds(AddTaskCall(initialParam)), Succeeds(UpdateByIdCall(1, p)),
           Answers(GetByIdCall(1), Added(UpdateParam(initialParam, p)))>> :
        without \in (SUBSET {"work_id", "param", "priority", "scheduled_at", "meta"})
                    \ {{"work_id", "param", "priority", "scheduled_at", "meta"}}}

UpdateNilMaps ==
    <<Succeeds(AddTaskCall(initialParam)),
      Succeeds(UpdateByIdCall(1, [param |-> Nil, meta |-> Nil])),
      AnswersNotNil(GetByIdCall(1), [param |-> EmptyMap, meta |-> EmptyMap])>>

UpdateRefused ==
    CreateEachState(0)
    \o RefusedBy(LAMBDA id : UpdateByIdCall(id, updateParam),
                 <<<<EachDispatched, "already_dispatched">>>> \o Ended)

UpdateNormalize ==
    <<Succeeds(AddTaskCall(initialParam)),
      Succeeds(UpdateByIdCall(1, [scheduled_at |-> exampleDateNotNormalized,
                   deadline |-> exampleDateNotNormalized + 3 * Minute])),
      Answers(GetByIdCall(1), [scheduled_at |-> exampleDateNormalized,
                   deadline |-> exampleDateNormalized + 3 * Minute])>>

CancelTests ==
    CreateEachState(0)
    \o <<Succeeds(CancelCall(EachScheduled)),
         AnswersStamped(GetByIdCall(EachScheduled), NoFields, "cancelled_at")>>
    \o RefusedBy(CancelCall, <<<<EachDispatched, "already_dispatched">>>> \o Ended)

DispatchedTests ==
    CreateEachState(0)
    \o <<Succeeds(DispatchedCall(EachScheduled)),
         AnswersStamped(GetByIdCall(EachScheduled), NoFields, "dispatched_at")>>
    \o RefusedBy(DispatchedCall,
                 <<<<EachDispatched, "already_dispatched">>>> \o Ended)

DoneTests(result) ==
    CreateEachState(0)
    \o <<Succeeds(DoneCall(EachDispatched, result)),
         AnswersStamped(GetByIdCall(EachDispatched), [err |-> result], "done_at")>>
    \o RefusedBy(LAMBDA id : DoneCall(id, result),
                 <<<<EachScheduled, "not_dispatched">>>> \o Ended)

GetByIdTests ==
    CreateEachState(0)
    \o [k \in 1 .. 5 |->
          Answers(GetByIdCall(k),
                  [state |-> <<"scheduled", "cancelled", "dispatched", "done",
                               "err">>[k]])]
    \o <<Expect(GetByIdCall(NeverExistentId), "id_not_found")>>

-----------------------------------------------------------------------------
NextParams ==
    LET Param(at, prio) == [work_id |-> "foo", priority |-> prio,
                            scheduled_at |-> sampleDate + at]
    IN  <<Param(0, 25), Param(0, 25), Param(0, 20), Param(0, 0), Param(0, -2),
          Param(5 * Millisecond, -100), Param(1000 * Millisecond, 0),
          Param(1000 * Millisecond, -1)>>

(* The first of NextParams is added first, the others in an order drawn at *)
(* random: here those that swap two of them.  Id 5 + k is the k-th added.  *)
RandomOrders ==
    {[k \in 1 .. 8 |-> IF k = i THEN j ELSE IF k = j THEN i ELSE k] :
        i \in 2 .. 8, j \in 2 .. 8}

GetNextTests(order) ==
    <<Expect(GetNextCall, "exhausted")>> \o CreateEachState(0)
    \o <<Finds(GetNextCall, <<EachScheduled>>), Succeeds(CancelCall(EachScheduled)),
         Expect(GetNextCall, "exhausted")>>
    \o [k \in 1 .. 8 |-> Succeeds(AddTaskCall(NextParams[order[k]]))]
    \o FlattenSeq([k \in 1 .. 8 |->
          LET id == 5 + (CHOOSE j \in 1 .. 8 : order[j] = k)
          IN  <<Finds(GetNextCall, <<id>>), Succeeds(CancelCall(id))>>])

-----------------------------------------------------------------------------
barbar == <<"bar", "bar">>
corgecorge == <<"c", "or", "ge", "c", "or", "ge">>

PreparedParams ==
    LET Changed(u) == UpdateParam(updateParam, u)
        three == "foofoo" :> barbar @@ "bazbaz" :> corgecorge @@ "nah" :> <<"boo">>
        two == "foofoo" :> <<"bar">> @@ "bazbaz" :> <<"c", "or", "ge">>
        one == "foofoo" :> <<"not_", "bar">>
    IN  <<[work_id |-> "baz", param |-> "foofoo" :> barbar, priority |-> 24,
           scheduled_at |-> sampleDate + 3 * Hour,
           deadline |-> sampleDate + 20 * Hour, meta |-> "bazbaz" :> corgecorge],
          Changed([work_id |-> "baz"]),
          Changed([param |-> "foofoo" :> barbar]),
          Changed([priority |-> 24]),
          Changed([scheduled_at |-> sampleDate + 3 * Hour]),
          Changed([deadline |-> sampleDate + 20 * Hour]),
          Changed([meta |-> "bazbaz" :> corgecorge]),
          Changed([meta |-> three, param |-> three]),
          Changed([meta |-> two, param |-> two]),
          Changed([meta |-> one, param |-> one]),
          Changed([deadline |-> None]),
          Changed([scheduled_at |-> sampleDate + 10 * Hour]),
          Changed([scheduled_at |-> sampleDate + 15 * Hour]),
          Changed([scheduled_at |-> sampleDate - Hour]),
          Changed([scheduled_at |-> sampleDate - 2 * Hour]),
          Changed([deadline |-> sampleDate - 2 * Hour]),
          Changed([deadline |-> sampleDate - Hour])>>

prepareTasks ==
    CreateEachState(0)
    \o [k \in DOMAIN PreparedParams |-> Succeeds(AddTaskCall(PreparedParams[k]))]

(* A matcher without a type leaves it to the default of its Get.           *)
AtTime(v, type) == [value |-> v, type |-> type]
Entry(key, v, type) == [key |-> key, value |-> v, type |-> type]

(* The queries and the indices of the tasks each should find; the tests    *)
(* count tasks from 0.                                                     *)
queryTestCases_state ==
    <<<<[id |-> 3], <<2>>>>, <<[id |-> 1, state |-> "scheduled"], <<0>>>>,
      <<[state |-> "cancelled"], <<1>>>>, <<[state |-> "dispatched"], <<2>>>>,
      <<[state |-> "done"], <<3>>>>, <<[state |-> "err"], <<4>>>>>>

queryTestCases_simple ==
    LET foofoo == <<Entry("foofoo", barbar, "")>>
        bazbaz == <<Entry("bazbaz", corgecorge, "")>>
        at == AtTime(sampleDate + 3 * Hour, "")
    IN  <<<<[work_id |-> "baz", param |-> foofoo, priority |-> 24,
             scheduled_at |-> at, deadline |-> AtTime(sampleDate + 20 * Hour, ""),
             meta |-> bazbaz], <<5>>>>,
          <<[work_id |-> "baz"], <<5, 6>>>>, <<[param |-> foofoo], <<5, 7, 12>>>>,
          <<[priority |-> 24], <<5, 8>>>>, <<[scheduled_at |-> at], <<5, 9>>>>,
          <<[meta |-> bazbaz], <<5, 11, 12>>>>>>

queryTestCases_map ==
    <<<<[param |-> <<Entry("foofoo", <<>>, "HasKey")>>], <<5, 7, 12, 13, 14>>>>,
      <<[meta |-> <<Entry("foofoo", <<"bar">>, "Exact")>>], <<13>>>>,
      <<[param |-> <<Entry("foofoo", <<"bar">>, "Forward")>>], <<5, 7, 12, 13>>>>,
      <<[param |-> <<Entry("foofoo", <<"bar">>, "Backward")>>],
        <<5, 7, 12, 13, 14>>>>,
      <<[meta |-> <<Entry("bazbaz", <<"ge", "c">>, "Middle")>>], <<5, 11, 12>>>>>>

getExcept(n, excepts) ==
    SelectSeq([k \in 1 .. n |-> k - 1], LAMBDA k : k \notin excepts)

queryTestCases_time ==
    LET early == sampleDate - Hour
        late == sampleDate + 10 * Hour
    IN  <<<<[deadline |-> None], <<15>>>>,
          <<[deadline |-> AtTime(early, "Equal")], <<21>>>>,
          <<[deadline |-> AtTime(early, "Before")], <<20>>>>,
          <<[deadline |-> AtTime(ZeroTime, "NonNull")], getExcept(22, {15})>>,
          <<[scheduled_at |-> AtTime(early, "Equal")], <<18>>>>,
          <<[scheduled_at |-> AtTime(early, "Before")], <<19>>>>,
          <<[scheduled_at |-> AtTime(early, "BeforeEqual")], <<18, 19>>>>,
          <<[scheduled_at |-> AtTime(late, "After")], <<17>>>>,
          <<[scheduled_at |-> AtTime(late, "AfterEqual")], <<16, 17>>>>>>

queryTestCases_no_match == <<<<[id |-> NeverExistentId], <<>>>>>>

queryTestCases ==
    queryTestCases_state \o queryTestCases_simple \o queryTestCases_map
    \o queryTestCases_time \o queryTestCases_no_match

FindTests ==
    prepareTasks
    \o <<Finds(FindCall(NoFields), [k \in 1 .. 22 |-> k])>>
    \o [n \in DOMAIN queryTestCases |->
          Finds(FindCall(queryTestCases[n][1]),
                [k \in DOMAIN queryTestCases[n][2] |-> queryTestCases[n][2][k] + 1])]

-----------------------------------------------------------------------------
TestRepository ==
    AddCombinations \cup AddErrors \cup {AddNilMaps, AddNormalize}
    \cup UpdateCombinations
    \cup {UpdateKnown, UpdateNilMaps, UpdateRefused, UpdateNormalize}
    \cup {CancelTests, DispatchedTests, DoneTests(""), DoneTests("fake error")}
    \cup {GetByIdTests, FindTests} \cup {GetNextTests(o) : o \in RandomOrders}
=============================================================================
