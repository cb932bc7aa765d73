------------------------ MODULE MCTwinRepositories --------------------------
(***************************************************************************)
(* The instance of TwinRepositories for TLC: the acceptance tests as its   *)
(* scripts, and the calls made out of script.                              *)
(***************************************************************************)
EXTENDS TwinRepositories, RepositoryAcceptance

MCDurations == <<"-2">> :> -2 @@ <<"2">> :> 2 @@ <<"6">> :> 6 @@ <<"-5">> :> -5

Labelled(min, max) ==
    [work_id |-> "w", scheduled_at |-> 5,
     meta |-> LabelRandomizeScheduledAtMin :> min
              @@ LabelRandomizeScheduledAtMax :> max]

Plain ==
    {[work_id |-> "w", scheduled_at |-> 4, deadline |-> 7, priority |-> 1,
      meta |-> "k" :> <<"v", "v">>],
     [work_id |-> "w", scheduled_at |-> 5]}

MCAddParams ==
    <<Plain \cup
      {[work_id |-> "w", scheduled_at |-> 1],
       Labelled(<<"2">>, <<>>), Labelled(<<"2">>, <<"2">>),
       Labelled(<<"2">>, <<"?">>), Labelled(<<"6">>, <<"-5">>),
       [work_id |-> "w", meta |-> LabelRandomizeScheduledAtMax :> <<"-2">>],
       [work_id |-> "w",
        meta |-> LabelRandomizeScheduledAtMax :> <<"2">>
                 @@ LabelScheduleAtNow :> <<>>]},
      Plain>>

MCUpdateParams ==
    {[scheduled_at |-> 7, priority |-> 1], [scheduled_at |-> ZeroTime],
     [deadline |-> 3, meta |-> "k" :> <<"u">>],
     [deadline |-> None, param |-> Nil]}

MCQueries ==
    {[state |-> "scheduled"], [id |-> 1, err |-> ""],
     [scheduled_at |-> AtTime(5, "After"), deadline |-> None],
     [deadline |-> AtTime(4, "BeforeEqual")],
     [param |-> <<Entry("k", <<"v">>, "HasKey")>>],
     [meta |-> <<Entry("k", <<"v">>, "Forward")>>]}
=============================================================================
