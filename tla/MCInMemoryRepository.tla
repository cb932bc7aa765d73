------------------------ MODULE MCInMemoryRepository ------------------------
(***************************************************************************)
(* The instance of InMemoryRepository for TLC.  A behaviour either uses    *)
(* every operation on the tasks, or Save and Load as well.                 *)
(***************************************************************************)
EXTENDS InMemoryRepository

MCUses ==
    {[calls |-> {"AddTask", "UpdateById", "Cancel", "MarkAsDispatched",
                 "MarkAsDone"},
      priorities |-> {0, 1}, updateTimes |-> {1, 2}],
     [calls |-> {"AddTask", "UpdateById", "MarkAsDispatched", "Save", "Load"},
      priorities |-> {0}, updateTimes |-> {1}]}
=============================================================================
