------------------------------ MODULE Dispatcher ----------------------------
(***************************************************************************)
(* What Scheduler relies on of def.Dispatcher, per call of Dispatch: the   *)
(* call is refused without effect or its fetcher runs once; an error of    *)
(* the fetcher is the answer, else the answer is a channel on which the    *)
(* outcome of the work arrives once.                                       *)
(*                                                                         *)
(* An abnormal end (a panic or runtime.Goexit in the fetcher or in the     *)
(* work function) looks like one without an error.                         *)
(***************************************************************************)

CONSTANTS
    Calls,      (* the calls of Dispatch                                   *)
    Abnormal,   (* fetchers and work functions may end abnormally          *)
    None

VARIABLES
    phase,      (* how far the call has come                               *)
    outcome,    (* of the work                                             *)
    told,       (* what Dispatch returned                                  *)
    heard       (* what the reader of the returned channel received        *)

dispatcherVars == <<phase, outcome, told, heard>>

Outcomes == {"nil", "err", "canceled"}

DispatcherInit ==
    /\ phase = [c \in Calls |-> "asked"]
    /\ outcome = [c \in Calls |-> None]
    /\ told = [c \in Calls |-> "nothing"]
    /\ heard = [c \in Calls |-> None]

Moves(c, from, to) ==
    /\ phase[c] = from
    /\ phase' = [phase EXCEPT ![c] = to]
    /\ UNCHANGED <<told, heard>>

TakeUp(c) ==
    /\ told[c] = "nothing"
    /\ Moves(c, "asked", "fetching")
    /\ UNCHANGED outcome

FetchFails(c) == Moves(c, "fetching", "failed") /\ UNCHANGED outcome

Fetched(c) == Moves(c, "fetching", "working") /\ UNCHANGED outcome

Ends(c, result) ==
    /\ Moves(c, "working", "over")
    /\ outcome' = [outcome EXCEPT ![c] = result]

Vanishes(c) ==
    /\ Abnormal
    /\ Moves(c, "fetching", "over") \/ Moves(c, "working", "over")
    /\ outcome' = [outcome EXCEPT ![c] = "nil"]

Tell(c) ==
    /\ told[c] = "nothing"
    /\ phase[c] # "fetching"
    /\ told' = [told EXCEPT ![c] = IF phase[c] \in {"asked", "failed"}
                                   THEN "refused" ELSE "accepted"]
    /\ UNCHANGED <<phase, outcome, heard>>

Hear(c) ==
    /\ told[c] = "accepted" /\ phase[c] = "over" /\ heard[c] = None
    /\ heard' = [heard EXCEPT ![c] = outcome[c]]
    /\ UNCHANGED <<phase, outcome, told>>

DispatcherNext ==
    \E c \in Calls :
        \/ TakeUp(c) \/ FetchFails(c) \/ Fetched(c)
        \/ \E result \in Outcomes : Ends(c, result)
        \/ Vanishes(c) \/ Tell(c) \/ Hear(c)

DispatcherSpec == DispatcherInit /\ [][DispatcherNext]_dispatcherVars
=============================================================================
