--------------------- MODULE WorkerPoolDispatcherProofs ---------------------
(***************************************************************************)
(* Proof that the worker pool implements the contract of Dispatcher, for   *)
(* any number of calls and workers, with abnormal ends and without.        *)
(*                                                                         *)
(* The inductive invariant IInv ties the three parties of a call together: *)
(* where Dispatch is, where Exec is, and what the two channels hold.       *)
(***************************************************************************)
EXTENDS WorkerPoolDispatcher, TLAPS

Leaving == {"cancel", "close", "done"}

(* Where Dispatch is says whether Exec has begun.                          *)
CallerOK(c) ==
    /\ caller[c] = "returned" <=> ret[c] # "none"
    /\ exec[c] = "none" <=> (caller[c] \in {"start", "send"}
                               \/ ret[c] = "ctxErr")

(* What Exec has put into the channels, by how far it has come.            *)
ChannelsOK(c) ==
    /\ exec[c] \in {"none", "fetch"} => fetchErr[c].buf = None
    /\ exec[c] \in {"lookup", "check", "work"} => fetchErr[c].buf = "nil"
    /\ exec[c] \in Leaving => fetchErr[c].buf \in {None, "nil", "err"}
    /\ exec[c] \notin Leaving => workErr[c].buf = None
    /\ fetchErr[c].buf # "nil" => workErr[c].buf = None

(* Dispatch returns what it found in fetchErr.                             *)
RetOK(c) ==
    /\ ret[c] = "errCh" => /\ exec[c] \notin {"none", "fetch"}
                           /\ fetchErr[c].buf # "err"
    /\ ret[c] = "fetchErr" => fetchErr[c].buf = "err"

(* TypeOK in two parts. *)
Shapes ==
    /\ caller \in [Calls -> {"start", "send", "wait", "returned"}]
    /\ ret \in [Calls -> {"none", "ctxErr", "fetchErr", "errCh"}]
    /\ exec \in [Calls -> {"none", "fetch", "lookup", "check", "work",
                           "cancel", "close", "done"}]
    /\ by \in [Calls -> Workers \cup {None}]
    /\ watcher \in [Calls -> {"none", "waiting", "ended"}]
    /\ ctxDone \in [Calls -> BOOLEAN]
    /\ combined \in [Calls -> BOOLEAN]
    /\ fetchErr \in [Calls -> Chan]
    /\ workErr \in [Calls -> Chan]
    /\ got \in [Calls -> Values \cup {None}]
    /\ worker \in [Workers -> {"idle", "busy", "gone"}]
    /\ killed \in BOOLEAN
    /\ result \in [Calls -> Values \cup {None}]

ClosedOK(c) ==
    /\ fetchErr[c].closed <=> exec[c] = "done"
    /\ workErr[c].closed <=> exec[c] = "done"

CallOK(c) == ClosedOK(c) /\ CallerOK(c) /\ ChannelsOK(c) /\ RetOK(c)

IInv ==
    /\ Shapes
    /\ \A c \in Calls : CallOK(c)

LEMMA Parts == TypeOK <=> Shapes /\ \A c \in Calls : ClosedOK(c)
  <1>1. ASSUME Shapes, NEW c \in Calls
        PROVE  /\ fetchErr[c].closed \in BOOLEAN
               /\ workErr[c].closed \in BOOLEAN
    BY <1>1 DEF Shapes, Chan
  <1>2. ASSUME Shapes, NEW c \in Calls
        PROVE  ({fetchErr[c].closed, workErr[c].closed} = {exec[c] = "done"})
                 <=> ClosedOK(c)
    BY <1>1, <1>2 DEF ClosedOK
  <1>3. TypeOK <=>
          /\ Shapes
          /\ \A c \in Calls :
                {fetchErr[c].closed, workErr[c].closed} = {exec[c] = "done"}
    BY DEF TypeOK, Shapes
  <1> QED BY <1>2, <1>3

-----------------------------------------------------------------------------
LEMMA InitIInv == Init => IInv
  <1> SUFFICES ASSUME Init PROVE IInv
    OBVIOUS
  <1>1. Shapes
    BY DEF Init, Shapes, Chan, EmptyChan, Values
  <1>2. \A c \in Calls : CallOK(c)
    BY DEF Init, EmptyChan, CallOK, ClosedOK, CallerOK, ChannelsOK, RetOK, Leaving
  <1> QED BY <1>1, <1>2 DEF IInv

-----------------------------------------------------------------------------
(* Each action of a call preserves the invariant.                          *)

(* A channel stays one when a value is put in it and when it is closed.    *)
LEMMA ChanKept ==
    ASSUME NEW s \in [Calls -> Chan], NEW k \in Calls
    PROVE  /\ \A v \in Values : [s EXCEPT ![k].buf = v] \in [Calls -> Chan]
           /\ [s EXCEPT ![k].closed = TRUE] \in [Calls -> Chan]
  <1>1. s[k] \in Chan
    OBVIOUS
  <1>2. ASSUME NEW v \in Values PROVE [s EXCEPT ![k].buf = v] \in [Calls -> Chan]
    <2>1. [s[k] EXCEPT !.buf = v] \in Chan
      BY <1>1 DEF Chan
    <2> QED BY <2>1
  <1>3. [s[k] EXCEPT !.closed = TRUE] \in Chan
    BY <1>1 DEF Chan
  <1>4. [s EXCEPT ![k].closed = TRUE] \in [Calls -> Chan]
    BY <1>3
  <1> QED BY <1>2, <1>4

LEMMA CheckCtxStep ==
    ASSUME IInv, NEW k \in Calls, CheckCtx(k)
    PROVE  IInv'
  <1>1. Shapes'
    <2>1. /\ caller' \in [Calls -> {"start", "send", "wait", "returned"}]
          /\ ret' \in [Calls -> {"none", "ctxErr", "fetchErr", "errCh"}]
      BY DEF IInv, Shapes, CheckCtx, Returns
    <2> QED BY <2>1 DEF IInv, Shapes, CheckCtx, chanVars, execVars, ctxVars
  <1>2. ASSUME NEW c \in Calls PROVE CallOK(c)'
    BY <1>1, PoolAssumption
       DEF IInv, Shapes, Chan, Values, CallOK, ClosedOK, CallerOK, ChannelsOK, RetOK,
           Leaving, CheckCtx, Returns, callerVars, chanVars, execVars, ctxVars
  <1> QED BY <1>1, <1>2 DEF IInv, CallOK

LEMMA SendCtxDoneStep ==
    ASSUME IInv, NEW k \in Calls, SendCtxDone(k)
    PROVE  IInv'
  <1>1. Shapes'
    BY DEF IInv, Shapes, Chan, Values, SendCtxDone, Returns,
           callerVars, chanVars, execVars, ctxVars
  <1>2. ASSUME NEW c \in Calls PROVE CallOK(c)'
    BY <1>1, PoolAssumption
       DEF IInv, Shapes, Chan, Values, CallOK, ClosedOK, CallerOK, ChannelsOK, RetOK,
           Leaving, SendCtxDone, Returns, callerVars, chanVars, execVars, ctxVars
  <1> QED BY <1>1, <1>2 DEF IInv, CallOK

LEMMA ReceiveFetchErrStep ==
    ASSUME IInv, NEW k \in Calls, ReceiveFetchErr(k)
    PROVE  IInv'
  <1>1. Shapes'
    BY DEF IInv, Shapes, Chan, Values, ReceiveFetchErr, Returns, Ready, Received,
           callerVars, chanVars, execVars, ctxVars
  <1>2. ASSUME NEW c \in Calls PROVE CallOK(c)'
    BY <1>1, PoolAssumption
       DEF IInv, Shapes, Chan, Values, CallOK, ClosedOK, CallerOK, ChannelsOK, RetOK,
           Leaving, ReceiveFetchErr, Returns, Ready, Received, callerVars, chanVars, execVars, ctxVars
  <1> QED BY <1>1, <1>2 DEF IInv, CallOK

LEMMA ReadStep ==
    ASSUME IInv, NEW k \in Calls, Read(k)
    PROVE  IInv'
  <1>1. Shapes'
    BY DEF IInv, Shapes, Chan, Values, Read, Ready, Received,
           callerVars, chanVars, execVars, ctxVars
  <1>2. ASSUME NEW c \in Calls PROVE CallOK(c)'
    BY <1>1, PoolAssumption
       DEF IInv, Shapes, Chan, Values, CallOK, ClosedOK, CallerOK, ChannelsOK, RetOK,
           Leaving, Read, Ready, Received, callerVars, chanVars, execVars, ctxVars
  <1> QED BY <1>1, <1>2 DEF IInv, CallOK

LEMMA FetchOkStep ==
    ASSUME IInv, NEW k \in Calls, FetchOk(k)
    PROVE  IInv'
  <1>1. Shapes'
    <2>1. fetchErr' \in [Calls -> Chan]
      BY ChanKept DEF IInv, Shapes, Values, FetchOk, PutFetchErr
    <2>2. exec' \in [Calls -> {"none", "fetch", "lookup", "check", "work",
                               "cancel", "close", "done"}]
      BY DEF IInv, Shapes, FetchOk, Goes
    <2> QED BY <2>1, <2>2
            DEF IInv, Shapes, FetchOk, Goes, callerVars, ctxVars
  <1>2. ASSUME NEW c \in Calls PROVE CallOK(c)'
    BY <1>1, PoolAssumption
       DEF IInv, Shapes, Chan, Values, CallOK, ClosedOK, CallerOK, ChannelsOK, RetOK,
           Leaving, FetchOk, Goes, PutFetchErr, callerVars, chanVars, execVars, ctxVars
  <1> QED BY <1>1, <1>2 DEF IInv, CallOK

LEMMA FetchFailsStep ==
    ASSUME IInv, NEW k \in Calls, FetchFails(k)
    PROVE  IInv'
  <1>1. Shapes'
    <2>1. fetchErr' \in [Calls -> Chan]
      BY ChanKept DEF IInv, Shapes, Values, FetchFails, PutFetchErr
    <2>2. exec' \in [Calls -> {"none", "fetch", "lookup", "check", "work",
                               "cancel", "close", "done"}]
      BY DEF IInv, Shapes, FetchFails, Goes
    <2> QED BY <2>1, <2>2
            DEF IInv, Shapes, FetchFails, Goes, callerVars, ctxVars
  <1>2. ASSUME NEW c \in Calls PROVE CallOK(c)'
    BY <1>1, PoolAssumption
       DEF IInv, Shapes, Chan, Values, CallOK, ClosedOK, CallerOK, ChannelsOK, RetOK,
           Leaving, FetchFails, Goes, PutFetchErr, callerVars, chanVars, execVars, ctxVars
  <1> QED BY <1>1, <1>2 DEF IInv, CallOK

LEMMA LookupStep ==
    ASSUME IInv, NEW k \in Calls, Lookup(k)
    PROVE  IInv'
  <1>1. Shapes'
    <2>1. workErr' \in [Calls -> Chan]
      <3>1. CASE UNCHANGED chanVars
        BY <3>1 DEF IInv, Shapes, Lookup, chanVars
      <3>2. CASE PutWorkErr(k, "err")
        BY <3>2, ChanKept DEF IInv, Shapes, Values, PutWorkErr
      <3> QED BY <3>1, <3>2 DEF Lookup, Goes
    <2> QED BY <2>1 DEF IInv, Shapes, Values, Lookup, Goes,
                        callerVars, chanVars, ctxVars
  <1>2. ASSUME NEW c \in Calls PROVE CallOK(c)'
    BY <1>1, PoolAssumption
       DEF IInv, Shapes, Chan, Values, CallOK, ClosedOK, CallerOK, ChannelsOK, RetOK,
           Leaving, Lookup, Goes, PutWorkErr, callerVars, chanVars, execVars, ctxVars
  <1> QED BY <1>1, <1>2 DEF IInv, CallOK

LEMMA CheckCombinedStep ==
    ASSUME IInv, NEW k \in Calls, CheckCombined(k)
    PROVE  IInv'
  <1>1. Shapes'
    <2>1. workErr' \in [Calls -> Chan]
      <3>1. CASE UNCHANGED chanVars
        BY <3>1 DEF IInv, Shapes, CheckCombined, chanVars
      <3>2. CASE PutWorkErr(k, "canceled")
        BY <3>2, ChanKept DEF IInv, Shapes, Values, PutWorkErr
      <3> QED BY <3>1, <3>2 DEF CheckCombined, Goes
    <2> QED BY <2>1 DEF IInv, Shapes, Values, CheckCombined, Goes,
                        callerVars, chanVars, ctxVars
  <1>2. ASSUME NEW c \in Calls PROVE CallOK(c)'
    BY <1>1, PoolAssumption
       DEF IInv, Shapes, Chan, Values, CallOK, ClosedOK, CallerOK, ChannelsOK, RetOK,
           Leaving, CheckCombined, Goes, PutWorkErr, callerVars, chanVars, execVars, ctxVars
  <1> QED BY <1>1, <1>2 DEF IInv, CallOK

LEMMA WorkReturnsStep ==
    ASSUME IInv, NEW k \in Calls, WorkReturns(k)
    PROVE  IInv'
  <1>1. Shapes'
    <2>1. PICK v \in Values : /\ PutWorkErr(k, v)
                              /\ result' = [result EXCEPT ![k] = v]
      BY DEF WorkReturns
    <2>2. workErr' \in [Calls -> Chan]
      BY <2>1, ChanKept DEF IInv, Shapes, PutWorkErr
    <2>3. result' \in [Calls -> Values \cup {None}]
      BY <2>1 DEF IInv, Shapes
    <2>4. exec' \in [Calls -> {"none", "fetch", "lookup", "check", "work",
                               "cancel", "close", "done"}]
      BY DEF IInv, Shapes, WorkReturns, Goes
    <2> QED BY <2>2, <2>3, <2>4
            DEF IInv, Shapes, WorkReturns, Goes, callerVars, ctxVars
  <1>2. ASSUME NEW c \in Calls PROVE CallOK(c)'
    BY <1>1, PoolAssumption
       DEF IInv, Shapes, Chan, Values, CallOK, ClosedOK, CallerOK, ChannelsOK, RetOK,
           Leaving, WorkReturns, Goes, PutWorkErr, callerVars, chanVars, execVars, ctxVars
  <1> QED BY <1>1, <1>2 DEF IInv, CallOK

LEMMA ExitsAbnormallyStep ==
    ASSUME IInv, NEW k \in Calls, ExitsAbnormally(k)
    PROVE  IInv'
  <1>1. Shapes'
    <2>1. exec' \in [Calls -> {"none", "fetch", "lookup", "check", "work",
                               "cancel", "close", "done"}]
      BY DEF IInv, Shapes, ExitsAbnormally, Goes
    <2>2. UNCHANGED <<callerVars, ctxVars, by, worker, got, chanVars, result>>
      BY DEF ExitsAbnormally, Goes
    <2> QED BY <2>1, <2>2 DEF IInv, Shapes, callerVars, ctxVars, chanVars
  <1>2. ASSUME NEW c \in Calls PROVE CallOK(c)'
    BY <1>1, PoolAssumption
       DEF IInv, Shapes, Chan, Values, CallOK, ClosedOK, CallerOK, ChannelsOK, RetOK,
           Leaving, ExitsAbnormally, Goes, callerVars, chanVars, execVars, ctxVars
  <1> QED BY <1>1, <1>2 DEF IInv, CallOK

LEMMA DeferredCancelStep ==
    ASSUME IInv, NEW k \in Calls, DeferredCancel(k)
    PROVE  IInv'
  <1>1. Shapes'
    BY DEF IInv, Shapes, Chan, Values, DeferredCancel,
           callerVars, chanVars, execVars, ctxVars
  <1>2. ASSUME NEW c \in Calls PROVE CallOK(c)'
    BY <1>1, PoolAssumption
       DEF IInv, Shapes, Chan, Values, CallOK, ClosedOK, CallerOK, ChannelsOK, RetOK,
           Leaving, DeferredCancel, callerVars, chanVars, execVars, ctxVars
  <1> QED BY <1>1, <1>2 DEF IInv, CallOK

LEMMA DeferredCloseStep ==
    ASSUME IInv, NEW k \in Calls, DeferredClose(k)
    PROVE  IInv'
  <1>1. Shapes'
    <2>1. worker' \in [Workers -> {"idle", "busy", "gone"}]
      <3>1. PICK then \in {"idle", "gone"} :
                worker' = [worker EXCEPT ![by[k]] = then]
        BY DEF DeferredClose
      <3> QED BY <3>1 DEF IInv, Shapes
    <2>2. /\ fetchErr' \in [Calls -> Chan]
          /\ workErr' \in [Calls -> Chan]
      BY ChanKept DEF IInv, Shapes, DeferredClose
    <2> QED BY <2>1, <2>2 DEF IInv, Shapes, DeferredClose, callerVars, ctxVars
  <1>2. ASSUME NEW c \in Calls PROVE CallOK(c)'
    BY <1>1, PoolAssumption
       DEF IInv, Shapes, Chan, Values, CallOK, ClosedOK, CallerOK, ChannelsOK, RetOK,
           Leaving, DeferredClose, callerVars, chanVars, execVars, ctxVars
  <1> QED BY <1>1, <1>2 DEF IInv, CallOK

LEMMA WatchStep ==
    ASSUME IInv, NEW k \in Calls, Watch(k)
    PROVE  IInv'
  <1>1. Shapes'
    BY DEF IInv, Shapes, Chan, Values, Watch,
           callerVars, chanVars, execVars, ctxVars
  <1>2. ASSUME NEW c \in Calls PROVE CallOK(c)'
    BY <1>1, PoolAssumption
       DEF IInv, Shapes, Chan, Values, CallOK, ClosedOK, CallerOK, ChannelsOK, RetOK,
           Leaving, Watch, callerVars, chanVars, execVars, ctxVars
  <1> QED BY <1>1, <1>2 DEF IInv, CallOK

LEMMA CtxEndsStep ==
    ASSUME IInv, NEW k \in Calls, CtxEnds(k)
    PROVE  IInv'
  <1>1. Shapes'
    BY DEF IInv, Shapes, Chan, Values, CtxEnds,
           callerVars, chanVars, execVars, ctxVars
  <1>2. ASSUME NEW c \in Calls PROVE CallOK(c)'
    BY <1>1, PoolAssumption
       DEF IInv, Shapes, Chan, Values, CallOK, ClosedOK, CallerOK, ChannelsOK, RetOK,
           Leaving, CtxEnds, callerVars, chanVars, execVars, ctxVars
  <1> QED BY <1>1, <1>2 DEF IInv, CallOK

LEMMA SendStep ==
    ASSUME IInv, NEW k \in Calls, NEW w \in Workers, Send(k, w)
    PROVE  IInv'
  <1>1. Shapes'
    BY DEF IInv, Shapes, Chan, Values, Send, chanVars
  <1>2. ASSUME NEW c \in Calls PROVE CallOK(c)'
    BY <1>1, PoolAssumption
       DEF IInv, Shapes, Chan, Values, CallOK, ClosedOK, CallerOK, ChannelsOK, RetOK,
           Leaving, Send, chanVars
  <1> QED BY <1>1, <1>2 DEF IInv, CallOK

(* Neither do workers that come and go, Kill or a stutter disturb a call.  *)
LEMMA QuietStep ==
    ASSUME IInv,
           \/ \E w \in Workers : Add(w) \/ Leave(w)
           \/ Kill
           \/ UNCHANGED vars
    PROVE  IInv'
  <1>1. UNCHANGED <<callerVars, chanVars, exec, by, result, ctxDone, combined,
                    watcher, got>>
    BY DEF Add, Leave, Kill, vars, callerVars, chanVars, execVars, ctxVars
  <1>2. Shapes'
    BY <1>1 DEF IInv, Shapes, Chan, Add, Leave, Kill, vars, callerVars,
                chanVars, execVars, ctxVars
  <1>3. \A c \in Calls : CallOK(c)'
    BY <1>1 DEF IInv, CallOK, ClosedOK, CallerOK, ChannelsOK, RetOK, callerVars, chanVars
  <1> QED BY <1>2, <1>3 DEF IInv, CallOK

-----------------------------------------------------------------------------
LEMMA NextIInv == ASSUME IInv, [Next]_vars PROVE IInv'
  <1>1. ASSUME NEW k \in Calls, DispatchStep(k) PROVE IInv'
    BY <1>1, CheckCtxStep, SendStep, SendCtxDoneStep, ReceiveFetchErrStep
       DEF DispatchStep
  <1>2. ASSUME NEW k \in Calls, ExecStep(k) PROVE IInv'
    BY <1>2, FetchOkStep, FetchFailsStep, LookupStep, CheckCombinedStep,
       DeferredCancelStep, DeferredCloseStep, WorkReturnsStep,
       ExitsAbnormallyStep
       DEF ExecStep, ExecProceeds
  <1> QED BY <1>1, <1>2, ReadStep, WatchStep, CtxEndsStep, QuietStep DEF Next

LEMMA Invariant == Spec => []IInv
  <1> QED BY InitIInv, NextIInv, PTL DEF Spec

-----------------------------------------------------------------------------
(* The refinement.  A step that moves one call alone moves the three       *)
(* functions the contract speaks of at that call alone.                    *)
Phases == [c \in Calls |-> PhaseOf(c)]
Outcomes == [c \in Calls |-> OutcomeOf(c)]
Tolds == [c \in Calls |-> Told[ret[c]]]

Elsewhere(k) ==
    \A c \in Calls \ {k} :
        UNCHANGED <<exec[c], fetchErr[c].buf, workErr[c].buf, ret[c]>>

LEMMA MovesAlone ==
    ASSUME NEW k \in Calls, Elsewhere(k)
    PROVE  /\ Phases' = [Phases EXCEPT ![k] = PhaseOf(k)']
           /\ Outcomes' = [Outcomes EXCEPT ![k] = OutcomeOf(k)']
           /\ Tolds' = [Tolds EXCEPT ![k] = Told[ret[k]]']
  <1>1. ASSUME NEW c \in Calls \ {k}
        PROVE  UNCHANGED <<PhaseOf(c), OutcomeOf(c), Told[ret[c]]>>
    BY <1>1 DEF Elsewhere, PhaseOf, OutcomeOf, Told
  <1> QED BY <1>1 DEF Phases, Outcomes, Tolds

LEMMA SamePhases ==
    ASSUME NEW k \in Calls, Elsewhere(k),
           UNCHANGED <<PhaseOf(k), OutcomeOf(k), Told[ret[k]]>>
    PROVE  UNCHANGED <<Phases, Outcomes, Tolds>>
  <1> QED BY MovesAlone DEF Phases, Outcomes, Tolds

ContractStep == Contract!DispatcherNext \/ UNCHANGED Contract!dispatcherVars

LEMMA Stutters ==
    ASSUME UNCHANGED <<Phases, Outcomes, Tolds, got>>
    PROVE  ContractStep
  <1> QED BY DEF ContractStep, Contract!dispatcherVars, Phases, Outcomes, Tolds

(* Dispatch returns: the contract's Tell. *)
LEMMA Tells ==
    ASSUME NEW k \in Calls, IInv, NEW what \in {"ctxErr", "fetchErr", "errCh"},
           Returns(k, what), ret[k] = "none",
           PhaseOf(k) # "fetching",
           what = "errCh" <=> PhaseOf(k) \notin {"asked", "failed"},
           UNCHANGED <<exec, fetchErr, workErr, got>>
    PROVE  ContractStep
  <1>1. Elsewhere(k)
    BY DEF Elsewhere, Returns, IInv, Shapes
  <1>2. UNCHANGED <<PhaseOf(k), OutcomeOf(k)>>
    BY DEF PhaseOf, OutcomeOf
  <1>3. ret[k]' = what
    BY DEF Returns, IInv, Shapes
  <1>4. UNCHANGED <<Phases, Outcomes>>
    BY <1>1, <1>2, MovesAlone DEF Phases, Outcomes
  <1>5. Tolds' = [Tolds EXCEPT ![k] =
                    IF Phases[k] \in {"asked", "failed"}
                    THEN "refused" ELSE "accepted"]
    <2>1. Phases[k] = PhaseOf(k)
      BY DEF Phases
    <2>2. Told[ret[k]]' = IF PhaseOf(k) \in {"asked", "failed"}
                          THEN "refused" ELSE "accepted"
      BY <1>3 DEF Told
    <2> QED BY <1>1, <2>1, <2>2, MovesAlone
  <1>6. Tolds[k] = "nothing"
    BY DEF Tolds, Told
  <1>7. Contract!Tell(k)
    BY <1>4, <1>5, <1>6 DEF Contract!Tell, Phases, Outcomes, Tolds
  <1> QED BY <1>7 DEF ContractStep, Contract!DispatcherNext

(* Exec proceeds: the contract's moves. *)
LEMMA Proceeds ==
    ASSUME NEW k \in Calls, IInv, Elsewhere(k), UNCHANGED <<ret, got>>,
           \/ /\ PhaseOf(k) = "asked" /\ PhaseOf(k)' = "fetching"
              /\ ret[k] = "none" /\ UNCHANGED OutcomeOf(k)
           \/ /\ PhaseOf(k) = "fetching" /\ PhaseOf(k)' \in {"working", "failed"}
              /\ UNCHANGED OutcomeOf(k)
           \/ /\ PhaseOf(k) = "working" /\ PhaseOf(k)' = "over"
              /\ OutcomeOf(k)' \in Values
           \/ /\ Abnormal /\ PhaseOf(k) \in {"fetching", "working"}
              /\ PhaseOf(k)' = "over" /\ OutcomeOf(k)' = "nil"
    PROVE  ContractStep
  <1>1. /\ Phases' = [Phases EXCEPT ![k] = PhaseOf(k)']
        /\ Outcomes' = [Outcomes EXCEPT ![k] = OutcomeOf(k)']
    BY MovesAlone
  <1>2. UNCHANGED <<Tolds, got>>
    BY DEF Tolds
  <1>3. Phases[k] = PhaseOf(k) /\ Tolds[k] = Told[ret[k]]
    BY DEF Phases, Tolds
  <1>4. UNCHANGED OutcomeOf(k) => UNCHANGED Outcomes
    BY <1>1 DEF Outcomes
  <1>5. CASE /\ PhaseOf(k) = "asked" /\ PhaseOf(k)' = "fetching"
             /\ ret[k] = "none" /\ UNCHANGED OutcomeOf(k)
    <2>1. Contract!TakeUp(k)
      BY <1>1, <1>2, <1>3, <1>4, <1>5
         DEF Contract!TakeUp, Contract!Moves, Phases, Outcomes, Tolds, Told
    <2> QED BY <2>1 DEF ContractStep, Contract!DispatcherNext
  <1>6. CASE /\ PhaseOf(k) = "fetching"
             /\ PhaseOf(k)' \in {"working", "failed"} /\ UNCHANGED OutcomeOf(k)
    <2>1. Contract!Fetched(k) \/ Contract!FetchFails(k)
      BY <1>1, <1>2, <1>3, <1>4, <1>6
         DEF Contract!Fetched, Contract!FetchFails, Contract!Moves, Phases,
             Outcomes, Tolds
    <2> QED BY <2>1 DEF ContractStep, Contract!DispatcherNext
  <1>7. CASE /\ PhaseOf(k) = "working" /\ PhaseOf(k)' = "over"
             /\ OutcomeOf(k)' \in Values
    <2>1. Contract!Ends(k, OutcomeOf(k)')
      BY <1>1, <1>2, <1>3, <1>7
         DEF Contract!Ends, Contract!Moves, Phases, Outcomes, Tolds
    <2>2. OutcomeOf(k)' \in Contract!Outcomes
      BY <1>7 DEF Contract!Outcomes, Values
    <2> QED BY <2>1, <2>2 DEF ContractStep, Contract!DispatcherNext
  <1>8. CASE /\ Abnormal /\ PhaseOf(k) \in {"fetching", "working"}
             /\ PhaseOf(k)' = "over" /\ OutcomeOf(k)' = "nil"
    <2>1. Contract!Vanishes(k)
      BY <1>1, <1>2, <1>3, <1>8
         DEF Contract!Vanishes, Contract!Moves, Phases, Outcomes, Tolds
    <2> QED BY <2>1 DEF ContractStep, Contract!DispatcherNext
  <1> QED BY <1>5, <1>6, <1>7, <1>8

-----------------------------------------------------------------------------
(* Every step of the pool is a step of the contract or a stutter.          *)
LEMMA DispatchRefines ==
    ASSUME IInv, NEW k \in Calls, DispatchStep(k) PROVE ContractStep
  <1>1. CASE CheckCtx(k) \/ SendCtxDone(k)
    <2>1. exec[k] = "none" /\ ret[k] = "none"
      BY <1>1 DEF IInv, Shapes, CallOK, CallerOK, CheckCtx, SendCtxDone
    <2>2. UNCHANGED <<exec, fetchErr, workErr, got>>
      BY <1>1 DEF CheckCtx, SendCtxDone, chanVars, execVars
    <2>3. CASE Returns(k, "ctxErr")
      <3>1. PhaseOf(k) = "asked"
        BY <2>1 DEF PhaseOf
      <3> QED BY <2>1, <2>2, <2>3, <3>1, Tells
    <2>4. CASE UNCHANGED ret
      BY <2>2, <2>4, Stutters DEF Phases, Outcomes, Tolds, PhaseOf, OutcomeOf
    <2> QED BY <1>1, <2>3, <2>4 DEF CheckCtx, SendCtxDone
  <1>2. CASE \E w \in Workers : Send(k, w)
    <2>1. PICK w \in Workers : Send(k, w)
      BY <1>2
    <2>2. exec[k] = "none" /\ ret[k] = "none" /\ exec'[k] = "fetch"
      BY <2>1 DEF IInv, Shapes, CallOK, CallerOK, Send
    <2>3. Elsewhere(k) /\ UNCHANGED <<ret, got>>
      BY <2>1 DEF IInv, Shapes, Elsewhere, Send, chanVars
    <2>4. /\ PhaseOf(k) = "asked" /\ PhaseOf(k)' = "fetching"
          /\ UNCHANGED OutcomeOf(k)
      BY <2>2 DEF PhaseOf, OutcomeOf
    <2> QED BY <2>2, <2>3, <2>4, Proceeds
  <1>3. CASE ReceiveFetchErr(k)
    <2> DEFINE what == IF Received(fetchErr[k]) = "nil" THEN "errCh"
                       ELSE "fetchErr"
    <2>1. /\ Returns(k, what) /\ ret[k] = "none"
          /\ UNCHANGED <<exec, fetchErr, workErr, got>>
      BY <1>3 DEF ReceiveFetchErr, IInv, Shapes, CallOK, CallerOK, chanVars,
                  execVars
    <2>2. exec[k] \notin {"none", "fetch"}
      BY <1>3 DEF ReceiveFetchErr, Ready, IInv, CallOK, CallerOK, ChannelsOK,
                  ClosedOK
    <2>3. (Received(fetchErr[k]) = "nil") <=> (fetchErr[k].buf # "err")
      BY <2>2, PoolAssumption
         DEF Received, IInv, Shapes, CallOK, ChannelsOK, Leaving
    <2>4. (fetchErr[k].buf = "err") <=> (PhaseOf(k) \in {"asked", "failed"})
      BY <2>2 DEF PhaseOf, IInv, CallOK, ChannelsOK
    <2>5. PhaseOf(k) # "fetching"
      BY <2>2 DEF PhaseOf
    <2> QED BY <2>1, <2>3, <2>4, <2>5, Tells
  <1> QED BY <1>1, <1>2, <1>3 DEF DispatchStep

LEMMA ReadRefines ==
    ASSUME IInv, NEW k \in Calls, Read(k) PROVE ContractStep
  <1>1. PhaseOf(k) = "over"
    BY PoolAssumption
       DEF Read, Ready, PhaseOf, IInv, Shapes, CallOK, ClosedOK, ChannelsOK,
           RetOK, Leaving
  <1>2. Received(workErr[k]) = OutcomeOf(k)
    BY <1>1 DEF Received, OutcomeOf
  <1>3. UNCHANGED <<Phases, Outcomes, Tolds>>
    BY DEF Read, Phases, Outcomes, Tolds, PhaseOf, OutcomeOf, callerVars,
           chanVars, execVars
  <1>4. Tolds[k] = "accepted" /\ Phases[k] = "over"
        /\ Outcomes[k] = OutcomeOf(k)
    BY <1>1 DEF Read, Tolds, Told, Phases, Outcomes
  <1>5. got[k] = None /\ got' = [got EXCEPT ![k] = OutcomeOf(k)]
    BY <1>2 DEF Read
  <1>6. Contract!Hear(k)
    BY <1>3, <1>4, <1>5 DEF Contract!Hear, Phases, Outcomes, Tolds
  <1> QED BY <1>6 DEF ContractStep, Contract!DispatcherNext

(* What Exec's steps have in common.                                       *)
LEMMA ExecLeavesOthers ==
    ASSUME IInv, NEW k \in Calls, ExecStep(k)
    PROVE  Elsewhere(k) /\ UNCHANGED <<ret, got>>
  <1>1. UNCHANGED <<ret, got>>
    BY DEF ExecStep, ExecProceeds, FetchOk, FetchFails, Lookup, CheckCombined,
           WorkReturns, ExitsAbnormally, DeferredCancel, DeferredClose, Goes,
           callerVars
  <1>2. ASSUME NEW c \in Calls \ {k} PROVE UNCHANGED exec[c]
    BY DEF ExecStep, ExecProceeds, FetchOk, FetchFails, Lookup, CheckCombined,
           WorkReturns, ExitsAbnormally, DeferredCancel, DeferredClose, Goes,
           IInv, Shapes
  <1>3. ASSUME NEW c \in Calls \ {k}
        PROVE  UNCHANGED <<fetchErr[c].buf, workErr[c].buf>>
    BY DEF ExecStep, ExecProceeds, FetchOk, FetchFails, Lookup, CheckCombined,
           WorkReturns, ExitsAbnormally, DeferredCancel, DeferredClose,
           PutFetchErr, PutWorkErr, chanVars, IInv, Shapes
  <1> QED BY <1>1, <1>2, <1>3 DEF Elsewhere

LEMMA FetchRefines ==
    ASSUME IInv, NEW k \in Calls, FetchOk(k) \/ FetchFails(k)
    PROVE  ContractStep
  <1>1. Elsewhere(k) /\ UNCHANGED <<ret, got>>
    BY ExecLeavesOthers DEF ExecStep, ExecProceeds
  <1>2. /\ exec[k] = "fetch"
        /\ \/ exec'[k] = "lookup"
           \/ exec'[k] = "cancel" /\ fetchErr'[k].buf = "err"
    BY DEF FetchOk, FetchFails, Goes, PutFetchErr, IInv, Shapes, Chan
  <1>3. /\ PhaseOf(k) = "fetching" /\ PhaseOf(k)' \in {"working", "failed"}
        /\ UNCHANGED OutcomeOf(k)
    BY <1>2 DEF PhaseOf, OutcomeOf
  <1> QED BY <1>1, <1>3, Proceeds

LEMMA WorkRefines ==
    ASSUME IInv, NEW k \in Calls, Lookup(k) \/ CheckCombined(k) \/ WorkReturns(k)
    PROVE  ContractStep
  <1>1. Elsewhere(k) /\ UNCHANGED <<ret, got>>
    BY ExecLeavesOthers DEF ExecStep, ExecProceeds
  <1>2. exec[k] \in {"lookup", "check", "work"}
    BY DEF Lookup, CheckCombined, WorkReturns, Goes
  <1>3. fetchErr[k].buf = "nil" /\ UNCHANGED fetchErr
    BY <1>2 DEF Lookup, CheckCombined, WorkReturns, chanVars, IInv, CallOK,
                ChannelsOK
  <1>4. \/ exec'[k] \in {"check", "work"}
        \/ exec'[k] = "cancel" /\ workErr'[k].buf \in Values
    BY DEF Lookup, CheckCombined, WorkReturns, Goes, PutWorkErr, Values, IInv,
           Shapes, Chan
  <1>5. CASE exec'[k] \in {"check", "work"}
    <2>1. UNCHANGED <<PhaseOf(k), OutcomeOf(k), Told[ret[k]]>>
      BY <1>1, <1>2, <1>5 DEF PhaseOf, OutcomeOf
    <2> QED BY <1>1, <2>1, SamePhases, Stutters
  <1>6. CASE exec'[k] = "cancel" /\ workErr'[k].buf \in Values
    <2>1. /\ PhaseOf(k) = "working" /\ PhaseOf(k)' = "over"
          /\ OutcomeOf(k)' \in Values
      BY <1>2, <1>3, <1>6, PoolAssumption DEF PhaseOf, OutcomeOf, Values
    <2> QED BY <1>1, <2>1, Proceeds
  <1> QED BY <1>4, <1>5, <1>6

LEMMA ExitRefines ==
    ASSUME IInv, NEW k \in Calls, ExitsAbnormally(k) PROVE ContractStep
  <1>1. Elsewhere(k) /\ UNCHANGED <<ret, got>>
    BY ExecLeavesOthers DEF ExecStep
  <1>2. /\ exec[k] \in {"fetch", "work"} /\ exec'[k] = "cancel"
        /\ UNCHANGED <<fetchErr, workErr>>
    BY DEF ExitsAbnormally, Goes, chanVars, IInv, Shapes
  <1>3. fetchErr[k].buf # "err" /\ workErr[k].buf = None
    BY <1>2, PoolAssumption DEF IInv, CallOK, ChannelsOK, Leaving
  <1>4. /\ Abnormal /\ PhaseOf(k) \in {"fetching", "working"}
        /\ PhaseOf(k)' = "over" /\ OutcomeOf(k)' = "nil"
    BY <1>2, <1>3 DEF ExitsAbnormally, PhaseOf, OutcomeOf
  <1> QED BY <1>1, <1>4, Proceeds

LEMMA DeferredRefines ==
    ASSUME IInv, NEW k \in Calls, DeferredCancel(k) \/ DeferredClose(k)
    PROVE  ContractStep
  <1>1. Elsewhere(k) /\ UNCHANGED <<ret, got>>
    BY ExecLeavesOthers DEF ExecStep, ExecProceeds
  <1>2. /\ exec[k] \in Leaving /\ exec'[k] \in Leaving
        /\ UNCHANGED <<fetchErr[k].buf, workErr[k].buf>>
    BY DEF DeferredCancel, DeferredClose, chanVars, Leaving, IInv, Shapes, Chan
  <1>3. UNCHANGED <<PhaseOf(k), OutcomeOf(k), Told[ret[k]]>>
    BY <1>1, <1>2 DEF PhaseOf, OutcomeOf, Leaving
  <1> QED BY <1>1, <1>3, SamePhases, Stutters

LEMMA QuietRefines ==
    ASSUME \/ \E c \in Calls : Watch(c) \/ CtxEnds(c)
           \/ \E w \in Workers : Add(w) \/ Leave(w)
           \/ Kill
           \/ UNCHANGED vars
    PROVE  ContractStep
  <1>1. UNCHANGED <<callerVars, chanVars, exec, got>>
    BY DEF Watch, CtxEnds, Add, Leave, Kill, vars, execVars
  <1> QED BY <1>1, Stutters DEF Phases, Outcomes, Tolds, PhaseOf, OutcomeOf,
                                callerVars, chanVars

LEMMA NextRefines == ASSUME IInv, [Next]_vars PROVE ContractStep
  <1>1. ASSUME NEW k \in Calls, ExecStep(k) PROVE ContractStep
    BY <1>1, FetchRefines, WorkRefines, ExitRefines, DeferredRefines
       DEF ExecStep, ExecProceeds
  <1> QED BY <1>1, DispatchRefines, ReadRefines, QuietRefines DEF Next

LEMMA InitRefines == ASSUME Init PROVE Contract!DispatcherInit
  <1> QED BY DEF Init, Contract!DispatcherInit, PhaseOf, OutcomeOf, Told

-----------------------------------------------------------------------------
(* Types, and that the channels of a call are closed exactly when its Exec *)
(* is over, whichever way it left.                                         *)
THEOREM TypeCorrect == Spec => []TypeOK
  <1>1. IInv => TypeOK
    BY Parts DEF IInv, CallOK
  <1> QED BY <1>1, Invariant, PTL

(* The worker pool keeps the promise of def.Dispatcher: a call is refused  *)
(* without effect or its fetcher runs once, the fetcher's error is what    *)
(* Dispatch returns, and the outcome of the work arrives once on the       *)
(* channel it returns otherwise.                                           *)
THEOREM Implements == Spec => ImplementsDispatcher
  <1>1. IInv /\ [Next]_vars => [Contract!DispatcherNext]_(Contract!dispatcherVars)
    BY NextRefines DEF ContractStep
  <1> QED BY <1>1, InitRefines, Invariant, PTL
          DEF Spec, ImplementsDispatcher, Contract!DispatcherSpec
=============================================================================
