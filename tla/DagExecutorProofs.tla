------------------------- MODULE DagExecutorProofs -------------------------
(***************************************************************************)
(* Safety of the stage executor for every set of names, every stage and    *)
(* every behaviour of the actions: IInv is inductive and implies the       *)
(* properties stated in DagExecutor; every skip is justified, no send on   *)
(* the result channel ever waits, the executor implements StageContract,   *)
(* and a dry run of the stage predicts what it runs (module DryRun).       *)
(***************************************************************************)
EXTENDS DryRun, SequenceTheorems, FiniteSetTheorems, FunctionTheorems,
        WellFoundedInduction, TLAPS

-----------------------------------------------------------------------------
(* Facts about the state *)

\* The steps of a well-typed stage are configured names.
LEMMA NodesAreNames == ASSUME TypeOK PROVE Nodes \subseteq Names
<1>1. stage \in Seq(Step(Names))
  BY StagesAssumption DEF TypeOK
<1>2. \A i \in DOMAIN stage : stage[i] \in Step(Names)
  BY <1>1, ElementOfSeq, LenProperties
<1>3. \A i \in DOMAIN stage : stage[i].action \in Names
  BY <1>2 DEF Step
<1>. QED BY <1>3 DEF Nodes, Node

\* The mark for "no result" is not a result.
LEMMA NoResultIsNone == NoResult \notin ResultRec
  BY NamesAssumption DEF NoResult, Result, ResultRec

\* A step and a status make a result record.
LEMMA ResultsAreRecords ==
  ASSUME NEW n \in Names, NEW s \in Status
  PROVE  Result(n, s) \in ResultRec /\ Result(n, s).name = n /\ Result(n, s).status = s
  BY DEF Result, ResultRec

\* The fields of a result record have their types.
LEMMA RecordFields ==
  ASSUME NEW r \in ResultRec PROVE r.name \in Names /\ r.status \in Status
  BY DEF ResultRec

\* Everything executeActionForDAGWithCallback returns has a known status.
LEMMA OutcomeStatus ==
  ASSUME NEW n \in Names, NEW o \in Outcomes PROVE ResultStatus(n, o) \in Status
<1>1. o.status \in Status
  BY RunnersAssumption DEF Outcomes, VariantError, NoVariant, Ran, Status
<1>. QED BY <1>1 DEF ResultStatus, Status

-----------------------------------------------------------------------------
(* Every action preserves IInv *)


\* The invariant holds when executeStageWithCallback is called.
LEMMA IInvInit == Init => IInv
<1> SUFFICES ASSUME Init PROVE IInv
  OBVIOUS
<1> USE DEF Init
<1>1. TypeOK
  <2>1. results \in Seq(ResultRec) /\ chan \in Seq(ResultRec)
    BY EmptySeq
  <2>2. ret \in [kind : {"none", "nil", "step", "ctx", "dag"}, name : Names \cup {NoName}]
    BY DEF Returned
  <2>3. /\ go \in [Names -> StepStates]
        /\ res \in [Names -> ResultRec \cup {NoResult}]
        /\ resultMap \in [Names -> Status \cup {"none"}]
    BY DEF StepStates
  <2>. QED BY <2>1, <2>2, <2>3 DEF TypeOK
<1>2. ChanInv /\ HandInv
  BY DEF ChanInv, HandInv, Holding
<1>3. StepInv
  BY DEF StepInv, Alive
<1>4. ReadyInv /\ MapInv
  BY DEF ReadyInv, MapInv
<1>5. RequireInv
  <2>1. Nodes \subseteq Names
    BY <1>1, NodesAreNames
  <2>. QED BY <2>1 DEF RequireInv
<1>6. ControlInv
  BY DEF ControlInv, Returned
<1>. QED BY <1>1, <1>2, <1>3, <1>4, <1>5, <1>6 DEF IInv

\* A step that moves only program counters, the context or the verdict keeps
\* everything the maps, the channel and the goroutines are related by.
LEMMA ControlStep ==
  ASSUME IInv, TypeOK', ControlInv',
         UNCHANGED <<stage, maps, chan, hand, gvars>>, Holding' = Holding,
         spc' # "decide" \/ UNCHANGED <<spc, cur>>,
         ready' \subseteq ready
  PROVE  IInv'
<1> USE DEF IInv, maps, gvars
<1>1. ChanInv' /\ HandInv'
  BY DEF ChanInv, HandInv
<1>2. StepInv'
  BY DEF StepInv, Alive
<1>3. ReadyInv'
  BY DEF ReadyInv, DepsOf, Nodes
<1>4. MapInv' /\ RequireInv'
  BY DEF MapInv, RequireInv, DepsOf, Nodes
<1>. QED BY <1>1, <1>2, <1>3, <1>4

\* buildDAG fixes the graph and starts the loops; nothing has run yet.
LEMMA BuildDAGPreserves == ASSUME IInv, BuildDAG PROVE IInv'
<1> USE DEF IInv, BuildDAG, maps, hvars, gvars, sched
<1>1. TypeOK'
  BY DEF TypeOK, Nodes, Returned
<1>2. ControlInv'
  BY DEF ControlInv, Returned
<1>3. Holding' = Holding
  BY DEF Holding, ControlInv
<1>. QED BY <1>1, <1>2, <1>3, ControlStep DEF ControlInv

\* The caller returns after the scheduler and the handler are done.
LEMMA MainReturnPreserves == ASSUME IInv, MainReturn PROVE IInv'
<1> USE DEF IInv, MainReturn, maps, hvars, gvars, sched
<1>1. TypeOK'
  <2>1. \A i \in DOMAIN results : results[i].name \in Names
    BY ElementOfSeq, LenProperties, RecordFields DEF TypeOK
  <2>2. ret' \in [kind : {"none", "nil", "step", "ctx", "dag"}, name : Names \cup {NoName}]
    BY <2>1 DEF Returned
  <2>. QED BY <2>2 DEF TypeOK, Nodes
<1>2. ControlInv'
  BY DEF ControlInv, Returned
<1>3. Holding' = Holding
  BY DEF Holding
<1>. QED BY <1>1, <1>2, <1>3, ControlStep DEF ControlInv

\* A cancellation of the context changes nothing but the context.
LEMMA CancelPreserves == ASSUME IInv, Cancel PROVE IInv'
<1> USE DEF IInv, Cancel, maps, hvars, gvars, sched
<1>1. TypeOK'
  BY DEF TypeOK, Nodes, Returned
<1>2. ControlInv'
  BY DEF ControlInv, Returned
<1>3. Holding' = Holding
  BY DEF Holding
<1>. QED BY <1>1, <1>2, <1>3, ControlStep DEF ControlInv

\* The top of the scheduler's loop looks at the context only.
LEMMA SchedulerTopPreserves == ASSUME IInv, SchedulerTop PROVE IInv'
<1> USE DEF IInv, SchedulerTop, maps, hvars, gvars, sched
<1>1. TypeOK'
  BY DEF TypeOK, Nodes, Returned
<1>2. ControlInv'
  BY DEF ControlInv, Returned
<1>3. Holding' = Holding
  BY DEF Holding
<1>. QED BY <1>1, <1>2, <1>3, ControlStep DEF ControlInv

\* The scheduler leaves its loop when everything is completed.
LEMMA AllDonePreserves == ASSUME IInv, AllDone PROVE IInv'
<1> USE DEF IInv, AllDone, maps, hvars, gvars, sched
<1>1. TypeOK'
  BY DEF TypeOK, Nodes, Returned
<1>2. ControlInv'
  BY DEF ControlInv, Returned
<1>3. Holding' = Holding
  BY DEF Holding
<1>. QED BY <1>1, <1>2, <1>3, ControlStep DEF ControlInv

\* The scheduler gives up its start loop on cancellation.
LEMMA AbandonStartPreserves == ASSUME IInv, AbandonStart PROVE IInv'
<1> USE DEF IInv, AbandonStart, maps, hvars, gvars, sched
<1>1. TypeOK'
  BY DEF TypeOK, Nodes, Returned
<1>2. ControlInv'
  BY DEF ControlInv, Returned
<1>3. Holding' = Holding
  BY DEF Holding
<1>. QED BY <1>1, <1>2, <1>3, ControlStep DEF ControlInv

\* The channel is closed after the last goroutine is done.
LEMMA CloseChannelPreserves == ASSUME IInv, CloseChannel PROVE IInv'
<1> USE DEF IInv, CloseChannel, maps, hvars, gvars, sched
<1>1. TypeOK'
  BY DEF TypeOK, Nodes, Returned
<1>2. ControlInv'
  BY DEF ControlInv, Returned
<1>3. Holding' = Holding
  BY DEF Holding
<1>. QED BY <1>1, <1>2, <1>3, ControlStep DEF ControlInv

\* An abort of the Go runtime ends everything as it is.
LEMMA MapFaultPreserves == ASSUME IInv, MapFault PROVE IInv'
<1> USE DEF IInv, MapFault, maps, hvars, gvars, sched
<1>1. TypeOK'
  BY DEF TypeOK, Nodes, Returned
<1>2. ControlInv'
  BY DEF ControlInv, Returned
<1>3. Holding' = Holding
  BY DEF Holding
<1>. QED BY <1>1, <1>2, <1>3, ControlStep DEF ControlInv

\* The handler takes the mutex and keeps its result in hand.
LEMMA HandlerLockPreserves == ASSUME IInv, HandlerLock PROVE IInv'
<1> USE DEF IInv, HandlerLock, maps, hvars, gvars, sched
<1>1. TypeOK'
  BY DEF TypeOK, Nodes, Returned
<1>2. ControlInv'
  BY DEF ControlInv, Returned
<1>3. Holding' = Holding
  BY DEF Holding
<1>. QED BY <1>1, <1>2, <1>3, ControlStep DEF ControlInv

\* The handler ends when the closed channel is drained.
LEMMA HandlerExitPreserves == ASSUME IInv, HandlerExit PROVE IInv'
<1> USE DEF IInv, HandlerExit, maps, hvars, gvars, sched
<1>1. TypeOK'
  BY DEF TypeOK, Nodes, Returned
<1>2. ControlInv'
  BY DEF ControlInv, Returned
<1>3. Holding' = Holding
  BY DEF Holding
<1>. QED BY <1>1, <1>2, <1>3, ControlStep DEF ControlInv

\* The scan: a step that is neither completed nor executing was never started.
LEMMA ScanReadyPreserves == ASSUME IInv, ScanReady PROVE IInv'
<1> USE DEF IInv, ScanReady, maps, hvars, gvars
<1>1. TypeOK'
  BY DEF TypeOK, Nodes
<1>2. ChanInv' /\ HandInv'
  BY DEF ChanInv, HandInv, Holding
<1>3. StepInv'
  BY DEF StepInv, Alive
<1>4. ReadyInv'
  <2>1. \A n \in ready' : /\ n \in Names /\ n \notin completed /\ n \notin executing
                          /\ DepsOf(n) \subseteq completed
    BY NodesAreNames DEF IsReady
  <2>2. \A n \in ready' : go[n] = "idle"
    BY <2>1 DEF StepInv
  <2>. QED BY <2>1, <2>2 DEF ReadyInv, DepsOf, Nodes
<1>5. MapInv' /\ RequireInv'
  BY DEF MapInv, RequireInv, DepsOf, Nodes
<1>6. ControlInv'
  BY DEF ControlInv
<1>. QED BY <1>1, <1>2, <1>3, <1>4, <1>5, <1>6

\* The start loop: cur becomes executing, with no result and no goroutine yet.
LEMMA LaunchPreserves == ASSUME IInv, Launch PROVE IInv'
<1> USE DEF IInv, hvars, gvars
<1>1. PICK n \in ready : /\ cur' = n /\ ready' = ready \ {n}
                         /\ executing' = executing \cup {n}
  BY DEF Launch
<1>2. /\ spc = "start" /\ spc' = "decide" /\ hpc # "locked"
      /\ UNCHANGED <<stage, completed, failed, results, resultMap, chan, hvars, gvars,
                     cancelled, ret, crashed>>
  BY DEF Launch, MuFree
<1>3. /\ n \in Nodes /\ n \in Names /\ n \notin completed /\ n \notin executing
      /\ go[n] = "idle" /\ DepsOf(n) \subseteq completed
  BY NodesAreNames DEF TypeOK, ReadyInv
<1>4. TypeOK'
  BY <1>1, <1>2, <1>3 DEF TypeOK, Nodes
<1>5. ChanInv' /\ HandInv'
  BY <1>1, <1>2, <1>3 DEF ChanInv, HandInv, Holding
<1>6. StepInv'
  BY <1>1, <1>2, <1>3 DEF StepInv, Alive
<1>7. ReadyInv'
  BY <1>1, <1>2, <1>3 DEF ReadyInv, DepsOf, Nodes
<1>8. MapInv' /\ RequireInv'
  BY <1>1, <1>2, <1>3 DEF MapInv, RequireInv, DepsOf, Nodes
<1>9. ControlInv'
  BY <1>1, <1>2, <1>3 DEF ControlInv
<1>. QED BY <1>4, <1>5, <1>6, <1>7, <1>8, <1>9

\* Putting one more result, of a step that has none, on the channel.
LEMMA AppendToChan ==
  ASSUME IInv, NEW r \in ResultRec,
         chan' = Append(chan, r), UNCHANGED <<executing, hand>>, Holding' = Holding,
         r.name \in executing, go'[r.name] \in {"idle", "sent"},
         spc' = "decide" => cur' # r.name,
         spc' = "decide" => spc = "decide" /\ cur' = cur,
         \A i \in 1..Len(chan) : /\ chan[i].name # r.name
                                 /\ go'[chan[i].name] = go[chan[i].name],
         Holding => hand.name # r.name
  PROVE  ChanInv' /\ chan' \in Seq(ResultRec)
<1>1. /\ chan' \in Seq(ResultRec) /\ Len(chan') = Len(chan) + 1 /\ Len(chan) \in Nat
      /\ \A i \in 1..Len(chan) : chan'[i] = chan[i]
      /\ chan'[Len(chan) + 1] = r
  BY AppendProperties, LenProperties DEF IInv, TypeOK
<1>2. \A i \in 1..Len(chan') : i \in 1..Len(chan) \/ i = Len(chan) + 1
  BY <1>1
<1>3. ASSUME NEW i \in 1..Len(chan')
      PROVE  /\ chan'[i].name \in executing'
             /\ go'[chan'[i].name] \in {"idle", "sent"}
             /\ spc' = "decide" => cur' # chan'[i].name
             /\ Holding' => hand'.name # chan'[i].name
  <2>1. CASE i \in 1..Len(chan)
    BY <1>1, <2>1 DEF IInv, ChanInv
  <2>2. CASE i = Len(chan) + 1
    BY <1>1, <2>2
  <2>. QED BY <1>2, <2>1, <2>2
<1>4. ASSUME NEW i \in 1..Len(chan'), NEW j \in 1..Len(chan'), chan'[i].name = chan'[j].name
      PROVE  i = j
  BY <1>1, <1>2, <1>4 DEF IInv, ChanInv
<1>. QED BY <1>1, <1>3, <1>4 DEF ChanInv

\* The scheduler reports cur as skipped.
LEMMA SkipPreserves ==
  ASSUME IInv, spc = "decide",
         chan' = Append(chan, Result(cur, "skipped")), NextStart,
         UNCHANGED <<stage, ready, maps, hvars, gvars, cancelled, ret, crashed>>
  PROVE  IInv'
<1> USE DEF IInv, maps, hvars, gvars
<1> DEFINE r == Result(cur, "skipped")
<1>1. /\ cur \in Names /\ cur \in Nodes /\ cur \in executing /\ go[cur] = "idle"
  BY NodesAreNames DEF ReadyInv
<1>2. r \in ResultRec /\ r.name = cur
  BY <1>1, ResultsAreRecords DEF Status
<1>3. spc' # "decide" /\ spc' \in {"top", "start"} /\ cur' = NoName
  BY DEF NextStart
<1>4. Holding' = Holding
  BY DEF Holding
<1>5. ChanInv' /\ chan' \in Seq(ResultRec)
  <2>1. \A i \in 1..Len(chan) : chan[i].name # cur
    BY DEF ChanInv
  <2>2. Holding => hand.name # cur
    BY DEF HandInv
  <2> HIDE DEF r
  <2>. QED BY <1>1, <1>2, <1>3, <1>4, <2>1, <2>2, AppendToChan DEF r
<1>6. TypeOK'
  BY <1>3, <1>5 DEF TypeOK, Nodes
<1>7. HandInv'
  BY <1>3, <1>4 DEF HandInv
<1>8. StepInv' /\ ReadyInv'
  BY <1>3 DEF StepInv, Alive, ReadyInv, DepsOf, Nodes
<1>9. MapInv' /\ RequireInv'
  BY DEF MapInv, RequireInv, DepsOf, Nodes
<1>10. ControlInv'
  BY <1>3 DEF ControlInv, NextStart
<1>. QED BY <1>5, <1>6, <1>7, <1>8, <1>9, <1>10

\* The scheduler starts the goroutine of cur, whose requirements completed
\* before it was chosen and none of which failed.
LEMMA SpawnPreserves == ASSUME IInv, Spawn PROVE IInv'
<1> USE DEF IInv, maps, hvars
<1>1. /\ spc = "decide" /\ ~HasFailedDependency(cur)
      /\ go' = [go EXCEPT ![cur] = "spawned"]
      /\ UNCHANGED <<stage, ready, maps, chan, hvars, res, cancelled, ret, crashed>>
  BY DEF Spawn
<1>2. spc' # "decide" /\ spc' \in {"top", "start"} /\ cur' = NoName
  BY DEF Spawn, NextStart
<1>3. /\ cur \in Names /\ cur \in Nodes /\ cur \in executing /\ go[cur] = "idle"
      /\ DepsOf(cur) \subseteq completed
  BY <1>1, NodesAreNames DEF ReadyInv
<1>4. /\ go \in [Names -> StepStates] /\ go'[cur] = "spawned"
      /\ \A n \in Names : n # cur => go'[n] = go[n]
  BY <1>1, <1>3 DEF TypeOK
<1>5. TypeOK'
  BY <1>1, <1>2, <1>3, <1>4 DEF TypeOK, Nodes, StepStates
<1>6. ChanInv'
  <2>1. \A i \in 1..Len(chan) : chan[i].name \in Names
    BY ElementOfSeq, RecordFields DEF TypeOK
  <2>. QED BY <1>1, <1>2, <1>4, <2>1 DEF ChanInv, Holding
<1>7. HandInv'
  BY <1>1, <1>2, <1>4, RecordFields DEF HandInv, Holding
<1>8. StepInv'
  BY <1>1, <1>2, <1>3, <1>4 DEF StepInv, Alive
<1>9. ReadyInv'
  BY <1>1, <1>2, <1>3, <1>4, NodesAreNames DEF ReadyInv, DepsOf, Nodes, TypeOK
<1>10. RequireInv'
  BY <1>1, <1>3, <1>4, NodesAreNames DEF RequireInv, DepsOf, Nodes, HasFailedDependency
<1>11. MapInv' /\ ControlInv'
  BY <1>1, <1>2, <1>3 DEF MapInv, ControlInv, Spawn, NextStart
<1>. QED BY <1>5, <1>6, <1>7, <1>8, <1>9, <1>10, <1>11

\* The handler takes the oldest result off the channel.
LEMMA HandlerRecvPreserves == ASSUME IInv, HandlerRecv PROVE IInv'
<1> USE DEF IInv, maps, gvars, sched
<1>1. /\ hpc = "recv" /\ chan # <<>> /\ hand' = Head(chan) /\ chan' = Tail(chan)
      /\ hpc' = "got"
      /\ UNCHANGED <<stage, sched, maps, gvars, cancelled, ret, crashed>>
  BY DEF HandlerRecv
<1>2. /\ chan \in Seq(ResultRec) /\ Len(chan) \in Nat \ {0} /\ Head(chan) = chan[1]
      /\ chan[1] \in ResultRec /\ chan' \in Seq(ResultRec) /\ Len(chan') = Len(chan) - 1
      /\ \A i \in 1..Len(chan') : chan'[i] = chan[i + 1]
  BY <1>1, HeadTailProperties, EmptySeq DEF TypeOK
<1>3. /\ 1 \in 1..Len(chan)
      /\ \A i \in 1..Len(chan') : i + 1 \in 1..Len(chan) /\ i + 1 # 1
  BY <1>2
<1>4. TypeOK'
  BY <1>1, <1>2 DEF TypeOK, Nodes
<1>5. ChanInv'
  <2>1. ASSUME NEW i \in 1..Len(chan')
        PROVE  /\ chan'[i].name \in executing'
               /\ go'[chan'[i].name] \in {"idle", "sent"}
               /\ spc' = "decide" => cur' # chan'[i].name
               /\ hand'.name # chan'[i].name
    BY <1>1, <1>2, <1>3 DEF ChanInv
  <2>2. ASSUME NEW i \in 1..Len(chan'), NEW j \in 1..Len(chan'),
               chan'[i].name = chan'[j].name
        PROVE  i = j
    <3>1. i + 1 = j + 1
      BY <1>2, <1>3, <2>2 DEF ChanInv
    <3>. QED BY <1>2, <3>1
  <2>. QED BY <2>1, <2>2 DEF ChanInv
<1>6. HandInv'
  BY <1>1, <1>2, <1>3, NoResultIsNone DEF HandInv, ChanInv, Holding
<1>7. StepInv' /\ ReadyInv'
  BY <1>1 DEF StepInv, Alive, ReadyInv, DepsOf, Nodes
<1>8. MapInv' /\ RequireInv'
  BY <1>1 DEF MapInv, RequireInv, DepsOf, Nodes
<1>9. ControlInv'
  BY <1>1 DEF ControlInv
<1>. QED BY <1>4, <1>5, <1>6, <1>7, <1>8, <1>9

\* The handler records its result: the step was executing, so neither the maps
\* nor the requirements of started steps mention it yet.
LEMMA HandlerApplyPreserves == ASSUME IInv, HandlerApply PROVE IInv'
<1> USE DEF IInv, gvars, sched
<1> DEFINE m == hand.name
<1>1. /\ hpc = "locked" /\ hpc' = "recv" /\ hand' = NoResult
      /\ results'   = Append(results, hand)
      /\ resultMap' = [resultMap EXCEPT ![m] = hand.status]
      /\ completed' = completed \cup {m}
      /\ executing' = executing \ {m}
      /\ failed'    = IF hand.status = "error" THEN failed \cup {m} ELSE failed
      /\ UNCHANGED <<stage, sched, chan, gvars, cancelled, ret, crashed>>
  BY DEF HandlerApply
<1>2. /\ hand \in ResultRec /\ m \in Names /\ hand.status \in Status
      /\ m \in executing /\ m \in Nodes /\ m \notin completed
      /\ go[m] \in {"idle", "sent"} /\ (spc = "decide" => cur # m)
  BY <1>1, RecordFields DEF HandInv, Holding, MapInv, TypeOK
<1>3. /\ resultMap \in [Names -> Status \cup {"none"}] /\ resultMap'[m] = hand.status
      /\ \A n \in Names : n # m => resultMap'[n] = resultMap[n]
  BY <1>1, <1>2 DEF TypeOK
<1>4. TypeOK'
  <2>1. results' \in Seq(ResultRec)
    BY <1>1, <1>2, AppendProperties DEF TypeOK
  <2>2. resultMap' \in [Names -> Status \cup {"none"}]
    BY <1>1, <1>2 DEF TypeOK
  <2>. QED BY <1>1, <1>2, <2>1, <2>2 DEF TypeOK, Nodes
<1>5. ChanInv'
  BY <1>1, <1>2 DEF ChanInv, Holding
<1>6. HandInv'
  BY <1>1 DEF HandInv, Holding
<1>7. StepInv'
  BY <1>1, <1>2 DEF StepInv, Alive
<1>8. ReadyInv'
  BY <1>1, <1>2 DEF ReadyInv, DepsOf, Nodes
<1>9. MapInv'
  <2>1. completed' \cap executing' = {}
    BY <1>1 DEF MapInv
  <2>2. completed \subseteq Names
    BY NodesAreNames DEF TypeOK
  <2>3. failed' = {n \in completed' : resultMap'[n] = "error"}
    BY <1>1, <1>2, <1>3, <2>2 DEF MapInv
  <2>4. \A n \in Names \ completed' : resultMap'[n] = "none"
    BY <1>1, <1>3 DEF MapInv
  <2>. QED BY <2>1, <2>3, <2>4 DEF MapInv
<1>10. RequireInv'
  BY <1>1, <1>2 DEF RequireInv, DepsOf, Nodes
<1>11. ControlInv'
  BY <1>1, <1>2 DEF ControlInv
<1>. QED BY <1>4, <1>5, <1>6, <1>7, <1>8, <1>9, <1>10, <1>11

\* A goroutine moves on without touching anything shared.
LEMMA GoroutineStep ==
  ASSUME IInv, NEW n \in Names, Alive(n),
         NEW s \in {"running", "reported", "checked"}, go' = [go EXCEPT ![n] = s],
         NEW r \in ResultRec, s # "running" => r.name = n,
         res' = IF s = "running" THEN res ELSE [res EXCEPT ![n] = r],
         UNCHANGED <<stage, sched, maps, chan, hvars, cancelled, ret, crashed>>
  PROVE  IInv'
<1> USE DEF IInv, maps, hvars, sched
<1>1. /\ go \in [Names -> StepStates] /\ go'[n] = s
      /\ \A k \in Names : k # n => go'[k] = go[k]
  BY DEF TypeOK
<1>2. /\ s # "running" => res'[n] = r
      /\ \A k \in Names : k # n => res'[k] = res[k]
  BY DEF TypeOK
<1>3. TypeOK'
  BY DEF TypeOK, Nodes, StepStates
<1>4. ChanInv'
  <2>1. \A i \in 1..Len(chan) : chan[i].name \in Names
    BY ElementOfSeq, RecordFields DEF TypeOK
  <2>. QED BY <1>1, <2>1 DEF ChanInv, Holding, Alive
<1>5. HandInv'
  BY <1>1, RecordFields DEF HandInv, Holding, Alive
<1>6. StepInv'
  BY <1>1, <1>2 DEF StepInv, Alive
<1>7. ReadyInv'
  <2>1. ready \subseteq Names /\ Nodes \subseteq Names
    BY NodesAreNames DEF TypeOK
  <2>2. n \notin ready /\ (spc = "decide" => cur # n)
    BY DEF StepInv, ReadyInv
  <2>. QED BY <1>1, <2>1, <2>2 DEF ReadyInv, DepsOf, Nodes
<1>8. RequireInv'
  BY <1>1, NodesAreNames DEF RequireInv, DepsOf, Nodes, Alive
<1>9. MapInv' /\ ControlInv'
  BY DEF MapInv, ControlInv
<1>. QED BY <1>3, <1>4, <1>5, <1>6, <1>7, <1>8, <1>9

\* A goroutine reports its start and calls its action.
LEMMA StepStartPreserves ==
  ASSUME IInv, NEW n \in Names, StepStart(n) PROVE IInv'
<1>1. Result(n, "ok") \in ResultRec
  BY ResultsAreRecords DEF Status
<1>. QED BY <1>1, GoroutineStep DEF StepStart, Alive

\* The action of a goroutine returns.
LEMMA StepFinishPreserves ==
  ASSUME IInv, NEW n \in Names, NEW o \in Outcomes, StepFinish(n, o) PROVE IInv'
<1>1. Result(n, ResultStatus(n, o)) \in ResultRec /\ Result(n, ResultStatus(n, o)).name = n
  BY OutcomeStatus, ResultsAreRecords
<1>. QED BY <1>1, GoroutineStep DEF StepFinish, Alive

\* A goroutine looks at the context before it sends.
LEMMA StepCheckCtxPreserves ==
  ASSUME IInv, NEW n \in Names, StepCheckCtx(n) PROVE IInv'
<1> DEFINE r == IF cancelled THEN Result(n, "error") ELSE res[n]
<1>1. res[n] \in ResultRec /\ res[n].name = n
  BY DEF StepCheckCtx, IInv, StepInv
<1>2. Result(n, "error") \in ResultRec /\ Result(n, "error").name = n
  BY ResultsAreRecords DEF Status
<1>3. r \in ResultRec /\ r.name = n
  BY <1>1, <1>2
<1>4. res' = [res EXCEPT ![n] = r]
  BY DEF StepCheckCtx, IInv, TypeOK
<1> HIDE DEF r
<1>. QED BY <1>3, <1>4, GoroutineStep DEF StepCheckCtx, Alive

\* A goroutine hands its result over; it had none on the way before.
LEMMA StepSendPreserves ==
  ASSUME IInv, NEW n \in Names, StepSend(n) PROVE IInv'
<1> USE DEF IInv, maps, hvars, sched
<1>1. /\ go[n] = "checked" /\ go' = [go EXCEPT ![n] = "sent"]
      /\ chan' = Append(chan, res[n])
      /\ UNCHANGED <<stage, sched, maps, hvars, res, cancelled, ret, crashed>>
  BY DEF StepSend
<1>2. /\ res[n] \in ResultRec /\ res[n].name = n /\ n \in executing
      /\ (spc = "decide" => cur # n)
  BY <1>1 DEF StepInv, Alive
<1>3. /\ go \in [Names -> StepStates] /\ go'[n] = "sent"
      /\ \A k \in Names : k # n => go'[k] = go[k]
  BY <1>1 DEF TypeOK
<1>4. Holding' = Holding
  BY <1>1 DEF Holding
<1>5. ChanInv' /\ chan' \in Seq(ResultRec)
  <2>1. \A i \in 1..Len(chan) : chan[i].name # n /\ chan[i].name \in Names
    BY <1>1, ElementOfSeq, RecordFields DEF ChanInv, TypeOK
  <2>2. Holding => hand.name # n
    BY <1>1 DEF HandInv
  <2>. QED BY <1>1, <1>2, <1>3, <1>4, <2>1, <2>2, AppendToChan
<1>6. TypeOK'
  BY <1>1, <1>3, <1>5 DEF TypeOK, Nodes, StepStates
<1>7. HandInv'
  BY <1>1, <1>3, <1>4, RecordFields DEF HandInv
<1>8. StepInv'
  BY <1>1, <1>2, <1>3 DEF StepInv, Alive
<1>9. ReadyInv'
  <2>1. ready \subseteq Names /\ Nodes \subseteq Names
    BY NodesAreNames DEF TypeOK
  <2>. QED BY <1>1, <1>2, <1>3, <2>1 DEF ReadyInv, DepsOf, Nodes
<1>10. RequireInv'
  BY <1>1, <1>3, NodesAreNames DEF RequireInv, DepsOf, Nodes
<1>11. MapInv' /\ ControlInv'
  BY <1>1 DEF MapInv, ControlInv
<1>. QED BY <1>5, <1>6, <1>7, <1>8, <1>9, <1>10, <1>11

-----------------------------------------------------------------------------
(* The invariant holds *)

\* Every step of the executor preserves the invariant.
LEMMA IInvInductive == IInv /\ [Next]_vars => IInv'
<1> SUFFICES ASSUME IInv, [Next]_vars PROVE IInv'
  OBVIOUS
<1>1. CASE Caller
  BY <1>1, BuildDAGPreserves, MainReturnPreserves DEF Caller
<1>2. CASE Cancel
  BY <1>2, CancelPreserves
<1>3. CASE Scheduler
  <2>1. CASE SkipFailedDep \/ SkipCondition
    BY <2>1, SkipPreserves DEF SkipFailedDep, SkipCondition
  <2>. QED
    BY <1>3, <2>1, SchedulerTopPreserves, ScanReadyPreserves, AllDonePreserves,
       AbandonStartPreserves, LaunchPreserves, SpawnPreserves, MapFaultPreserves,
       CloseChannelPreserves DEF Scheduler, Decide
<1>4. CASE Handler
  BY <1>4, HandlerRecvPreserves, HandlerLockPreserves, HandlerApplyPreserves,
     HandlerExitPreserves DEF Handler
<1>5. ASSUME NEW n \in Names, StepGoroutine(n) PROVE IInv'
  BY <1>5, StepStartPreserves, StepFinishPreserves, StepCheckCtxPreserves,
     StepSendPreserves DEF StepGoroutine, StepRun
<1>6. CASE UNCHANGED vars
  <2> USE <1>6 DEF vars, IInv, maps, hvars, gvars, sched
  <2>1. TypeOK'
    BY DEF TypeOK, Nodes
  <2>2. ControlInv' /\ Holding' = Holding
    BY DEF ControlInv, Holding
  <2>. QED BY <2>1, <2>2, ControlStep
<1>. QED BY <1>1, <1>2, <1>3, <1>4, <1>5, <1>6 DEF Next, Ended

\* The inductive invariant holds in every reachable state: the goroutines,
\* the channel and the maps of executeDAGWithCallback stay related as it says.
THEOREM Invariance == Safety => []IInv
  BY IInvInit, IInvInductive, PTL DEF Safety

\* The state of the executor always has its type.
THEOREM TypeCorrect == Safety => []TypeOK
<1>1. IInv => TypeOK
  BY DEF IInv
<1>. QED BY <1>1, Invariance, PTL

\* A step runs only after all its requirements completed without an error, for
\* every stage and every interleaving, the unlocked failure test included.
THEOREM RequirementsRespected == Safety => []RequireRespected
<1>1. IInv => RequireRespected
  BY DEF IInv, RequireInv, RequireRespected, MapInv
<1>. QED BY <1>1, Invariance, PTL

\* No goroutine can ever send on the closed result channel.
THEOREM ChannelSafe == Safety => []NoSendOnClosed
<1>1. ASSUME IInv, spc = "closed"
      PROVE  chan = <<>> /\ hand = NoResult /\ \A n \in Names : ~Alive(n)
  <2>1. executing = {}
    BY <1>1 DEF IInv, ControlInv
  <2>2. chan = <<>>
    <3>1. ~(1 \in 1..Len(chan))
      BY <1>1, <2>1 DEF IInv, ChanInv
    <3>. QED BY <1>1, <3>1, EmptySeq DEF IInv, TypeOK
  <2>. QED BY <1>1, <2>1, <2>2 DEF IInv, HandInv, StepInv
<1>2. IInv => NoSendOnClosed
  BY <1>1 DEF NoSendOnClosed
<1>. QED BY <1>2, Invariance, PTL

\* The call returns only when every goroutine it started is done with its work.
THEOREM NothingRunsAfterReturn == Safety => []ReturnQuiescent
<1>1. IInv => ReturnQuiescent
  BY DEF IInv, ReturnQuiescent, ControlInv, StepInv
<1>. QED BY <1>1, Invariance, PTL

\* A recorded result is final: only the handler writes the maps, and never for
\* a step that has completed.
THEOREM ResultsAreFinal == Safety => ResultFinal
<1>1. ASSUME IInv, IInv', [Next]_vars, NEW n \in completed
      PROVE  n \in completed' /\ n \notin executing' /\ resultMap'[n] = resultMap[n]
  <2>1. CASE HandlerApply
    BY <1>1, <2>1, RecordFields, NodesAreNames
       DEF HandlerApply, IInv, HandInv, Holding, MapInv, TypeOK
  <2>2. CASE UNCHANGED <<completed, resultMap>>
    BY <1>1, <2>2 DEF IInv, MapInv
  <2>. QED
    BY <1>1, <2>1, <2>2
       DEF Next, vars, maps, Ended, Caller, Scheduler, Decide, Handler, Cancel,
           StepGoroutine, StepRun, BuildDAG, MainReturn, SchedulerTop, ScanReady, AllDone,
           AbandonStart, Launch, SkipFailedDep, SkipCondition, Spawn, MapFault,
           CloseChannel, HandlerRecv, HandlerLock, HandlerExit,
           StepStart, StepFinish, StepCheckCtx, StepSend
<1>2. IInv /\ IInv' /\ [Next]_vars
        => [\A n \in completed : /\ n \in completed' /\ n \notin executing'
                                 /\ resultMap'[n] = resultMap[n]]_vars
  BY <1>1
<1>. QED BY <1>2, Invariance, PTL DEF Safety, ResultFinal

-----------------------------------------------------------------------------
(* The verdict *)

\* Only the handler adds results and only the caller returns.
LEMMA WhoWrites ==
  ASSUME [Next]_vars
  PROVE  /\ stage' = stage
         /\ HandlerApply \/ UNCHANGED <<results, resultMap, completed>>
         /\ BuildDAG \/ MainReturn \/ UNCHANGED ret
         /\ cancelled => cancelled'
  BY DEF Next, vars, maps, sched, Ended, Caller, Scheduler, Decide, Handler, Cancel,
         StepGoroutine, StepRun, BuildDAG, MainReturn, SchedulerTop, ScanReady, AllDone,
         AbandonStart, Launch, SkipFailedDep, SkipCondition, Spawn, MapFault,
         CloseChannel, HandlerRecv, HandlerLock, HandlerApply, HandlerExit,
         StepStart, StepFinish, StepCheckCtx, StepSend

\* A step enters the drain phase after AllDone or a cancellation only.
LEMMA WhoDrains ==
  ASSUME [Next]_vars
  PROVE  \/ UNCHANGED <<spc, hpc>>
         \/ hpc' \notin {"off"} /\ spc' = spc /\ hpc # "off"
         \/ spc' \notin {"drain", "closed"}
         \/ cancelled /\ spc' = "drain"
         \/ AllDone \/ CloseChannel
         \/ BuildDAG /\ spc' = "closed" /\ UNCHANGED hpc
  BY DEF Next, vars, maps, sched, hvars, Ended, Caller, Scheduler, Decide, Handler, Cancel,
         StepGoroutine, StepRun, BuildDAG, MainReturn, SchedulerTop, ScanReady, NextStart,
         AbandonStart, Launch, SkipFailedDep, SkipCondition, Spawn, MapFault,
         HandlerRecv, HandlerLock, HandlerApply, HandlerExit,
         StepStart, StepFinish, StepCheckCtx, StepSend

\* The strengthening for results and verdict holds initially.
LEMMA VInvInit == Init => VInv
<1> SUFFICES ASSUME Init PROVE VInv
  OBVIOUS
<1>1. ExactlyOneResult
  BY DEF Init, ExactlyOneResult
<1>2. DoneInv /\ VerdictSound
  BY DEF Init, DoneInv, VerdictSound, Returned
<1>. QED BY <1>1, <1>2, IInvInit DEF VInv

\* Every step keeps at most one result for each node, on every list alike.
LEMMA OneResultPreserved ==
  ASSUME IInv, ExactlyOneResult, [Next]_vars PROVE ExactlyOneResult'
<1>1. CASE UNCHANGED <<results, resultMap, completed>>
  BY <1>1 DEF ExactlyOneResult
<1>2. CASE HandlerApply
  <2> DEFINE L == Len(results)
  <2>1. /\ hand \in ResultRec /\ hand.name \in Names /\ hand.name \notin completed
        /\ results' = Append(results, hand) /\ completed' = completed \cup {hand.name}
        /\ resultMap' = [resultMap EXCEPT ![hand.name] = hand.status]
        /\ resultMap \in [Names -> Status \cup {"none"}]
    BY <1>2, RecordFields DEF HandlerApply, IInv, HandInv, Holding, MapInv, TypeOK
  <2>2. /\ L \in Nat /\ DOMAIN results = 1..L /\ DOMAIN results' = 1..(L + 1)
        /\ \A i \in 1..L : results'[i] = results[i] /\ results[i].name \in Names
        /\ results'[L + 1] = hand
    BY <2>1, AppendProperties, LenProperties, ElementOfSeq, RecordFields DEF IInv, TypeOK
  <2> HIDE DEF L
  <2>3. /\ \A i \in 1..(L + 1) : i \in 1..L \/ i = L + 1
        /\ \A i \in 1..L : i \in 1..(L + 1) /\ i # L + 1
        /\ L + 1 \in 1..(L + 1)
    BY <2>2
  <2>4. \A i \in 1..L : results[i].name \in completed /\ results[i].name # hand.name
    BY <2>1, <2>2 DEF ExactlyOneResult
  <2>5. \A i, j \in 1..(L + 1) : results'[i].name = results'[j].name => i = j
    BY <2>2, <2>3, <2>4 DEF ExactlyOneResult
  <2>6. completed' = {results'[i].name : i \in 1..(L + 1)}
    BY <2>1, <2>2, <2>3 DEF ExactlyOneResult
  <2>7. \A i \in 1..(L + 1) : resultMap'[results'[i].name] = results'[i].status
    BY <2>1, <2>2, <2>3, <2>4 DEF ExactlyOneResult
  <2>. QED BY <2>2, <2>5, <2>6, <2>7 DEF ExactlyOneResult
<1>. QED BY <1>1, <1>2, WhoWrites

\* A scheduler that is done without cancellation has completed everything.
LEMMA DonePreserved ==
  ASSUME IInv, DoneInv, [Next]_vars PROVE DoneInv'
<1>1. Nodes' = Nodes /\ completed \subseteq completed' /\ (cancelled => cancelled')
  BY WhoWrites DEF HandlerApply, Nodes
<1>2. CASE UNCHANGED <<spc, hpc>>
  BY <1>1, <1>2 DEF DoneInv
<1>3. CASE hpc' \notin {"off"} /\ spc' = spc /\ hpc # "off"
  BY <1>1, <1>3 DEF DoneInv
<1>4. CASE spc' \notin {"drain", "closed"}
  BY <1>4 DEF DoneInv
<1>5. CASE cancelled /\ spc' = "drain"
  BY <1>1, <1>5 DEF DoneInv
<1>6. CASE AllDone
  <2>1. spc' = "drain" => Nodes \subseteq completed
    BY <1>6 DEF AllDone, IInv, MapInv
  <2>. QED BY <1>1, <1>6, <2>1 DEF AllDone, DoneInv
<1>7. CASE CloseChannel
  BY <1>1, <1>7 DEF CloseChannel, DoneInv, hvars
<1>8. CASE BuildDAG /\ spc' = "closed" /\ UNCHANGED hpc
  BY <1>8 DEF BuildDAG, DoneInv, IInv, ControlInv
<1>. QED BY <1>2, <1>3, <1>4, <1>5, <1>6, <1>7, <1>8, WhoDrains

\* The verdict is computed from the results it is justified by.
LEMMA VerdictPreserved ==
  ASSUME VInv, [Next]_vars PROVE VerdictSound'
<1> USE DEF VInv
<1>1. stage' = stage /\ Nodes' = Nodes /\ (cancelled => cancelled')
  BY WhoWrites DEF Nodes
<1>2. CASE BuildDAG
  BY <1>1, <1>2 DEF BuildDAG, VerdictSound, Returned, IInv, ControlInv, maps
<1>3. CASE MainReturn
  <2>1. /\ hpc = "done" /\ spc = "closed" /\ completed \subseteq Nodes
        /\ UNCHANGED <<resultMap, completed, cancelled>>
    BY <1>3 DEF MainReturn, IInv, ControlInv, TypeOK, maps
  <2>2. CASE \E i \in DOMAIN results :
               /\ Fatal(i) /\ \A j \in 1..(i - 1) : ~Fatal(j)
               /\ ret' = Returned("step", results[i].name)
    <3>1. cancelled \/ completed = Nodes
      BY <2>1 DEF DoneInv
    <3>2. PICK i \in DOMAIN results : Fatal(i) /\ ret' = Returned("step", results[i].name)
      BY <2>2
    <3>3. resultMap[ret'.name] = "error" /\ ~Waived(stage, ret'.name) /\ ret'.kind = "step"
      BY <3>2 DEF Fatal, ExactlyOneResult, Returned
    <3>. QED BY <1>1, <2>1, <3>1, <3>3 DEF VerdictSound
  <2>3. CASE /\ \A i \in DOMAIN results : ~Fatal(i)
             /\ ret' = Returned(IF cancelled THEN "ctx" ELSE "nil", NoName)
    <3>1. \A n \in completed : resultMap[n] = "error" => Waived(stage, n)
      BY <2>3 DEF Fatal, ExactlyOneResult
    <3>2. CASE cancelled
      BY <1>1, <2>1, <2>3, <3>2 DEF VerdictSound, Returned
    <3>3. CASE ~cancelled
      <4>1. completed = Nodes
        BY <2>1, <3>3 DEF DoneInv
      <4>. QED BY <1>1, <2>1, <2>3, <3>1, <3>3, <4>1 DEF VerdictSound, Returned
    <3>. QED BY <3>2, <3>3
  <2>. QED BY <1>3, <2>2, <2>3 DEF MainReturn
<1>4. CASE UNCHANGED ret
  <2>1. CASE UNCHANGED <<resultMap, completed>>
    BY <1>1, <1>4, <2>1 DEF VerdictSound
  <2>2. CASE HandlerApply
    BY <1>4, <2>2 DEF HandlerApply, IInv, ControlInv, VerdictSound
  <2>. QED BY <2>1, <2>2, WhoWrites
<1>. QED BY <1>2, <1>3, <1>4, WhoWrites

\* Every step of the executor preserves the strengthening.
LEMMA VInvInductive == VInv /\ [Next]_vars => VInv'
  BY IInvInductive, OneResultPreserved, DonePreserved, VerdictPreserved DEF VInv

\* Each step is reported at most once, and list, map and completed set agree.
THEOREM ResultsAgree == Safety => []ExactlyOneResult
<1>1. VInv => ExactlyOneResult
  BY DEF VInv
<1>. QED BY VInvInit, VInvInductive, <1>1, PTL DEF Safety

\* The verdict is justified by the results: success only if every step of the
\* stage completed and every error is forgiven by the onerror policy, failure
\* only after every step was run or skipped, unless the context was cancelled.
THEOREM VerdictIsSound == Safety => []VerdictSound
<1>1. VInv => VerdictSound
  BY DEF VInv
<1>. QED BY VInvInit, VInvInductive, <1>1, PTL DEF Safety

-----------------------------------------------------------------------------
(* The result channel never fills up *)

\* The results in the channel belong to different steps, none of them x: they
\* are fewer than the steps.
LEMMA RoomForOneMore ==
  ASSUME IInv, NEW x \in Nodes, \A i \in 1..Len(chan) : chan[i].name # x
  PROVE  CanSend
<1> DEFINE f == [i \in 1..Len(chan) |-> chan[i].name]
<1>1. Len(chan) \in Nat
  BY LenProperties DEF IInv, TypeOK
<1>2. IsFiniteSet(Nodes) /\ IsFiniteSet(Nodes \ {x})
      /\ Cardinality(Nodes \ {x}) = Cardinality(Nodes) - 1
      /\ Cardinality(Nodes) \in Nat
  <2>1. IsFiniteSet(Nodes)
    BY NodesAreNames, NamesAssumption, FS_Subset DEF IInv
  <2>. QED BY <2>1, FS_RemoveElement, FS_CardinalityType
<1>3. \A i \in 1..Len(chan) : chan[i].name \in Nodes \ {x}
  BY DEF IInv, ChanInv, TypeOK
<1>4. f \in [1..Len(chan) -> Nodes \ {x}]
  BY <1>3
<1>5. \A i, j \in 1..Len(chan) : f[i] = f[j] => i = j
  BY DEF IInv, ChanInv
<1>6. f \in Injection(1..Len(chan), Nodes \ {x})
  BY <1>4, <1>5, Fun_IsInj
<1>7. Cardinality(1..Len(chan)) <= Cardinality(Nodes \ {x})
  BY <1>2, <1>6, FS_Injection
<1>8. Cardinality(1..Len(chan)) = Len(chan)
  <2>1. 1 \in Int /\ Len(chan) \in Int
    BY <1>1
  <2>2. Cardinality(1..Len(chan)) = IF 1 > Len(chan) THEN 0 ELSE Len(chan) - 1 + 1
    BY <2>1, FS_Interval
  <2>. QED BY <1>1, <2>2
<1>. QED BY <1>1, <1>2, <1>7, <1>8 DEF CanSend

\* The buffer of len(dag) results is large enough: neither the scheduler, when
\* it reports a skipped step, nor a step goroutine is ever blocked in a send.
THEOREM SendsNeverBlock == Safety => []SendNeverBlocks
<1>1. ASSUME IInv, spc = "decide" PROVE CanSend
  <2>1. cur \in Nodes /\ \A i \in 1..Len(chan) : chan[i].name # cur
    BY <1>1 DEF IInv, ChanInv, ReadyInv
  <2>. QED BY <1>1, <2>1, RoomForOneMore
<1>2. ASSUME IInv, NEW n \in Names, go[n] = "checked" PROVE CanSend
  <2>1. n \in Nodes /\ \A i \in 1..Len(chan) : chan[i].name # n
    BY <1>2 DEF IInv, ChanInv, StepInv, Alive, TypeOK
  <2>. QED BY <1>2, <2>1, RoomForOneMore
<1>3. IInv => SendNeverBlocks
  BY <1>1, <1>2 DEF SendNeverBlocks
<1>. QED BY <1>3, Invariance, PTL

-----------------------------------------------------------------------------
(* Every skip has a reason *)

\* Failures are never taken back, goroutines never forgotten.
LEMMA OnlyForward ==
  ASSUME IInv, [Next]_vars
  PROVE  /\ stage' = stage /\ failed \subseteq failed'
         /\ \A n \in Names : go'[n] = "idle" => go[n] = "idle"
<1>1. stage' = stage /\ failed \subseteq failed'
  BY DEF Next, vars, maps, sched, Ended, Caller, Scheduler, Decide, Handler, Cancel,
         StepGoroutine, StepRun, BuildDAG, MainReturn, SchedulerTop, ScanReady, AllDone,
         AbandonStart, Launch, SkipFailedDep, SkipCondition, Spawn, MapFault,
         CloseChannel, HandlerRecv, HandlerLock, HandlerApply, HandlerExit,
         StepStart, StepFinish, StepCheckCtx, StepSend
<1>2. \/ UNCHANGED go
      \/ \E n \in Names : \E s \in StepStates \ {"idle"} : go' = [go EXCEPT ![n] = s]
  <2>1. spc = "decide" => cur \in Names
    BY NodesAreNames DEF IInv, ReadyInv
  <2>. QED
    BY <2>1
       DEF Next, vars, maps, sched, gvars, Ended, Caller, Scheduler, Decide, Handler, Cancel,
         StepGoroutine, StepRun, BuildDAG, MainReturn, SchedulerTop, ScanReady, AllDone,
         AbandonStart, Launch, SkipFailedDep, SkipCondition, Spawn, MapFault,
         CloseChannel, HandlerRecv, HandlerLock, HandlerApply, HandlerExit,
         StepStart, StepFinish, StepCheckCtx, StepSend, StepStates
<1>3. \A n \in Names : go'[n] = "idle" => go[n] = "idle"
  BY <1>2 DEF IInv, TypeOK
<1>. QED BY <1>1, <1>3

\* The rest of SkipInv, when the channel gets the result of a step for which
\* it holds, and hand and maps stay.
LEMMA SkipInvAppend ==
  ASSUME IInv, SkipInv, [Next]_vars, NEW r \in ResultRec, chan' = Append(chan, r),
         UNCHANGED <<hpc, hand, completed, resultMap>>,
         go'[r.name] = "idle" => r.status = "skipped" /\ SkipReason(r.name)
  PROVE  SkipInv'
<1>1. /\ stage' = stage /\ failed \subseteq failed'
      /\ \A n \in Names : go'[n] = "idle" => go[n] = "idle"
  BY OnlyForward
<1>2. \A n \in Names : SkipReason(n) =>
        HasCond(stage', n) \/ Deps(stage', n) \cap failed' # {}
  BY <1>1 DEF SkipReason, DepsOf
<1>3. /\ Len(chan') = Len(chan) + 1 /\ Len(chan) \in Nat
      /\ \A i \in 1..Len(chan) : chan'[i] = chan[i] /\ chan[i].name \in Names
      /\ chan'[Len(chan) + 1] = r
  BY AppendProperties, LenProperties, ElementOfSeq, RecordFields DEF IInv, TypeOK
<1>4. \A i \in 1..Len(chan') : i \in 1..Len(chan) \/ i = Len(chan) + 1
  BY <1>3
<1>5. \A i \in 1..Len(chan') : go'[chan'[i].name] = "idle" =>
        /\ chan'[i].status = "skipped"
        /\ HasCond(stage', chan'[i].name) \/ Deps(stage', chan'[i].name) \cap failed' # {}
  BY <1>1, <1>2, <1>3, <1>4, RecordFields DEF SkipInv
<1>6. Holding' = Holding /\ (Holding => hand.name \in Names)
  BY RecordFields DEF Holding, IInv, HandInv
<1>7. completed \subseteq Names
  BY NodesAreNames DEF IInv, TypeOK
<1>. QED BY <1>1, <1>2, <1>5, <1>6, <1>7 DEF SkipInv, SkipReason, DepsOf

\* Every step of the executor keeps the reasons of the skips.
LEMMA SkipPreserved ==
  ASSUME IInv, SkipInv, [Next]_vars PROVE SkipInv'
<1>1. /\ stage' = stage /\ failed \subseteq failed'
      /\ \A n \in Names : go'[n] = "idle" => go[n] = "idle"
  BY OnlyForward
<1>2. \A n \in Names : SkipReason(n) =>
        HasCond(stage', n) \/ Deps(stage', n) \cap failed' # {}
  BY <1>1 DEF SkipReason, DepsOf
<1>3. /\ \A i \in 1..Len(chan) : chan[i].name \in Names
      /\ Holding => hand.name \in Names /\ hand \in ResultRec
      /\ completed \subseteq Names
  BY ElementOfSeq, RecordFields, NodesAreNames DEF IInv, HandInv, TypeOK
<1>4. CASE SkipFailedDep \/ SkipCondition
  <2>1. cur \in Names
    BY <1>4, NodesAreNames DEF SkipFailedDep, SkipCondition, IInv, ReadyInv
  <2>2. SkipReason(cur)
    BY <1>4 DEF SkipFailedDep, SkipCondition, HasFailedDependency, SkipReason
  <2>3. /\ Result(cur, "skipped") \in ResultRec
        /\ Result(cur, "skipped").name = cur /\ Result(cur, "skipped").status = "skipped"
    BY <2>1, ResultsAreRecords DEF Status
  <2>. QED BY <1>4, <2>2, <2>3, SkipInvAppend DEF SkipFailedDep, SkipCondition, hvars, maps
<1>5. ASSUME NEW n \in Names, StepSend(n) PROVE SkipInv'
  <2>1. res[n] \in ResultRec /\ res[n].name = n /\ go'[n] = "sent"
    BY <1>5 DEF StepSend, IInv, StepInv, TypeOK
  <2>. QED BY <1>5, <2>1, SkipInvAppend DEF StepSend, hvars, maps
<1>6. CASE HandlerRecv
  <2>1. /\ Len(chan) \in Nat \ {0} /\ Head(chan) = chan[1]
        /\ Len(chan') = Len(chan) - 1
        /\ \A i \in 1..Len(chan') : chan'[i] = chan[i + 1]
    BY <1>6, HeadTailProperties, EmptySeq DEF HandlerRecv, IInv, TypeOK
  <2>2. 1 \in 1..Len(chan) /\ \A i \in 1..Len(chan') : i + 1 \in 1..Len(chan)
    BY <2>1
  <2>3. UNCHANGED <<completed, resultMap>> /\ hand' = chan[1]
    BY <1>6, <2>1 DEF HandlerRecv, maps
  <2>4. \A i \in 1..Len(chan) : go'[chan[i].name] = "idle" =>
          /\ chan[i].status = "skipped"
          /\ HasCond(stage', chan[i].name) \/ Deps(stage', chan[i].name) \cap failed' # {}
    BY <1>1, <1>2, <1>3 DEF SkipInv
  <2>5. \A i \in 1..Len(chan') : go'[chan'[i].name] = "idle" =>
          /\ chan'[i].status = "skipped"
          /\ HasCond(stage', chan'[i].name) \/ Deps(stage', chan'[i].name) \cap failed' # {}
    BY <2>1, <2>2, <2>4
  <2>6. \A n \in completed' : go'[n] = "idle" =>
          /\ resultMap'[n] = "skipped"
          /\ HasCond(stage', n) \/ Deps(stage', n) \cap failed' # {}
    BY <1>1, <1>2, <1>3, <2>3 DEF SkipInv
  <2>. QED BY <2>2, <2>3, <2>4, <2>5, <2>6 DEF SkipInv, SkipReason, DepsOf
<1>7. CASE HandlerApply
  <2>1. /\ hpc = "locked" /\ Holding /\ ~Holding' /\ UNCHANGED <<chan, go>>
        /\ completed' = completed \cup {hand.name}
        /\ resultMap' = [resultMap EXCEPT ![hand.name] = hand.status]
        /\ resultMap \in [Names -> Status \cup {"none"}]
    BY <1>7 DEF HandlerApply, Holding, gvars, IInv, TypeOK
  <2>2. \A n \in completed' : go'[n] = "idle" =>
          /\ resultMap'[n] = "skipped"
          /\ HasCond(stage', n) \/ Deps(stage', n) \cap failed' # {}
    BY <1>1, <1>2, <1>3, <2>1 DEF SkipInv
  <2>. QED BY <1>1, <1>2, <1>3, <2>1, <2>2 DEF SkipInv, SkipReason, DepsOf
<1>8. CASE UNCHANGED <<chan, hand, completed, resultMap>> /\ Holding' = Holding
  BY <1>1, <1>2, <1>3, <1>8 DEF SkipInv, SkipReason, DepsOf
<1>9. CASE BuildDAG
  BY <1>8, <1>9 DEF BuildDAG, IInv, ControlInv, Holding, maps
<1>. QED
  BY <1>4, <1>5, <1>6, <1>7, <1>8, <1>9
     DEF Next, vars, maps, sched, gvars, hvars, Ended, Caller, Scheduler, Decide, Handler, Cancel,
         StepGoroutine, StepRun, MainReturn, SchedulerTop, ScanReady, AllDone,
         AbandonStart, Launch, Spawn, MapFault, Holding,
         CloseChannel, HandlerLock, HandlerExit,
         StepStart, StepFinish, StepCheckCtx

\* The handler runs only for graphs buildDAG accepts, and before it nothing
\* has completed.
LEMMA StartPreserved ==
  ASSUME StartInv, IInv, [Next]_vars PROVE StartInv'
<1>1. stage' = stage
  BY OnlyForward
<1>2. CASE BuildDAG
  BY <1>1, <1>2 DEF BuildDAG, StartInv, IInv, ControlInv, maps
<1>3. CASE HandlerApply
  BY <1>1, <1>3 DEF HandlerApply, StartInv
<1>4. CASE (hpc' = "off" <=> hpc = "off") /\ UNCHANGED completed
  BY <1>1, <1>4 DEF StartInv
<1>. QED
  BY <1>2, <1>3, <1>4
     DEF Next, vars, maps, sched, gvars, hvars, Ended, Caller, Scheduler, Decide, Handler, Cancel,
         StepGoroutine, StepRun, MainReturn, SchedulerTop, ScanReady, AllDone,
         AbandonStart, Launch, SkipFailedDep, SkipCondition, Spawn, MapFault,
         CloseChannel, HandlerRecv, HandlerLock, HandlerExit,
         StepStart, StepFinish, StepCheckCtx, StepSend

\* All of it holds when the executor starts,
LEMMA ContractInit == Init => CInv
<1>1. Init => SkipInv /\ StartInv
  BY EmptySeq DEF Init, SkipInv, StartInv, Holding
<1>. QED BY <1>1, VInvInit DEF CInv

\* is kept by every step,
LEMMA ContractStep == CInv /\ [Next]_vars => CInv'
  BY VInvInductive, SkipPreserved, StartPreserved DEF CInv, VInv

\* and so holds in every reachable state.
LEMMA ContractInvariance == Safety => []CInv
  BY ContractInit, ContractStep, PTL DEF Safety

\* A step that was completed without having been started was skipped, because
\* of its condition or of a failed requirement, in every interleaving.
THEOREM SkipsAreJustified == Safety => []SkipJustified
<1>1. CInv => SkipJustified
  BY DEF CInv, SkipInv, SkipReason, SkipJustified, VInv, IInv, MapInv
<1>. QED BY <1>1, ContractInvariance, PTL

-----------------------------------------------------------------------------
(* Refinement of StageContract *)

\* The contract reads the stage as the executor does.
LEMMA SameGraph ==
  /\ Contract!Node(stage) = Nodes
  /\ Contract!DagOK(stage, Actions) = DagOK(stage, Actions)
  /\ \A n : /\ Contract!Deps(stage, n) = DepsOf(n)
            /\ Contract!HasCond(stage, n) = HasCond(stage, n)
            /\ Contract!Waived(stage, n) = Waived(stage, n)
<1>1. Contract!Node(stage) = Nodes
  BY DEF Contract!Node, Nodes, Node
<1>2. \A n : /\ Contract!Deps(stage, n) = DepsOf(n)
             /\ Contract!HasCond(stage, n) = HasCond(stage, n)
             /\ Contract!Waived(stage, n) = Waived(stage, n)
  BY DEF Contract!Deps, Contract!HasCond, Contract!LastStep, Contract!Waived,
         DepsOf, Deps, HasCond, LastStep, Waived
<1>3. Contract!DagOK(stage, Actions) = DagOK(stage, Actions)
  BY DEF Contract!DagOK, Contract!Node, Contract!Deps, Contract!LastStep, Contract!Cyclic,
         DagOK, Node, Deps, LastStep, Cyclic
<1>. QED BY <1>1, <1>2, <1>3

\* The phase and the outcome of a step, read off the maps and its goroutine.
PhaseFacts ==
  \A n \in Names :
    /\ spc = "decide" /\ cur = n => PhaseOf(n) = "chosen" /\ OutcomeOf(n) = resultMap[n]
    /\ n \in completed => PhaseOf(n) = "done" /\ OutcomeOf(n) = resultMap[n]
    /\ n \notin executing /\ n \notin completed =>
         PhaseOf(n) = "waiting" /\ OutcomeOf(n) = resultMap[n]
    /\ n \in executing /\ go[n] # "idle" => PhaseOf(n) = "running" /\ OutcomeOf(n) = resultMap[n]
    /\ n \in executing /\ go[n] = "idle" /\ ~(spc = "decide" /\ cur = n) =>
         PhaseOf(n) = "done" /\ OutcomeOf(n) = "skipped"

\* They can be read off so wherever the executor's invariant holds.
LEMMA Phases == IInv => PhaseFacts
<1> SUFFICES ASSUME IInv, NEW n \in Names
             PROVE  /\ spc = "decide" /\ cur = n =>
                         PhaseOf(n) = "chosen" /\ OutcomeOf(n) = resultMap[n]
                    /\ n \in completed => PhaseOf(n) = "done" /\ OutcomeOf(n) = resultMap[n]
                    /\ n \notin executing /\ n \notin completed =>
                         PhaseOf(n) = "waiting" /\ OutcomeOf(n) = resultMap[n]
                    /\ n \in executing /\ go[n] # "idle" =>
                         PhaseOf(n) = "running" /\ OutcomeOf(n) = resultMap[n]
                    /\ n \in executing /\ go[n] = "idle" /\ ~(spc = "decide" /\ cur = n) =>
                         PhaseOf(n) = "done" /\ OutcomeOf(n) = "skipped"
  BY DEF PhaseFacts
<1>1. /\ completed \cap executing = {}
      /\ spc = "decide" => cur \in executing /\ go[cur] = "idle"
      /\ Alive(n) => n \in executing
      /\ go[n] # "idle" => n \in executing \cup completed
      /\ go[n] \in StepStates
  BY DEF IInv, MapInv, ReadyInv, StepInv, TypeOK
<1>2. Alive(n) \/ go[n] \in {"idle", "sent"}
  BY <1>1 DEF Alive, StepStates
<1>3. Alive(n) => go[n] # "idle"
  BY DEF Alive
<1>. QED BY <1>1, <1>2, <1>3 DEF PhaseOf, OutcomeOf, Chosen

\* A step that leaves the maps alone, chooses nothing and starts nothing is
\* not seen by the contract.
LEMMA Unseen ==
  ASSUME PhaseFacts, PhaseFacts', UNCHANGED <<stage, completed, executing, resultMap>>,
         UNCHANGED <<cancelled, ret, crashed>>,
         \A n \in Names : (spc' = "decide" /\ cur' = n) <=> (spc = "decide" /\ cur = n),
         \A n \in Names : go'[n] = "idle" <=> go[n] = "idle"
  PROVE  UNCHANGED Contract!cvars
<1>1. \A n \in Names : PhaseOf(n)' = PhaseOf(n) /\ OutcomeOf(n)' = OutcomeOf(n)
  BY DEF PhaseFacts
<1>. QED BY <1>1 DEF Contract!cvars

\* Launching a ready step chooses it.
LEMMA LaunchRefines ==
  ASSUME CInv, CInv', PhaseFacts, PhaseFacts', Launch, Running
  PROVE  \E n \in Names : Contract!Choose(n)
<1> USE DEF CInv, VInv, IInv
<1>1. PICK n \in ready : cur' = n /\ executing' = executing \cup {n}
  BY DEF Launch
<1>2. /\ spc = "start" /\ spc' = "decide" /\ ~cancelled
      /\ UNCHANGED <<stage, completed, resultMap, go, cancelled, ret, crashed>>
  BY DEF Launch, gvars
<1>3. /\ n \in Nodes /\ n \in Names /\ n \notin completed /\ n \notin executing
      /\ DepsOf(n) \subseteq completed /\ completed \subseteq Names /\ go[n] = "idle"
  BY NodesAreNames DEF TypeOK, ReadyInv
<1>4. ret.kind = "none" /\ DagOK(stage, Actions)
  BY <1>2 DEF ControlInv, StartInv
<1>5. /\ PhaseOf(n) = "waiting" /\ \A d \in DepsOf(n) : PhaseOf(d) = "done"
      /\ \A m \in Names : PhaseOf(m) # "chosen"
  BY <1>2, <1>3 DEF PhaseFacts
<1>6. PhaseOf(n)' = "chosen" /\ OutcomeOf(n)' = OutcomeOf(n)
  BY <1>1, <1>2, <1>3 DEF PhaseFacts
<1>7. \A m \in Names : m # n => PhaseOf(m)' = PhaseOf(m) /\ OutcomeOf(m)' = OutcomeOf(m)
  BY <1>1, <1>2 DEF PhaseFacts
<1>8. Contract!Choose(n)
  BY <1>2, <1>3, <1>4, <1>5, <1>6, <1>7, SameGraph
     DEF Contract!Choose, Contract!Pending, Running
<1>. QED BY <1>3, <1>8

\* Reporting the chosen step as skipped skips it.
LEMMA SkipRefines ==
  ASSUME CInv, CInv', PhaseFacts, PhaseFacts', SkipFailedDep \/ SkipCondition, Running
  PROVE  \E n \in Names : Contract!Skip(n)
<1> USE DEF CInv, VInv, IInv
<1>1. /\ spc = "decide" /\ spc' # "decide"
      /\ HasFailedDependency(cur) \/ HasCond(stage, cur)
      /\ UNCHANGED <<stage, completed, executing, failed, resultMap, go, cancelled, ret, crashed>>
  BY DEF SkipFailedDep, SkipCondition, NextStart, maps, gvars
<1>2. /\ cur \in Names /\ cur \in executing /\ go[cur] = "idle" /\ completed \subseteq Names
      /\ DepsOf(cur) \subseteq completed
  BY <1>1, NodesAreNames DEF ReadyInv, TypeOK
<1>3. HasCond(stage, cur) \/ \E d \in DepsOf(cur) : OutcomeOf(d) = "error" /\ d \in Names
  BY <1>1, <1>2 DEF HasFailedDependency, MapInv, PhaseFacts
<1>4. PhaseOf(cur) = "chosen"
  BY <1>1, <1>2 DEF PhaseFacts
<1>5. \A n \in Names : /\ n = cur => PhaseOf(n)' = "done" /\ OutcomeOf(n)' = "skipped"
                       /\ n # cur => PhaseOf(n)' = PhaseOf(n) /\ OutcomeOf(n)' = OutcomeOf(n)
  BY <1>1, <1>2 DEF PhaseFacts
<1>6. Contract!Skip(cur)
  BY <1>1, <1>2, <1>3, <1>4, <1>5, SameGraph DEF Contract!Skip
<1>. QED BY <1>2, <1>6

\* Spawning the goroutine of the chosen step begins it.
LEMMA SpawnRefines ==
  ASSUME CInv, CInv', PhaseFacts, PhaseFacts', Spawn, Running
  PROVE  \E n \in Names : Contract!Begin(n)
<1> USE DEF CInv, VInv, IInv
<1>1. /\ spc = "decide" /\ spc' # "decide" /\ ~HasFailedDependency(cur)
      /\ go' = [go EXCEPT ![cur] = "spawned"]
      /\ UNCHANGED <<stage, completed, executing, resultMap, cancelled, ret, crashed>>
  BY DEF Spawn, NextStart, maps
<1>2. /\ cur \in Names /\ cur \in executing /\ completed \subseteq Names
      /\ DepsOf(cur) \subseteq completed /\ go[cur] = "idle"
  BY <1>1, NodesAreNames DEF ReadyInv, TypeOK
<1>3. \A d \in DepsOf(cur) : OutcomeOf(d) # "error" /\ d \in Names
  BY <1>1, <1>2 DEF HasFailedDependency, MapInv, PhaseFacts
<1>4. \A n \in Names : go'[n] = IF n = cur THEN "spawned" ELSE go[n]
  BY <1>1, <1>2 DEF TypeOK
<1>5. PhaseOf(cur) = "chosen"
  BY <1>1, <1>2 DEF PhaseFacts
<1>6. \A n \in Names : /\ PhaseOf(n)' = IF n = cur THEN "running" ELSE PhaseOf(n)
                       /\ OutcomeOf(n)' = OutcomeOf(n)
  BY <1>1, <1>2, <1>4 DEF PhaseFacts
<1>7. Contract!Begin(cur)
  BY <1>1, <1>2, <1>3, <1>5, <1>6, SameGraph DEF Contract!Begin
<1>. QED BY <1>2, <1>7

\* Recording the result of a goroutine finishes its step; recording a skip,
\* which the contract has seen when it was sent, is not seen again.
LEMMA ApplyRefines ==
  ASSUME CInv, CInv', PhaseFacts, PhaseFacts', HandlerApply, Running
  PROVE  (\E n \in Names : Contract!Finish(n)) \/ UNCHANGED Contract!cvars
<1> USE DEF CInv, VInv, IInv
<1> DEFINE h == hand.name
<1>1. /\ hpc = "locked" /\ completed' = completed \cup {h} /\ executing' = executing \ {h}
      /\ resultMap' = [resultMap EXCEPT ![h] = hand.status]
      /\ UNCHANGED <<stage, spc, cur, go, cancelled, ret, crashed>>
  BY DEF HandlerApply, sched, gvars
<1>2. /\ h \in Names /\ h \in executing /\ h \notin completed /\ hand.status \in Status
      /\ go[h] \in {"idle", "sent"} /\ ~(spc = "decide" /\ cur = h)
      /\ go[h] = "idle" => hand.status = "skipped"
  BY <1>1, RecordFields DEF HandInv, Holding, MapInv, SkipInv
<1>3. \A n \in Names : resultMap'[n] = IF n = h THEN hand.status ELSE resultMap[n]
  BY <1>1, <1>2 DEF TypeOK
<1>4. \A n \in Names : n # h => PhaseOf(n)' = PhaseOf(n) /\ OutcomeOf(n)' = OutcomeOf(n)
  BY <1>1, <1>3 DEF PhaseFacts
<1> HIDE DEF h
<1>5. PICK m \in Names : m = h
  BY <1>2
<1>6. PhaseOf(m)' = "done" /\ OutcomeOf(m)' = hand.status
  BY <1>1, <1>3, <1>5 DEF PhaseFacts
<1>7. CASE go[m] = "idle"
  <2>1. PhaseOf(m) = "done" /\ OutcomeOf(m) = "skipped"
    BY <1>2, <1>5, <1>7 DEF PhaseFacts
  <2>2. \A n \in Names : PhaseOf(n)' = PhaseOf(n) /\ OutcomeOf(n)' = OutcomeOf(n)
    BY <1>2, <1>4, <1>5, <1>6, <1>7, <2>1
  <2>. QED BY <1>1, <2>2 DEF Contract!cvars
<1>8. CASE go[m] = "sent"
  <2>1. PhaseOf(m) = "running"
    BY <1>2, <1>5, <1>8 DEF PhaseFacts
  <2>2. \A n \in Names : /\ PhaseOf(n)' = IF n = m THEN "done" ELSE PhaseOf(n)
                         /\ OutcomeOf(n)' = IF n = m THEN hand.status ELSE OutcomeOf(n)
    BY <1>4, <1>5, <1>6
  <2>3. Contract!Finish(m)
    BY <1>1, <1>2, <2>1, <2>2 DEF Contract!Finish, Contract!Status, Status
  <2>. QED BY <2>3
<1>. QED BY <1>2, <1>5, <1>7, <1>8

\* Refusing a stage rejects it; starting the goroutines is not seen.
LEMMA BuildRefines ==
  ASSUME CInv, CInv', PhaseFacts, PhaseFacts', BuildDAG, Running
  PROVE  Contract!Reject \/ UNCHANGED Contract!cvars
<1> USE DEF CInv, VInv, IInv
<1>1. /\ spc = "build" /\ spc' # "decide" /\ hpc = "off" /\ executing = {} /\ completed = {}
      /\ ret.kind = "none"
      /\ UNCHANGED <<stage, cur, completed, executing, resultMap, go, cancelled, crashed>>
  BY DEF BuildDAG, ControlInv, StartInv, maps, gvars
<1>2. \A n \in Names : PhaseOf(n) = "waiting" /\ PhaseOf(n)' = PhaseOf(n)
                       /\ OutcomeOf(n)' = OutcomeOf(n)
  BY <1>1 DEF PhaseFacts
<1>3. CASE DagOK(stage, Actions)
  BY <1>1, <1>2, <1>3 DEF BuildDAG, Contract!cvars
<1>4. CASE ~DagOK(stage, Actions)
  <2>1. ret' = Returned("dag", NoName)
    BY <1>4 DEF BuildDAG
  <2>. QED BY <1>1, <1>2, <1>4, <2>1, SameGraph
           DEF Contract!Reject, Contract!Pending, Contract!Verdict, Returned, Running
<1>. QED BY <1>3, <1>4

\* The verdict of the caller is one the outcomes justify.
LEMMA ReturnRefines ==
  ASSUME CInv, CInv', PhaseFacts, PhaseFacts', MainReturn, Running
  PROVE  Contract!Return
<1> USE DEF CInv, VInv, IInv
<1>1. /\ hpc = "done" /\ spc = "closed" /\ ret.kind = "none" /\ executing = {}
      /\ completed \subseteq Nodes /\ Nodes \subseteq Names
      /\ UNCHANGED <<stage, spc, cur, completed, executing, resultMap, go, cancelled, crashed>>
  BY NodesAreNames DEF MainReturn, ControlInv, TypeOK, maps, sched, gvars
<1>2. \A n \in Names : /\ PhaseOf(n) = IF n \in completed THEN "done" ELSE "waiting"
                       /\ OutcomeOf(n) = resultMap[n]
                       /\ PhaseOf(n)' = PhaseOf(n) /\ OutcomeOf(n)' = OutcomeOf(n)
  BY <1>1 DEF PhaseFacts
<1>3. DagOK(stage, Actions)
  BY <1>1 DEF StartInv
<1>4. \A n \in Nodes : Contract!Unforgiven(n) <=> resultMap[n] = "error" /\ ~Waived(stage, n)
  BY <1>1, <1>2, SameGraph DEF Contract!Unforgiven
<1>5. \A n \in Nodes : resultMap[n] = "error" => n \in completed
  BY <1>1 DEF MapInv
<1>6. CASE \E i \in DOMAIN results : Fatal(i) /\ ret' = Returned("step", results[i].name)
  <2>1. PICK i \in DOMAIN results : Fatal(i) /\ ret' = Returned("step", results[i].name)
    BY <1>6
  <2>2. PICK n \in Nodes : n = results[i].name /\ resultMap[n] = "error" /\ ~Waived(stage, n)
    BY <1>1, <2>1 DEF Fatal, ExactlyOneResult
  <2>3. Contract!Unforgiven(n)
    BY <1>4, <2>2
  <2>. QED BY <1>1, <1>2, <1>3, <2>1, <2>2, <2>3, SameGraph
           DEF Contract!Return, Contract!Pending, Contract!Verdict, Returned, Running
<1>7. CASE /\ \A i \in DOMAIN results : ~Fatal(i)
           /\ ret' = Returned(IF cancelled THEN "ctx" ELSE "nil", NoName)
  <2>1. \A n \in Nodes : ~Contract!Unforgiven(n)
    BY <1>4, <1>5, <1>7 DEF Fatal, ExactlyOneResult
  <2>2. ~cancelled => \A n \in Nodes : PhaseOf(n) = "done"
    BY <1>1, <1>2 DEF DoneInv
  <2>. QED BY <1>1, <1>2, <1>3, <1>7, <2>1, <2>2, SameGraph
           DEF Contract!Return, Contract!Pending, Contract!Verdict, Returned, Running
<1>. QED BY <1>6, <1>7 DEF MainReturn

\* Every step of the executor is a step of the contract, or is not seen by it.
LEMMA StepRefines ==
  ASSUME CInv, CInv', [Next]_vars PROVE [Contract!CNext]_(Contract!cvars)
<1>1. PhaseFacts
  BY Phases DEF CInv, VInv
<1>2. PhaseFacts'
  <2>1. IInv' => PhaseFacts'
    BY Phases, PTL
  <2>. QED BY <2>1 DEF CInv, VInv
<1>3. CASE Running /\ Caller
  BY <1>1, <1>2, <1>3, BuildRefines, ReturnRefines DEF Caller, Contract!CNext
<1>4. CASE Running /\ Cancel
  <2>1. \A n \in Names : PhaseOf(n)' = PhaseOf(n) /\ OutcomeOf(n)' = OutcomeOf(n)
    BY <1>4 DEF Cancel, PhaseOf, OutcomeOf, Chosen, Alive, maps, sched, gvars
  <2>2. Contract!Stop
    BY <1>4, <2>1 DEF Contract!Stop, Cancel
  <2>. QED BY <2>2 DEF Contract!CNext
<1>5. CASE Running /\ MapFault
  <2>1. \A n \in Names : PhaseOf(n)' = PhaseOf(n) /\ OutcomeOf(n)' = OutcomeOf(n)
    BY <1>5 DEF MapFault, PhaseOf, OutcomeOf, Chosen, Alive, maps, sched, gvars
  <2>2. ret.kind = "none"
    BY <1>5 DEF MapFault, UnsynchronisedRead, CInv, VInv, IInv, ControlInv
  <2>3. Contract!Abort
    BY <1>5, <2>1, <2>2
       DEF Contract!Abort, Contract!Pending, Contract!Verdict, MapFault, Returned, Running
  <2>. QED BY <2>3 DEF Contract!CNext
<1>6. CASE Running /\ (Launch \/ SkipFailedDep \/ SkipCondition \/ Spawn \/ HandlerApply)
  BY <1>1, <1>2, <1>6, LaunchRefines, SkipRefines, SpawnRefines, ApplyRefines
     DEF Contract!CNext
<1>7. CASE \/ SchedulerTop \/ ScanReady \/ AllDone \/ AbandonStart \/ CloseChannel
           \/ HandlerRecv \/ HandlerLock \/ HandlerExit \/ UNCHANGED vars
  <2>1. /\ UNCHANGED <<stage, completed, executing, resultMap, go, cancelled, ret, crashed>>
        /\ UNCHANGED <<spc, cur>> \/ (spc # "decide" /\ spc' # "decide")
    BY <1>7 DEF SchedulerTop, ScanReady, AllDone, AbandonStart, CloseChannel, HandlerRecv,
                HandlerLock, HandlerExit, vars, maps, sched, gvars
  <2>. QED BY <1>1, <1>2, <2>1, Unseen
<1>8. ASSUME NEW n \in Names, StepGoroutine(n) PROVE UNCHANGED Contract!cvars
  <2>1. UNCHANGED <<stage, completed, executing, resultMap, spc, cur, cancelled, ret, crashed>>
    BY <1>8 DEF StepGoroutine, StepRun, StepStart, StepFinish, StepCheckCtx, StepSend,
                maps, sched
  <2>2. go[n] # "idle" /\ \E s \in StepStates \ {"idle"} : go' = [go EXCEPT ![n] = s]
    BY <1>8 DEF StepGoroutine, StepRun, StepStart, StepFinish, StepCheckCtx, StepSend,
                StepStates
  <2>3. \A m \in Names : go'[m] = "idle" <=> go[m] = "idle"
    BY <2>2 DEF CInv, VInv, IInv, TypeOK
  <2>. QED BY <1>1, <1>2, <2>1, <2>3, Unseen
<1>. QED
  BY <1>3, <1>4, <1>5, <1>6, <1>7, <1>8 DEF Next, Scheduler, Decide, Handler, Ended

\* The executor, with its goroutines, its channel and its unlocked reads,
\* implements the contract of a stage, whatever the stage: steps are chosen one
\* at a time after their requirements are done, run only if none of these
\* failed, and the caller gets a verdict the outcomes justify.
THEOREM ExecutorImplementsContract == Safety => ImplementsContract
<1>1. Init => Contract!CInit
  <2> SUFFICES ASSUME Init PROVE Contract!CInit
    OBVIOUS
  <2>1. \A n \in Names : PhaseOf(n) = "waiting" /\ OutcomeOf(n) = "none"
    BY DEF Init, PhaseOf, OutcomeOf, Chosen, Alive
  <2>. QED BY <2>1 DEF Init, Contract!CInit, Contract!Verdict, Returned
<1>2. CInv /\ CInv' /\ [Next]_vars => [Contract!CNext]_(Contract!cvars)
  BY StepRefines
<1>. QED
  BY <1>1, <1>2, ContractInvariance, PTL DEF Safety, ImplementsContract, Contract!CSpec

-----------------------------------------------------------------------------
(* The dry run *)

\* A non-empty set of positions has a last one.
LEMMA LastOne ==
  ASSUME NEW k \in Nat, NEW T, T \subseteq 1..k, T # {}
  PROVE  \E x \in T : \A y \in T : y <= x
<1> DEFINE U == {m \in Nat : k - m \in T}
<1>1. U \subseteq Nat /\ U # {}
  <2>1. PICK y : y \in T
    OBVIOUS
  <2>2. k - y \in Nat /\ k - (k - y) = y
    BY <2>1
  <2>. QED BY <2>1, <2>2
<1>2. PICK m \in U : \A l \in U : ~(<<l, m>> \in OpToRel(<, Nat))
  BY <1>1, NatLessThanWellFounded, WFMin
<1>3. \A l \in U : ~(l < m)
  BY <1>2 DEF OpToRel
<1>4. ASSUME NEW y \in T PROVE y <= k - m
  <2>1. k - y \in Nat /\ k - (k - y) = y
    BY <1>4
  <2>2. k - y \in U
    BY <1>4, <2>1
  <2>. QED BY <1>3, <1>4, <2>1, <2>2
<1>. QED BY <1>2, <1>4

\* The node of an action is its last step, and the executor asks for the
\* condition of that step.
LEMMA LastPosition ==
  ASSUME TypeOK, NEW n \in Nodes
  PROVE  /\ LastPos(n) \in DOMAIN stage /\ stage[LastPos(n)].action = n
         /\ HasCond(stage, n) = stage[LastPos(n)].cond
<1> DEFINE T == {i \in DOMAIN stage : stage[i].action = n}
<1>1. DOMAIN stage = 1..Len(stage) /\ Len(stage) \in Nat
  BY StagesAssumption, LenProperties DEF TypeOK
<1>2. T \subseteq 1..Len(stage) /\ T # {}
  BY <1>1 DEF Nodes, Node
<1>3. \E x \in T : \A y \in T : y <= x
  BY <1>1, <1>2, LastOne
<1>4. \E i \in DOMAIN stage : /\ stage[i].action = n
                              /\ \A j \in DOMAIN stage : stage[j].action = n => j <= i
  BY <1>3
<1>. QED BY <1>4 DEF LastPos, HasCond, LastStep

\* Steps of the executor other than a decision on cur start no goroutine, and
\* take nothing up but the step they choose.
LEMMA Undecided ==
  ASSUME IInv, Next, ~Spawn, ~SkipCondition, ~SkipFailedDep, NEW n \in Nodes
  PROVE  /\ go'[n] # "idle" => go[n] # "idle"
         /\ n \in executing' \cup completed' /\ ~(spc' = "decide" /\ cur' = n)
              => n \in executing \cup completed /\ ~(spc = "decide" /\ cur = n)
<1>1. n \in Names
  BY NodesAreNames DEF IInv
<1>2. go'[n] # "idle" => go[n] # "idle"
  <2>1. UNCHANGED go \/ \E m \in Names : go[m] # "idle" /\ \E s \in StepStates : go' = [go EXCEPT ![m] = s]
    BY DEF Next, vars, maps, sched, gvars, Ended, Caller, Scheduler, Decide, Handler, Cancel,
         StepGoroutine, StepRun, BuildDAG, MainReturn, SchedulerTop, ScanReady, AllDone,
         AbandonStart, Launch, MapFault, CloseChannel, HandlerRecv, HandlerLock,
         HandlerApply, HandlerExit, StepStart, StepFinish, StepCheckCtx, StepSend, StepStates
  <2>. QED BY <1>1, <2>1 DEF IInv, TypeOK
<1>3. CASE Launch
  BY <1>2, <1>3 DEF Launch
<1>4. CASE HandlerApply
  BY <1>2, <1>4 DEF HandlerApply, sched, IInv, HandInv, Holding
<1>5. CASE UNCHANGED <<executing, completed>> /\ (spc = "decide" => UNCHANGED <<spc, cur>>)
  BY <1>2, <1>5
<1>. QED
  BY <1>3, <1>4, <1>5
     DEF Next, vars, maps, sched, gvars, Ended, Caller, Scheduler, Decide, Handler, Cancel,
         StepGoroutine, StepRun, BuildDAG, MainReturn, SchedulerTop, ScanReady, AllDone,
         AbandonStart, MapFault, CloseChannel, HandlerRecv, HandlerLock, HandlerExit,
         StepStart, StepFinish, StepCheckCtx, StepSend

\* A step of the executor keeps what the conditions say of the steps.
LEMMA ExecuteKeepsCond ==
  ASSUME IInv, CondInv, Execute PROVE CondInv'
<1> USE DEF IInv
<1>1. Next /\ stage' = stage /\ failed \subseteq failed'
      /\ \A n \in Names : go'[n] = "idle" => go[n] = "idle"
  BY OnlyForward DEF Execute
<1>2. \A n : LastPos(n)' = LastPos(n) /\ (DepsOf(n) \cap failed # {} => Deps(stage', n) \cap failed' # {})
  BY <1>1 DEF LastPos, DepsOf
<1>3. Nodes' = Nodes /\ Nodes \subseteq Names
  BY <1>1, NodesAreNames DEF Nodes
<1>4. CASE Evaluates
  <2>1. SkipCondition \/ Spawn
    BY <1>1, <1>4
       DEF Evaluates, Next, vars, maps, sched, gvars, Ended, Caller, Scheduler, Decide, Handler, Cancel,
         StepGoroutine, StepRun, BuildDAG, MainReturn, SchedulerTop, ScanReady, AllDone,
         AbandonStart, Launch, SkipFailedDep, MapFault, CloseChannel, HandlerRecv, HandlerLock,
         HandlerApply, HandlerExit, StepStart, StepFinish, StepCheckCtx, StepSend
  <2>2. /\ spc = "decide" /\ spc' # "decide" /\ cur \in Nodes /\ go[cur] = "idle"
        /\ executing' = executing /\ completed' = completed
        /\ go' = go \/ go' = [go EXCEPT ![cur] = "spawned"]
    BY <1>4, <2>1 DEF Evaluates, ReadyInv, SkipCondition, Spawn, maps, gvars
  <2> DEFINE p == LastPos(cur)
  <2>3. p \in DOMAIN stage /\ (HasCond(stage, cur) = stage[p].cond)
    BY <2>2, LastPosition
  <2>4. PICK v \in ShouldExecuteByCondition(p) : (v = "true" <=> go' # go) /\ Known(p, v)
    BY <1>4 DEF Execute
  <2> HIDE DEF p
  <2>5. /\ cond' \in [DOMAIN stage -> {"unknown"} \cup Truth \cup Untruth]
        /\ \A i \in DOMAIN stage : i # p => cond'[i] = cond[i]
        /\ cond'[p] = "none" <=> cond[p] = "none"
        /\ v = "true" => cond'[p] \in Truth
        /\ v # "true" => cond'[p] \in Untruth
    BY <2>3, <2>4 DEF CondInv, ShouldExecuteByCondition, Known, Truth, Untruth
  <2>6. \A i \in DOMAIN stage : cond'[i] = "none" <=> ~stage[i].cond
    BY <2>3, <2>5 DEF CondInv
  <2>7. ASSUME NEW n \in Nodes
        PROVE  /\ go'[n] # "idle" => cond'[LastPos(n)] \in Truth
               /\ n \in executing' \cup completed' /\ go'[n] = "idle" =>
                    DepsOf(n) \cap failed # {} \/ cond'[LastPos(n)] \in Untruth
    <3>1. CASE n = cur
      BY <1>3, <2>2, <2>4, <2>5, <3>1 DEF p, TypeOK
    <3>2. CASE n # cur
      <4>1. LastPos(n) \in DOMAIN stage /\ LastPos(n) # p
        BY <2>2, <3>2, LastPosition DEF p
      <4>2. cond'[LastPos(n)] = cond[LastPos(n)]
        BY <2>5, <4>1
      <4>3. go'[n] = go[n]
        BY <1>3, <2>2, <3>2 DEF TypeOK
      <4>. QED BY <2>2, <3>2, <4>2, <4>3 DEF CondInv, Chosen
    <3>. QED BY <3>1, <3>2
  <2>. QED BY <1>1, <1>2, <1>3, <2>5, <2>6, <2>7 DEF CondInv, DepsOf
<1>5. CASE ~Evaluates
  <2>1. cond' = cond /\ ~Spawn /\ ~SkipCondition
    BY <1>5 DEF Execute, Evaluates, Spawn, SkipCondition, NextStart
  <2>2. ASSUME NEW n \in Nodes
        PROVE  /\ go'[n] # "idle" => cond[LastPos(n)] \in Truth
               /\ n \in executing' \cup completed' /\ go'[n] = "idle"
                    /\ ~(spc' = "decide" /\ cur' = n) =>
                    DepsOf(n) \cap failed # {} \/ cond[LastPos(n)] \in Untruth
    <3>1. CASE SkipFailedDep
      BY <3>1 DEF SkipFailedDep, HasFailedDependency, CondInv, Chosen, maps, gvars
    <3>2. CASE ~SkipFailedDep
      BY <1>1, <1>3, <2>1, <3>2, Undecided DEF CondInv, Chosen
    <3>. QED BY <3>1, <3>2
  <2>. QED BY <1>1, <1>2, <1>3, <2>1, <2>2 DEF CondInv, Chosen, DepsOf
<1>. QED BY <1>4, <1>5

\* A round of the dry run finds the condition of the step it looks at, and
\* counts that step once.
LEMMA DryStepKeeps ==
  ASSUME TypeOK, CondInv, LoopInv, DryStep PROVE CondInv' /\ LoopInv'
<1> DEFINE k == nextStep
<1>1. /\ UNCHANGED vars /\ UNCHANGED passing /\ dpc = "loop"
      /\ nextStep' = k + 1 /\ k \in 1..Len(stage) /\ k \in Nat \ {0}
      /\ DOMAIN stage = 1..Len(stage) /\ Len(stage) \in Nat
  <2>1. DOMAIN stage = 1..Len(stage) /\ Len(stage) \in Nat
    BY StagesAssumption, LenProperties DEF TypeOK
  <2>. QED BY <2>1 DEF DryStep, LoopInv
<1>2. PICK v \in ShouldExecuteByCondition(k) :
        /\ Known(k, v)
        /\ dpc' = IF v = "error" THEN "stopped" ELSE "loop"
        /\ executedSteps' = IF v = "true" /\ PassesOnly(k) THEN executedSteps \cup {k}
                            ELSE executedSteps
        /\ skippedSteps' = IF v = "false" \/ (v = "true" /\ ~PassesOnly(k))
                           THEN skippedSteps + 1 ELSE skippedSteps
  BY DEF DryStep
<1> HIDE DEF k
<1>3. /\ v \in {"true", "false", "error"}
      /\ cond' \in [DOMAIN stage -> {"unknown"} \cup Truth \cup Untruth]
      /\ \A i \in DOMAIN stage : /\ i # k \/ cond[i] # "unknown" => cond'[i] = cond[i]
                                 /\ cond'[i] = "none" <=> cond[i] = "none"
      /\ v = "true" <=> cond'[k] \in Truth
      /\ v = "error" => cond'[k] = "error"
  BY <1>1, <1>2 DEF CondInv, ShouldExecuteByCondition, Known, Truth, Untruth
<1>4. CondInv'
  <2>1. /\ stage' = stage /\ go' = go /\ executing' = executing /\ completed' = completed
        /\ failed' = failed /\ spc' = spc /\ cur' = cur
    BY <1>1 DEF vars, maps, gvars, sched
  <2>2. /\ Nodes' = Nodes
        /\ \A n : LastPos(n)' = LastPos(n) /\ DepsOf(n)' = DepsOf(n) /\ Chosen(n)' = Chosen(n)
    BY <2>1 DEF Nodes, LastPos, DepsOf, Chosen
  <2>3. \A i \in DOMAIN stage : /\ cond[i] \in Truth => cond'[i] \in Truth
                                /\ cond[i] \in Untruth => cond'[i] \in Untruth
    BY <1>3 DEF Truth, Untruth
  <2>4. ASSUME NEW n \in Nodes
        PROVE  /\ go[n] # "idle" => cond'[LastPos(n)] \in Truth
               /\ n \in executing \cup completed /\ go[n] = "idle" /\ ~Chosen(n) =>
                    DepsOf(n) \cap failed # {} \/ cond'[LastPos(n)] \in Untruth
    <3>1. PICK p \in DOMAIN stage : p = LastPos(n)
      BY LastPosition
    <3>2. /\ go[n] # "idle" => cond[p] \in Truth
          /\ n \in executing \cup completed /\ go[n] = "idle" /\ ~Chosen(n) =>
               DepsOf(n) \cap failed # {} \/ cond[p] \in Untruth
      BY <3>1 DEF CondInv
    <3>3. /\ cond[p] \in Truth => cond'[p] \in Truth
          /\ cond[p] \in Untruth => cond'[p] \in Untruth
      BY <2>3
    <3>. QED BY <3>1, <3>2, <3>3
  <2>5. \A i \in DOMAIN stage : cond'[i] = "none" <=> ~stage[i].cond
    BY <1>3 DEF CondInv
  <2>. QED BY <1>3, <2>1, <2>2, <2>4, <2>5 DEF CondInv
<1>5. LoopInv'
  <2>1. stage' = stage /\ ret' = ret
    BY <1>1 DEF vars
  <2>2. \A i \in 1..(k - 1) : cond'[i] = cond[i]
    BY <1>1, <1>3
  <2>3. executedSteps = {i \in 1..(k - 1) : i \in passing /\ cond[i] \in Truth}
    BY DEF LoopInv, k
  <2>4. executedSteps' = {i \in 1..k : i \in passing /\ cond'[i] \in Truth}
    BY <1>1, <1>2, <1>3, <2>2, <2>3 DEF PassesOnly
  <2>5. /\ IsFiniteSet(executedSteps) /\ k \notin executedSteps
        /\ Cardinality(executedSteps) \in Nat
        /\ Cardinality(executedSteps \cup {k}) = Cardinality(executedSteps) + 1
    <3>1. executedSteps \in SUBSET (1..(k - 1)) /\ k \notin 1..(k - 1) /\ k - 1 \in Int
      BY <1>1, <2>3
    <3>2. IsFiniteSet(1..(k - 1))
      BY <3>1, FS_Interval
    <3>3. IsFiniteSet(executedSteps)
      BY <3>1, <3>2, FS_Subset
    <3>. QED BY <3>1, <3>3, FS_AddElement, FS_CardinalityType
  <2>6. Cardinality(executedSteps) + skippedSteps = k - 1 /\ skippedSteps \in Nat
    BY <1>1 DEF LoopInv, k
  <2>7. skippedSteps' \in Nat /\ (dpc' # "stopped" => Cardinality(executedSteps') + skippedSteps' = k)
    BY <1>1, <1>2, <1>3, <2>5, <2>6
  <2>8. ret.kind # "none"
    BY <1>1 DEF LoopInv
  <2>9. nextStep' - 1 = k /\ nextStep' \in 1..(Len(stage') + 1) /\ nextStep' > 1
    BY <1>1, <2>1
  <2>10. executedSteps' = {i \in 1..(nextStep' - 1) : i \in passing' /\ cond'[i] \in Truth}
    BY <1>1, <2>4, <2>9
  <2>11. dpc' \in {"loop", "stopped"} /\ (dpc' = "stopped" => cond'[k] = "error")
    BY <1>2, <1>3
  <2>. QED BY <2>1, <2>7, <2>8, <2>9, <2>10, <2>11 DEF LoopInv
<1>. QED BY <1>4, <1>5

\* While the dry run goes on the executor evaluates nothing any more.
LEMMA ExecuteKeepsLoop ==
  ASSUME CInv, CInv', LoopInv, Execute PROVE LoopInv'
<1>1. /\ stage' = stage /\ UNCHANGED dloop
  BY OnlyForward DEF Execute, CInv, VInv
<1>2. ret.kind # "none" => ret' = ret
  BY WhoWrites DEF Execute, CInv, VInv, IInv, ControlInv, BuildDAG, MainReturn
<1>3. CASE dpc = "off"
  <2>1. nextStep = 1 /\ executedSteps = {}
    BY <1>3 DEF LoopInv
  <2>2. executedSteps' = {i \in 1..(nextStep' - 1) : i \in passing' /\ cond'[i] \in Truth}
    BY <1>1, <2>1 DEF dloop
  <2>. QED BY <1>1, <1>3, <2>2 DEF LoopInv, dloop
<1>4. CASE dpc # "off"
  <2>1. ret.kind # "none" /\ spc = "closed"
    BY <1>4 DEF LoopInv, CInv, VInv, IInv, ControlInv
  <2>2. cond' = cond
    BY <2>1 DEF Execute, Evaluates
  <2>. QED BY <1>1, <1>2, <1>4, <2>1, <2>2 DEF LoopInv, dloop
<1>. QED BY <1>3, <1>4

\* A handler is started for every graph that can be built.
LEMMA OffPreserved == ASSUME IInv, OffInv, [Next]_vars PROVE OffInv'
<1>1. CASE BuildDAG
  BY <1>1 DEF BuildDAG, OffInv, Returned
<1>2. CASE MainReturn
  BY <1>2 DEF MainReturn, OffInv, hvars
<1>3. CASE UNCHANGED ret /\ (hpc' = "off" => hpc = "off")
  BY <1>3 DEF OffInv
<1>. QED
  BY <1>1, <1>2, <1>3
     DEF Next, vars, maps, sched, gvars, hvars, Ended, Caller, Scheduler, Decide, Handler, Cancel,
         StepGoroutine, StepRun, SchedulerTop, ScanReady, AllDone,
         AbandonStart, Launch, SkipFailedDep, SkipCondition, Spawn, MapFault,
         CloseChannel, HandlerRecv, HandlerLock, HandlerApply, HandlerExit,
         StepStart, StepFinish, StepCheckCtx, StepSend

\* A step that leaves the executor and the conditions alone keeps what relates
\* them.
LEMMA CondUnseen == ASSUME CondInv, UNCHANGED <<vars, cond>> PROVE CondInv'
<1>1. /\ stage' = stage /\ go' = go /\ executing' = executing /\ completed' = completed
      /\ failed' = failed /\ spc' = spc /\ cur' = cur /\ cond' = cond
  BY DEF vars, maps, gvars, sched
<1>. QED BY <1>1 DEF CondInv, Nodes, LastPos, DepsOf, Chosen

\* The executor with the dry run beside it keeps DInv.
LEMMA DInvInductive == DInv /\ [DNext]_<<vars, dvars>> => DInv'
<1> SUFFICES ASSUME DInv, [DNext]_<<vars, dvars>> PROVE DInv'
  OBVIOUS
<1>1. [Next]_vars
  BY DEF DNext, Execute, DryStart, DryStep, DryEnd
<1>2. CInv' /\ OffInv'
  BY <1>1, ContractStep, OffPreserved DEF DInv, CInv, VInv
<1>3. CASE Execute
  BY <1>2, <1>3, ExecuteKeepsCond, ExecuteKeepsLoop DEF DInv, CInv, VInv
<1>4. CASE DryStep
  BY <1>2, <1>4, DryStepKeeps DEF DInv, CInv, VInv, IInv
<1>5. CASE DryStart \/ DryEnd \/ UNCHANGED <<vars, dvars>>
  <2>1. CondInv'
    BY <1>5, CondUnseen DEF DInv, DryStart, DryEnd, dvars
  <2>2. stage' = stage /\ ret' = ret /\ cond' = cond
    BY <1>5 DEF DryStart, DryEnd, vars, dvars
  <2>3. CASE DryStart
    <3>1. /\ nextStep' = 1 /\ skippedSteps' = 0 /\ dpc' = "loop" /\ ret'.kind # "none"
          /\ nextStep = 1 /\ executedSteps' = {}
      BY <2>2, <2>3 DEF DryStart, DInv, LoopInv
    <3>2. executedSteps' = {i \in 1..(nextStep' - 1) : i \in passing' /\ cond'[i] \in Truth}
      BY <3>1
    <3>3. Cardinality(executedSteps') + skippedSteps' = nextStep' - 1
      BY <3>1, FS_EmptySet
    <3>4. nextStep' \in 1..(Len(stage') + 1)
      BY <2>2, <3>1 DEF DInv, LoopInv
    <3>. QED BY <1>2, <2>1, <3>1, <3>2, <3>3, <3>4 DEF DInv, LoopInv
  <2>4. CASE DryEnd
    <3>1. nextStep' = Len(stage') + 1
      <4>1. Len(stage) \in Nat
        BY StagesAssumption, LenProperties DEF DInv, CInv, VInv, IInv, TypeOK
      <4>. QED BY <2>2, <2>4, <4>1 DEF DryEnd, DInv, LoopInv
    <3>. QED BY <1>2, <2>1, <2>2, <2>4, <3>1 DEF DInv, LoopInv, DryEnd
  <2>5. CASE UNCHANGED <<vars, dvars>>
    BY <1>2, <2>1, <2>2, <2>5 DEF DInv, LoopInv, dvars, dloop
  <2>. QED BY <1>5, <2>3, <2>4, <2>5
<1>. QED BY <1>3, <1>4, <1>5 DEF DNext

\* For every stage, repeated actions and steps behind failed ones included,
\* every filter and every interleaving of the executor, what executeStageDryRun
\* announces is what executeStageWithCallback runs, but for the exceptions that
\* DryRunPredicts names.
THEOREM DryRunIsAPrediction == DSafety => []DryRunPredicts
<1>1. DInit => DInv
  <2> SUFFICES ASSUME DInit PROVE DInv
    OBVIOUS
  <2>1. CInv /\ OffInv /\ TypeOK
    BY ContractInit DEF DInit, Init, OffInv, Returned, CInv, VInv, IInv
  <2>2. Len(stage) \in Nat
    BY <2>1, StagesAssumption, LenProperties DEF TypeOK
  <2>3. Nodes \subseteq Names
    BY <2>1, NodesAreNames
  <2>4. CondInv
    BY <2>3 DEF DInit, Init, CondInv, Truth, Untruth
  <2>5. LoopInv
    <3>1. executedSteps = {i \in 1..(nextStep - 1) : i \in passing /\ cond[i] \in Truth}
      BY DEF DInit
    <3>. QED BY <2>2, <3>1, FS_EmptySet DEF DInit, LoopInv
  <2>. QED BY <2>1, <2>4, <2>5 DEF DInv
<1>2. DSafety => []DInv
  BY <1>1, DInvInductive, PTL DEF DSafety
<1>3. ASSUME DInv, dpc # "off", ret.kind # "dag", NEW n \in Nodes
      PROVE  IF go[n] # "idle"
             THEN LastPos(n) < nextStep /\ LastPos(n) \in passing => LastPos(n) \in executedSteps
             ELSE LastPos(n) \in executedSteps =>
                    cancelled \/ \E d \in DepsOf(n) : resultMap[d] = "error"
  <2>1. /\ LastPos(n) \in DOMAIN stage /\ DOMAIN stage = 1..Len(stage) /\ Len(stage) \in Nat
    BY <1>3, LastPosition, StagesAssumption, LenProperties DEF DInv, CInv, VInv, IInv, TypeOK
  <2>2. /\ nextStep \in 1..(Len(stage) + 1) /\ ret.kind # "none"
        /\ executedSteps = {i \in 1..(nextStep - 1) : i \in passing /\ cond[i] \in Truth}
    BY <1>3 DEF DInv, LoopInv
  <2>3. CASE go[n] # "idle"
    <3>1. cond[LastPos(n)] \in Truth
      BY <1>3, <2>3 DEF DInv, CondInv
    <3>2. LastPos(n) < nextStep => LastPos(n) \in 1..(nextStep - 1)
      BY <2>1, <2>2
    <3>. QED BY <2>2, <2>3, <3>1, <3>2
  <2>4. CASE go[n] = "idle" /\ LastPos(n) \in executedSteps /\ ~cancelled
    <3>1. hpc # "off" /\ spc = "closed"
      BY <1>3, <2>2 DEF DInv, OffInv, CInv, VInv, IInv, ControlInv
    <3>2. n \in completed
      BY <1>3, <2>4, <3>1 DEF DInv, CInv, VInv, DoneInv
    <3>3. cond[LastPos(n)] \notin Untruth
      BY <2>2, <2>4 DEF Truth, Untruth
    <3>4. DepsOf(n) \cap failed # {}
      BY <1>3, <2>4, <3>1, <3>2, <3>3 DEF DInv, CondInv, Chosen
    <3>. QED BY <1>3, <2>4, <3>4 DEF DInv, CInv, VInv, IInv, MapInv
  <2>. QED BY <2>3, <2>4
<1>4. ASSUME DInv, dpc = "stopped", NEW n \in Nodes, LastPos(n) = nextStep - 1
      PROVE  go[n] = "idle"
  BY <1>4 DEF DInv, LoopInv, CondInv, Truth
<1>5. ASSUME DInv, dpc = "ended" PROVE Cardinality(executedSteps) + skippedSteps = Len(stage)
  <2>1. Len(stage) \in Nat
    BY <1>5, StagesAssumption, LenProperties DEF DInv, CInv, VInv, IInv, TypeOK
  <2>. QED BY <1>5, <2>1 DEF DInv, LoopInv
<1>6. DInv => DryRunPredicts
  BY <1>3, <1>4, <1>5 DEF DryRunPredicts
<1>. QED BY <1>2, <1>6, PTL
=============================================================================
