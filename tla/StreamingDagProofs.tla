------------------------ MODULE StreamingDagProofs ------------------------
(***************************************************************************)
(* Safety of the streaming executor for every set of names, every stage    *)
(* and every behaviour of the actions.  The relations between channel,     *)
(* maps and goroutines are those of DagExecutor, but here a cancelled call *)
(* leaves goroutines behind: TStateInv says what survives that.            *)
(***************************************************************************)
EXTENDS StreamingDag, DagExecutorProofs, WellFoundedInduction

-----------------------------------------------------------------------------
(* Facts about the state *)

LEMMA TNodesAreNames == ASSUME TTypeOK PROVE Nodes \subseteq Names
<1>1. stage \in Seq(Step(Names))
  BY StagesAssumption DEF TTypeOK
<1>2. \A i \in DOMAIN stage : stage[i] \in Step(Names)
  BY <1>1, ElementOfSeq, LenProperties
<1>3. \A i \in DOMAIN stage : stage[i].action \in Names
  BY <1>2 DEF Step
<1>. QED BY <1>3 DEF Nodes, Node

\* The results in the channel are of named steps.
LEMMA ChanNames ==
  ASSUME TTypeOK PROVE \A i \in 1..Len(chan) : chan[i].name \in Names
BY ElementOfSeq, RecordFields DEF TTypeOK

-----------------------------------------------------------------------------
(* Every action preserves TStateInv *)

\* A step that moves only program counters, the context, the display or the
\* verdict keeps what the maps, the channel and the goroutines are related by.
LEMMA QuietStep ==
  ASSUME TStateInv, TTypeOK', TControlInv',
         UNCHANGED <<stage, maps, chan, gvars>>,
         Holding' => Holding /\ hand' = hand,
         spc' # "decide" \/ UNCHANGED <<spc, cur>>,
         ready' \subseteq ready
  PROVE  TStateInv'
<1> USE DEF TStateInv, maps, gvars
<1>1. ChanInv'
  BY DEF ChanInv
<1>2. THandInv'
  BY DEF THandInv
<1>3. StepInv'
  BY DEF StepInv, Alive
<1>4. ReadyInv'
  BY DEF ReadyInv, DepsOf, Nodes
<1>5. MapInv' /\ RequireInv'
  BY DEF MapInv, RequireInv, DepsOf, Nodes
<1>. QED BY <1>1, <1>2, <1>3, <1>4, <1>5

\* The caller: the loops are started, or the call returns.
LEMMA CallerKeeps == ASSUME TStateInv, BuildDAG \/ MainReturn PROVE TStateInv'
<1> USE DEF TStateInv, maps, hvars, gvars, sched
<1>1. CASE BuildDAG
  <2>1. TTypeOK'
    BY <1>1 DEF BuildDAG, TTypeOK, Nodes, Returned
  <2>2. TControlInv'
    BY <1>1 DEF BuildDAG, TControlInv, Returned, Nodes
  <2>3. ~Holding'
    BY <1>1 DEF BuildDAG, Holding, TControlInv
  <2>. QED BY <1>1, <2>1, <2>2, <2>3, QuietStep DEF BuildDAG, TControlInv
<1>2. CASE MainReturn
  <2>1. \A i \in DOMAIN results : results[i].name \in Names
    BY ElementOfSeq, LenProperties, RecordFields DEF TTypeOK
  <2>2. ret' \in [kind : {"none", "nil", "step", "ctx", "dag"}, name : Names \cup {NoName}]
    BY <1>2, <2>1 DEF MainReturn, Returned
  <2>3. TTypeOK'
    BY <1>2, <2>2 DEF MainReturn, TTypeOK, Nodes
  <2>4. TControlInv'
    BY <1>2 DEF MainReturn, TControlInv, Returned, Nodes
  <2>5. Holding' = Holding
    BY <1>2 DEF MainReturn, Holding
  <2>. QED BY <1>2, <2>3, <2>4, <2>5, QuietStep DEF MainReturn
<1>. QED BY <1>1, <1>2

\* The places of the scheduler where it only looks around.
LEMMA SchedulerKeeps ==
  ASSUME TStateInv,
         SchedulerTop \/ TAllDone \/ AbandonStart \/ TDisplay \/ TCloseChannel \/ Cancel
  PROVE  TStateInv'
<1> USE DEF TStateInv, maps, hvars, gvars, sched
<1>1. /\ UNCHANGED <<stage, maps, chan, hpc, hand, gvars, ret>> /\ ready' \subseteq ready
      /\ spc' \in {"top", "scan", "start", "drain", "closed"} \/ UNCHANGED <<spc, cur>>
      /\ cancelled => cancelled'
      /\ cancelled' \in BOOLEAN /\ cur' \in Names \cup {NoName}
  BY DEF SchedulerTop, TAllDone, AbandonStart, TDisplay, TCloseChannel, Cancel, NextStart, TTypeOK
<1>2. TTypeOK'
  BY <1>1 DEF TTypeOK, Nodes
<1>3. TControlInv'
  <2>1. CASE SchedulerTop
    BY <2>1 DEF SchedulerTop, TControlInv, Nodes
  <2>2. CASE TAllDone
    BY <2>2 DEF TAllDone, TControlInv, Nodes
  <2>3. CASE AbandonStart
    BY <2>3 DEF AbandonStart, TControlInv, Nodes
  <2>4. CASE TDisplay
    BY <2>4 DEF TDisplay, TControlInv, Nodes, NextStart
  <2>5. CASE TCloseChannel
    BY <2>5 DEF TCloseChannel, TControlInv, Nodes, TTypeOK
  <2>6. CASE Cancel
    BY <2>6 DEF Cancel, TControlInv, Nodes
  <2>. QED BY <2>1, <2>2, <2>3, <2>4, <2>5, <2>6
<1>4. Holding' = Holding
  BY <1>1 DEF Holding
<1>. QED BY <1>1, <1>2, <1>3, <1>4, QuietStep

\* The places of the handler where it only looks around, and the end of the
\* process.
LEMMA HandlerKeeps ==
  ASSUME TStateInv,
         \/ HandlerLock \/ THandlerDisplay \/ THandlerNext \/ HandlerExit \/ TMapFault
         \/ \E n \in Names : TStepPanic(n)
         \/ UNCHANGED tvars
  PROVE  TStateInv'
<1> USE DEF TStateInv, maps, hvars, gvars, sched
<1>1. /\ UNCHANGED <<stage, maps, chan, gvars, ret, spc, ready, cur, cancelled>>
      /\ \/ hpc' \in {"recv", "next", "done"} /\ hpc # "off"
         \/ hpc = "got" /\ hpc' = "locked" /\ hand' = hand
         \/ UNCHANGED <<hpc, hand>>
      /\ hpc' = "done" => hpc = "done" \/ spc = "closed"
      /\ hpc' # hpc => hpc # "done"
  BY DEF HandlerLock, THandlerDisplay, THandlerNext, HandlerExit, TMapFault, TStepPanic, tvars, vars
<1>2. TTypeOK'
  BY <1>1 DEF TTypeOK, Nodes
<1>3. TControlInv'
  BY <1>1 DEF TControlInv, Nodes
<1>4. Holding' => Holding /\ hand' = hand
  BY <1>1 DEF Holding
<1>. QED BY <1>1, <1>2, <1>3, <1>4, QuietStep

\* The scan: a step that is neither completed nor executing was never started.
LEMMA ScanKeeps == ASSUME TStateInv, TScanReady PROVE TStateInv'
<1> USE DEF TStateInv, TScanReady, maps, hvars, gvars
<1>1. TTypeOK'
  BY DEF TTypeOK, Nodes
<1>2. ChanInv' /\ THandInv'
  BY DEF ChanInv, THandInv, Holding
<1>3. StepInv'
  BY DEF StepInv, Alive
<1>4. ReadyInv'
  <2>1. \A n \in ready' : /\ n \in Names /\ n \notin completed /\ n \notin executing
                          /\ DepsOf(n) \subseteq completed
    BY TNodesAreNames DEF TIsReady
  <2>2. \A n \in ready' : go[n] = "idle"
    BY <2>1 DEF StepInv
  <2>. QED BY <2>1, <2>2 DEF ReadyInv, DepsOf, Nodes
<1>5. MapInv' /\ RequireInv'
  BY DEF MapInv, RequireInv, DepsOf, Nodes
<1>6. TControlInv'
  BY DEF TControlInv
<1>. QED BY <1>1, <1>2, <1>3, <1>4, <1>5, <1>6

\* The start loop takes a step: it is executing, without result or goroutine.
LEMMA LaunchKeeps == ASSUME TStateInv, Launch PROVE TStateInv'
<1> USE DEF TStateInv, hvars, gvars
<1>1. PICK n \in ready : /\ cur' = n /\ ready' = ready \ {n}
                         /\ executing' = executing \cup {n}
  BY DEF Launch
<1>2. /\ spc = "start" /\ spc' = "decide"
      /\ UNCHANGED <<stage, completed, failed, results, resultMap, chan, hvars, gvars,
                     cancelled, ret, crashed>>
  BY DEF Launch
<1>3. /\ n \in Nodes /\ n \in Names /\ n \notin completed /\ n \notin executing
      /\ go[n] = "idle" /\ DepsOf(n) \subseteq completed
  BY TNodesAreNames DEF TTypeOK, ReadyInv
<1>4. TTypeOK'
  BY <1>1, <1>2, <1>3 DEF TTypeOK, Nodes
<1>5. ChanInv' /\ THandInv'
  BY <1>1, <1>2, <1>3 DEF ChanInv, THandInv, Holding
<1>6. StepInv'
  BY <1>1, <1>2, <1>3 DEF StepInv, Alive
<1>7. ReadyInv'
  BY <1>1, <1>2, <1>3 DEF ReadyInv, DepsOf, Nodes
<1>8. MapInv' /\ RequireInv'
  BY <1>1, <1>2, <1>3 DEF MapInv, RequireInv, DepsOf, Nodes
<1>9. TControlInv'
  BY <1>1, <1>2, <1>3 DEF TControlInv
<1>. QED BY <1>4, <1>5, <1>6, <1>7, <1>8, <1>9

\* One more result, of a step that has none yet, on the channel.
LEMMA OneMoreInChan ==
  ASSUME TStateInv, NEW r \in ResultRec,
         chan' = Append(chan, r), UNCHANGED <<executing, hand>>, Holding' = Holding,
         r.name \in executing, go'[r.name] \in {"idle", "sent"},
         spc' = "decide" => cur' # r.name,
         spc' = "decide" => spc = "decide" /\ cur' = cur,
         \A i \in 1..Len(chan) : /\ chan[i].name # r.name
                                 /\ go'[chan[i].name] = go[chan[i].name],
         Holding => hand.name # r.name
  PROVE  ChanInv' /\ chan' \in Seq(ResultRec)
<1>1. /\ chan' \in Seq(ResultRec) /\ Len(chan') = Len(chan) + 1 /\ Len(chan) \in Nat
      /\ \A i \in 1..Len(chan) : chan'[i] = chan[i]
      /\ chan'[Len(chan) + 1] = r
  BY AppendProperties, LenProperties DEF TStateInv, TTypeOK
<1>2. \A i \in 1..Len(chan') : i \in 1..Len(chan) \/ i = Len(chan) + 1
  BY <1>1
<1>3. ASSUME NEW i \in 1..Len(chan')
      PROVE  /\ chan'[i].name \in executing'
             /\ go'[chan'[i].name] \in {"idle", "sent"}
             /\ spc' = "decide" => cur' # chan'[i].name
             /\ Holding' => hand'.name # chan'[i].name
  <2>1. CASE i \in 1..Len(chan)
    BY <1>1, <2>1 DEF TStateInv, ChanInv
  <2>2. CASE i = Len(chan) + 1
    BY <1>1, <2>2
  <2>. QED BY <1>2, <2>1, <2>2
<1>4. ASSUME NEW i \in 1..Len(chan'), NEW j \in 1..Len(chan'), chan'[i].name = chan'[j].name
      PROVE  i = j
  BY <1>1, <1>2, <1>4 DEF TStateInv, ChanInv
<1>. QED BY <1>1, <1>3, <1>4 DEF ChanInv

\* A skipped step: its result is sent, or given up with the whole loop.
LEMMA SkipKeeps == ASSUME TStateInv, TSkip PROVE TStateInv'
<1> USE DEF TStateInv, maps, hvars, gvars
<1>1. /\ spc = "decide"
      /\ UNCHANGED <<stage, maps, hvars, gvars, cancelled, ret, crashed>>
  BY DEF TSkip
<1>2. /\ cur \in Names /\ cur \in Nodes /\ cur \in executing /\ go[cur] = "idle"
  BY <1>1, TNodesAreNames DEF ReadyInv
<1>3. Holding' = Holding
  BY <1>1 DEF Holding
<1>4. CASE chan' = Append(chan, Result(cur, "skipped")) /\ NextStart /\ UNCHANGED ready
  <2> DEFINE r == Result(cur, "skipped")
  <2>1. r \in ResultRec /\ r.name = cur
    BY <1>2, ResultsAreRecords DEF Status
  <2>2. spc' # "decide" /\ spc' \in {"top", "start"} /\ cur' = NoName
    BY <1>4 DEF NextStart
  <2>3. ChanInv' /\ chan' \in Seq(ResultRec)
    <3>1. \A i \in 1..Len(chan) : chan[i].name # cur
      BY <1>1 DEF ChanInv
    <3>2. Holding => hand.name # cur
      BY <1>1 DEF THandInv
    <3>3. chan' = Append(chan, r)
      BY <1>4
    <3> HIDE DEF r
    <3>. QED BY <1>1, <1>2, <1>3, <2>1, <2>2, <3>1, <3>2, <3>3, OneMoreInChan
  <2>4. TTypeOK'
    BY <1>1, <1>4, <2>2, <2>3 DEF TTypeOK, Nodes
  <2>5. THandInv'
    BY <1>1, <1>3, <2>2 DEF THandInv
  <2>6. StepInv' /\ ReadyInv'
    BY <1>1, <1>4, <2>2 DEF StepInv, Alive, ReadyInv, DepsOf, Nodes
  <2>7. MapInv' /\ RequireInv'
    BY <1>1 DEF MapInv, RequireInv, DepsOf, Nodes
  <2>8. TControlInv'
    BY <1>1, <1>4, <2>2 DEF TControlInv, NextStart
  <2>. QED BY <2>3, <2>4, <2>5, <2>6, <2>7, <2>8
<1>5. CASE cancelled /\ spc' = "drain" /\ cur' = NoName /\ ready' = {} /\ UNCHANGED chan
  <2>1. TTypeOK'
    BY <1>1, <1>5 DEF TTypeOK, Nodes
  <2>2. TControlInv'
    BY <1>1, <1>5 DEF TControlInv
  <2>. QED BY <1>1, <1>3, <1>5, <2>1, <2>2, QuietStep
<1>. QED BY <1>4, <1>5 DEF TSkip

\* The goroutine of a step is started: its requirements have completed before
\* it was chosen, and none of them failed.
LEMMA SpawnKeeps == ASSUME TStateInv, TSpawn PROVE TStateInv'
<1> USE DEF TStateInv, maps, hvars
<1>1. /\ spc = "decide" /\ ~HasFailedDependency(cur) /\ spc' = "display" /\ cur' = NoName
      /\ go' = [go EXCEPT ![cur] = "spawned"]
      /\ UNCHANGED <<stage, ready, maps, chan, hvars, res, cancelled, ret, crashed>>
  BY DEF TSpawn
<1>2. /\ cur \in Names /\ cur \in Nodes /\ cur \in executing /\ go[cur] = "idle"
      /\ DepsOf(cur) \subseteq completed
  BY <1>1, TNodesAreNames DEF ReadyInv
<1>3. /\ go \in [Names -> StepStates] /\ go'[cur] = "spawned"
      /\ \A n \in Names : n # cur => go'[n] = go[n]
  BY <1>1, <1>2 DEF TTypeOK
<1>4. TTypeOK'
  BY <1>1, <1>2, <1>3 DEF TTypeOK, Nodes, StepStates
<1>5. ChanInv'
  BY <1>1, <1>3, ChanNames DEF ChanInv, Holding
<1>6. THandInv'
  BY <1>1, <1>3, RecordFields DEF THandInv, Holding
<1>7. StepInv'
  BY <1>1, <1>2, <1>3 DEF StepInv, Alive
<1>8. ReadyInv'
  BY <1>1, <1>2, <1>3, TNodesAreNames DEF ReadyInv, DepsOf, Nodes, TTypeOK
<1>9. RequireInv'
  BY <1>1, <1>2, <1>3, TNodesAreNames DEF RequireInv, DepsOf, Nodes, HasFailedDependency
<1>10. MapInv' /\ TControlInv'
  BY <1>1, <1>2 DEF MapInv, TControlInv, Nodes
<1>. QED BY <1>4, <1>5, <1>6, <1>7, <1>8, <1>9, <1>10

\* The handler takes the oldest result off the channel.
LEMMA RecvKeeps == ASSUME TStateInv, HandlerRecv PROVE TStateInv'
<1> USE DEF TStateInv, maps, gvars, sched
<1>1. /\ hpc = "recv" /\ chan # <<>> /\ hand' = Head(chan) /\ chan' = Tail(chan)
      /\ hpc' = "got"
      /\ UNCHANGED <<stage, sched, maps, gvars, cancelled, ret, crashed>>
  BY DEF HandlerRecv
<1>2. /\ chan \in Seq(ResultRec) /\ Len(chan) \in Nat \ {0} /\ Head(chan) = chan[1]
      /\ chan[1] \in ResultRec /\ chan' \in Seq(ResultRec) /\ Len(chan') = Len(chan) - 1
      /\ \A i \in 1..Len(chan') : chan'[i] = chan[i + 1]
  BY <1>1, HeadTailProperties, EmptySeq DEF TTypeOK
<1>3. /\ 1 \in 1..Len(chan)
      /\ \A i \in 1..Len(chan') : i + 1 \in 1..Len(chan) /\ i + 1 # 1
  BY <1>2
<1>4. TTypeOK'
  BY <1>1, <1>2 DEF TTypeOK, Nodes
<1>5. ChanInv'
  <2>1. ASSUME NEW i \in 1..Len(chan')
        PROVE  /\ chan'[i].name \in executing'
               /\ go'[chan'[i].name] \in {"idle", "sent"}
               /\ spc' = "decide" => cur' # chan'[i].name
               /\ hand'.name # chan'[i].name
    BY <1>1, <1>2, <1>3 DEF ChanInv
  <2>2. ASSUME NEW i \in 1..Len(chan'), NEW j \in 1..Len(chan'),
               chan'[i].name = chan'[j].name
        PROVE  i = j
    <3>1. i + 1 = j + 1
      BY <1>2, <1>3, <2>2 DEF ChanInv
    <3>. QED BY <1>2, <3>1
  <2>. QED BY <2>1, <2>2 DEF ChanInv
<1>6. THandInv'
  BY <1>1, <1>2, <1>3 DEF THandInv, ChanInv, Holding
<1>7. StepInv' /\ ReadyInv'
  BY <1>1 DEF StepInv, Alive, ReadyInv, DepsOf, Nodes
<1>8. MapInv' /\ RequireInv'
  BY <1>1 DEF MapInv, RequireInv, DepsOf, Nodes
<1>9. TControlInv'
  BY <1>1 DEF TControlInv, Nodes
<1>. QED BY <1>4, <1>5, <1>6, <1>7, <1>8, <1>9

\* The handler records its result.
LEMMA ApplyKeeps == ASSUME TStateInv, THandlerApply PROVE TStateInv'
<1> USE DEF TStateInv, gvars, sched
<1>1. PICK m : m = hand.name
  OBVIOUS
<1>2. /\ hpc = "locked" /\ hpc' = "display"
      /\ results'   = Append(results, hand)
      /\ resultMap' = [resultMap EXCEPT ![m] = hand.status]
      /\ completed' = completed \cup {m}
      /\ executing' = executing \ {m}
      /\ failed'    = IF hand.status = "error" THEN failed \cup {m} ELSE failed
      /\ UNCHANGED <<stage, sched, chan, hand, gvars, cancelled, ret, crashed>>
  BY <1>1 DEF THandlerApply
<1>3. /\ hand \in ResultRec /\ m \in Names /\ hand.status \in Status
      /\ m \in executing /\ m \in Nodes /\ m \notin completed
      /\ go[m] \in {"idle", "sent"} /\ (spc = "decide" => cur # m)
  BY <1>1, <1>2, RecordFields DEF THandInv, Holding, MapInv, TTypeOK
<1>4. /\ resultMap \in [Names -> Status \cup {"none"}] /\ resultMap'[m] = hand.status
      /\ \A n \in Names : n # m => resultMap'[n] = resultMap[n]
  BY <1>2, <1>3 DEF TTypeOK
<1>5. TTypeOK'
  <2>1. results' \in Seq(ResultRec)
    BY <1>2, <1>3, AppendProperties DEF TTypeOK
  <2>2. resultMap' \in [Names -> Status \cup {"none"}]
    BY <1>2, <1>3 DEF TTypeOK
  <2>. QED BY <1>2, <1>3, <2>1, <2>2 DEF TTypeOK, Nodes
<1>6. ChanInv'
  BY <1>1, <1>2, <1>3 DEF ChanInv, Holding
<1>7. THandInv'
  BY <1>2 DEF THandInv, Holding
<1>8. StepInv'
  BY <1>2, <1>3 DEF StepInv, Alive
<1>9. ReadyInv'
  BY <1>2, <1>3 DEF ReadyInv, DepsOf, Nodes
<1>10. MapInv'
  <2>1. completed' \cap executing' = {}
    BY <1>2 DEF MapInv
  <2>2. completed \subseteq Names
    BY TNodesAreNames DEF TTypeOK
  <2>3. failed' = {n \in completed' : resultMap'[n] = "error"}
    BY <1>2, <1>3, <1>4, <2>2 DEF MapInv
  <2>4. \A n \in Names \ completed' : resultMap'[n] = "none"
    BY <1>2, <1>4 DEF MapInv
  <2>. QED BY <2>1, <2>3, <2>4 DEF MapInv
<1>11. RequireInv'
  BY <1>2, <1>3 DEF RequireInv, DepsOf, Nodes
<1>12. TControlInv'
  BY <1>2, <1>3 DEF TControlInv, Nodes
<1>. QED BY <1>5, <1>6, <1>7, <1>8, <1>9, <1>10, <1>11, <1>12

\* A goroutine moves on without touching the maps; a cancelled one may be done
\* without having sent its result.
LEMMA StepKeeps ==
  ASSUME TStateInv, NEW n \in Names, Alive(n),
         NEW s \in {"running", "checked", "sent"}, go' = [go EXCEPT ![n] = s],
         NEW r \in ResultRec, r.name = n,
         res' = IF s = "checked" THEN [res EXCEPT ![n] = r] ELSE res,
         UNCHANGED <<stage, sched, maps, chan, hvars, cancelled, ret>>
  PROVE  TStateInv'
<1> USE DEF TStateInv, maps, hvars, sched
<1>1. /\ go \in [Names -> StepStates] /\ go'[n] = s
      /\ \A k \in Names : k # n => go'[k] = go[k]
  BY DEF TTypeOK
<1>2. /\ s = "checked" => res'[n] = r
      /\ \A k \in Names : k # n => res'[k] = res[k]
  BY DEF TTypeOK
<1>3. TTypeOK'
  BY DEF TTypeOK, Nodes, StepStates
<1>4. ChanInv'
  BY <1>1, ChanNames DEF ChanInv, Holding, Alive
<1>5. THandInv'
  BY <1>1, RecordFields DEF THandInv, Holding, Alive
<1>6. StepInv'
  BY <1>1, <1>2 DEF StepInv, Alive
<1>7. ReadyInv'
  <2>1. ready \subseteq Names /\ Nodes \subseteq Names
    BY TNodesAreNames DEF TTypeOK
  <2>2. n \notin ready /\ (spc = "decide" => cur # n)
    BY DEF StepInv, ReadyInv
  <2>. QED BY <1>1, <2>1, <2>2 DEF ReadyInv, DepsOf, Nodes
<1>8. RequireInv'
  BY <1>1, TNodesAreNames DEF RequireInv, DepsOf, Nodes, Alive
<1>9. MapInv' /\ TControlInv'
  BY DEF MapInv, TControlInv, Nodes
<1>. QED BY <1>3, <1>4, <1>5, <1>6, <1>7, <1>8, <1>9

\* A goroutine hands its result over; it had none on the way before.
LEMMA SendKeeps ==
  ASSUME TStateInv, NEW n \in Names, go[n] = "checked", go' = [go EXCEPT ![n] = "sent"],
         chan' = Append(chan, res[n]),
         UNCHANGED <<stage, sched, maps, hvars, res, cancelled, ret>>
  PROVE  TStateInv'
<1> USE DEF TStateInv, maps, hvars, sched
<1>2. /\ res[n] \in ResultRec /\ res[n].name = n /\ n \in executing
      /\ (spc = "decide" => cur # n)
  BY DEF StepInv, Alive
<1>3. /\ go \in [Names -> StepStates] /\ go'[n] = "sent"
      /\ \A k \in Names : k # n => go'[k] = go[k]
  BY DEF TTypeOK
<1>4. Holding' = Holding
  BY DEF Holding
<1>5. ChanInv' /\ chan' \in Seq(ResultRec)
  <2>1. \A i \in 1..Len(chan) : chan[i].name # n /\ chan[i].name \in Names
    BY ChanNames DEF ChanInv
  <2>2. Holding => hand.name # n
    BY DEF THandInv
  <2>. QED BY <1>2, <1>3, <1>4, <2>1, <2>2, OneMoreInChan
<1>6. TTypeOK'
  BY <1>3, <1>5 DEF TTypeOK, Nodes, StepStates
<1>7. THandInv'
  BY <1>3, <1>4, RecordFields DEF THandInv
<1>8. StepInv'
  BY <1>2, <1>3 DEF StepInv, Alive
<1>9. ReadyInv'
  <2>1. ready \subseteq Names /\ Nodes \subseteq Names
    BY TNodesAreNames DEF TTypeOK
  <2>. QED BY <1>2, <1>3, <2>1 DEF ReadyInv, DepsOf, Nodes
<1>10. RequireInv'
  BY <1>3, TNodesAreNames DEF RequireInv, DepsOf, Nodes
<1>11. MapInv' /\ TControlInv'
  BY DEF MapInv, TControlInv, Nodes
<1>. QED BY <1>5, <1>6, <1>7, <1>8, <1>9, <1>10, <1>11

\* The three steps of a goroutine.
LEMMA GoroutineKeeps ==
  ASSUME TStateInv, NEW n \in Names, TStepStart(n) \/ TStepFinish(n) \/ TStepSend(n)
  PROVE  TStateInv'
<1>1. CASE TStepStart(n)
  <2>1. Result(n, "ok") \in ResultRec /\ Result(n, "ok").name = n
    BY ResultsAreRecords DEF Status
  <2>. QED BY <1>1, <2>1, StepKeeps DEF TStepStart, Alive
<1>2. CASE TStepFinish(n)
  <2>1. PICK q \in RunnerResults : res' = [res EXCEPT ![n] = Result(n, Ran(q).status)]
    BY <1>2 DEF TStepFinish
  <2>2. Ran(q).status \in Status
    BY RunnersAssumption DEF Ran, Status
  <2>3. Result(n, Ran(q).status) \in ResultRec /\ Result(n, Ran(q).status).name = n
    BY <2>2, ResultsAreRecords
  <2>. QED BY <1>2, <2>1, <2>3, StepKeeps DEF TStepFinish, Alive
<1>3. CASE TStepSend(n)
  <2>1. res[n] \in ResultRec /\ res[n].name = n
    BY <1>3 DEF TStepSend, TStateInv, StepInv
  <2>2. CASE chan' = Append(chan, res[n])
    BY <1>3, <2>2, SendKeeps DEF TStepSend
  <2>3. CASE UNCHANGED chan
    BY <1>3, <2>1, <2>3, StepKeeps DEF TStepSend, Alive
  <2>. QED BY <1>3, <2>2, <2>3 DEF TStepSend
<1>. QED BY <1>1, <1>2, <1>3

LEMMA StateInductive == ASSUME TStateInv, [TNext]_tvars PROVE TStateInv'
<1>1. CASE TCaller
  BY <1>1, CallerKeeps DEF TCaller, Plainly, TMainReturn
<1>2. CASE TScheduler
  BY <1>2, SchedulerKeeps, ScanKeeps, LaunchKeeps, SkipKeeps, SpawnKeeps DEF TScheduler, Plainly
<1>3. CASE THandler
  BY <1>3, HandlerKeeps, RecvKeeps, ApplyKeeps DEF THandler, Plainly
<1>4. CASE Plainly(Cancel) \/ TMapFault
  BY <1>4, SchedulerKeeps, HandlerKeeps DEF Plainly
<1>5. ASSUME NEW n \in Names, TStepAsync(n) \/ TStepFinish(n) PROVE TStateInv'
  BY <1>5, GoroutineKeeps, HandlerKeeps DEF TStepAsync
<1>6. CASE UNCHANGED tvars
  BY <1>6, HandlerKeeps
<1>. QED BY <1>1, <1>2, <1>3, <1>4, <1>5, <1>6 DEF TNext, TEnded

-----------------------------------------------------------------------------
(* Results, verdict and display *)

LEMMA TInvInit == TInit => TInv
<1> SUFFICES ASSUME TInit PROVE TInv
  OBVIOUS
<1> USE DEF TInit
<1>1. IInv /\ ExactlyOneResult /\ VerdictSound
  BY VInvInit DEF VInv
<1>2. TTypeOK /\ THandInv
  BY <1>1 DEF IInv, TypeOK, HandInv, TTypeOK, THandInv
<1>3. TControlInv
  BY DEF Init, TControlInv, Returned
<1>4. DisplayInv
  BY DEF Init, DisplayInv, Returned
<1>. QED BY <1>1, <1>2, <1>3, <1>4 DEF TInv, TStateInv, IInv

\* Who writes what: only the handler records results, only the caller sets the
\* verdict, and only a starting goroutine is allowed to stream.
LEMMA TWhoWrites ==
  ASSUME [TNext]_tvars
  PROVE  /\ stage' = stage /\ (cancelled => cancelled')
         /\ UNCHANGED <<results, resultMap, completed>> \/ THandlerApply
         /\ UNCHANGED ret \/ BuildDAG \/ MainReturn
<1> USE DEF maps, hvars, gvars, sched, svars, NextStart
<1>1. CASE TCaller
  BY <1>1 DEF TCaller, Plainly, TMainReturn, BuildDAG, MainReturn
<1>2. CASE TScheduler
  BY <1>2 DEF TScheduler, Plainly, SchedulerTop, TScanReady, TAllDone, AbandonStart, Launch,
     TSkip, TSpawn, TDisplay, TCloseChannel
<1>3. CASE THandler
  BY <1>3 DEF THandler, Plainly, HandlerRecv, HandlerLock, THandlerApply, THandlerDisplay,
     THandlerNext, HandlerExit
<1>4. CASE Plainly(Cancel) \/ TMapFault
  BY <1>4 DEF Plainly, Cancel, TMapFault
<1>5. ASSUME NEW n \in Names, TStepAsync(n) \/ TStepFinish(n)
      PROVE  UNCHANGED <<stage, cancelled, results, resultMap, completed, ret>>
  BY <1>5 DEF TStepAsync, TStepStart, TStepSend, TStepPanic, TStepFinish
<1>6. CASE UNCHANGED tvars
  BY <1>6 DEF tvars, vars
<1>. QED BY <1>1, <1>2, <1>3, <1>4, <1>5, <1>6 DEF TNext, TEnded

\* What the steps do to the display.
LEMMA WhoDisplays ==
  ASSUME [TNext]_tvars
  PROVE  \/ UNCHANGED <<displayed, streams>> /\ (UNCHANGED ret \/ BuildDAG)
         \/ THandlerDisplay \/ THandlerNext \/ TDisplay \/ TMainReturn
         \/ \E n \in Names : TStepStart(n)
<1> USE DEF svars
<1>1. CASE TCaller
  BY <1>1 DEF TCaller, Plainly
<1>2. CASE TScheduler
  BY <1>2 DEF TScheduler, Plainly, SchedulerTop, TScanReady, TAllDone, AbandonStart, Launch,
     TSkip, TSpawn, TCloseChannel
<1>3. CASE THandler
  BY <1>3 DEF THandler, Plainly, HandlerRecv, HandlerLock, THandlerApply, HandlerExit
<1>4. CASE Plainly(Cancel) \/ TMapFault
  BY <1>4 DEF Plainly, Cancel, TMapFault
<1>5. ASSUME NEW n \in Names, TStepAsync(n) \/ TStepFinish(n)
      PROVE  UNCHANGED <<displayed, streams, ret>> \/ TStepStart(n)
  BY <1>5 DEF TStepAsync, TStepSend, TStepPanic, TStepFinish
<1>6. CASE UNCHANGED tvars
  BY <1>6 DEF tvars, vars
<1>. QED BY <1>1, <1>2, <1>3, <1>4, <1>5, <1>6 DEF TNext, TEnded

\* No step gets a second result.
LEMMA OneResultKept ==
  ASSUME TStateInv, ExactlyOneResult, [TNext]_tvars PROVE ExactlyOneResult'
<1>1. CASE UNCHANGED <<results, resultMap, completed>>
  BY <1>1 DEF ExactlyOneResult
<1>2. CASE THandlerApply
  <2> DEFINE L == Len(results)
  <2>1. /\ hand \in ResultRec /\ hand.name \in Names /\ hand.name \notin completed
        /\ results' = Append(results, hand) /\ completed' = completed \cup {hand.name}
        /\ resultMap' = [resultMap EXCEPT ![hand.name] = hand.status]
        /\ resultMap \in [Names -> Status \cup {"none"}]
    BY <1>2, RecordFields DEF THandlerApply, TStateInv, THandInv, Holding, MapInv, TTypeOK
  <2>2. /\ L \in Nat /\ DOMAIN results = 1..L /\ DOMAIN results' = 1..(L + 1)
        /\ \A i \in 1..L : results'[i] = results[i] /\ results[i].name \in Names
        /\ results'[L + 1] = hand
    BY <2>1, AppendProperties, LenProperties, ElementOfSeq, RecordFields DEF TStateInv, TTypeOK
  <2> HIDE DEF L
  <2>3. /\ \A i \in 1..(L + 1) : i \in 1..L \/ i = L + 1
        /\ \A i \in 1..L : i \in 1..(L + 1) /\ i # L + 1
        /\ L + 1 \in 1..(L + 1)
    BY <2>2
  <2>4. \A i \in 1..L : results[i].name \in completed /\ results[i].name # hand.name
    BY <2>1, <2>2 DEF ExactlyOneResult
  <2>5. \A i, j \in 1..(L + 1) : results'[i].name = results'[j].name => i = j
    <3> SUFFICES ASSUME NEW i \in 1..(L + 1), NEW j \in 1..(L + 1),
                        results'[i].name = results'[j].name
                 PROVE  i = j
      OBVIOUS
    <3>1. CASE i \in 1..L /\ j \in 1..L
      <4>1. results[i].name = results[j].name
        BY <2>2, <3>1
      <4>. QED BY <2>2, <3>1, <4>1 DEF ExactlyOneResult
    <3>2. CASE i = L + 1 /\ j \in 1..L
      BY <2>2, <2>4, <3>2
    <3>3. CASE i \in 1..L /\ j = L + 1
      BY <2>2, <2>4, <3>3
    <3>. QED BY <2>3, <3>1, <3>2, <3>3
  <2>6. completed' = {results'[i].name : i \in 1..(L + 1)}
    BY <2>1, <2>2, <2>3 DEF ExactlyOneResult
  <2>7. \A i \in 1..(L + 1) : resultMap'[results'[i].name] = results'[i].status
    BY <2>1, <2>2, <2>3, <2>4 DEF ExactlyOneResult
  <2>. QED BY <2>2, <2>5, <2>6, <2>7 DEF ExactlyOneResult
<1>. QED BY <1>1, <1>2, TWhoWrites

\* A call that ends without a cancellation has a result for every step: the
\* scheduler leaves its loop when the rest executes, and then waits for it.
LEMMA AllHaveResults ==
  ASSUME TStateInv, hpc = "done", ~cancelled PROVE completed = Nodes
BY DEF TStateInv, TControlInv, TTypeOK

LEMMA VerdictKept == ASSUME TInv, [TNext]_tvars PROVE VerdictSound'
<1> USE DEF TInv
<1>1. stage' = stage /\ Nodes' = Nodes /\ (cancelled => cancelled')
  BY TWhoWrites DEF Nodes
<1>2. CASE BuildDAG
  BY <1>1, <1>2 DEF BuildDAG, VerdictSound, Returned, TStateInv, TControlInv, maps
<1>3. CASE MainReturn
  <2>1. /\ hpc = "done" /\ UNCHANGED <<resultMap, completed, cancelled>>
        /\ cancelled \/ completed = Nodes
    BY <1>3, AllHaveResults DEF MainReturn, maps
  <2>2. CASE \E i \in DOMAIN results :
               /\ Fatal(i) /\ \A j \in 1..(i - 1) : ~Fatal(j)
               /\ ret' = Returned("step", results[i].name)
    <3>1. PICK i \in DOMAIN results : Fatal(i) /\ ret' = Returned("step", results[i].name)
      BY <2>2
    <3>2. resultMap[ret'.name] = "error" /\ ~Waived(stage, ret'.name) /\ ret'.kind = "step"
      BY <3>1 DEF Fatal, ExactlyOneResult, Returned
    <3>. QED BY <1>1, <2>1, <3>2 DEF VerdictSound
  <2>3. CASE /\ \A i \in DOMAIN results : ~Fatal(i)
             /\ ret' = Returned(IF cancelled THEN "ctx" ELSE "nil", NoName)
    <3>1. \A n \in completed : resultMap[n] = "error" => Waived(stage, n)
      BY <2>3 DEF Fatal, ExactlyOneResult
    <3>. QED BY <1>1, <2>1, <2>3, <3>1 DEF VerdictSound, Returned
  <2>. QED BY <1>3, <2>2, <2>3 DEF MainReturn
<1>4. CASE UNCHANGED ret
  <2>1. CASE UNCHANGED <<resultMap, completed>>
    BY <1>1, <1>4, <2>1 DEF VerdictSound
  <2>2. CASE THandlerApply
    BY <1>4, <2>2 DEF THandlerApply, TStateInv, TControlInv, VerdictSound
  <2>. QED BY <2>1, <2>2, TWhoWrites
<1>. QED BY <1>2, <1>3, <1>4, TWhoWrites

\* Displaying a step never closes the way of another.
LEMMA CanDisplayMore ==
  ASSUME NEW n, NEW D, NEW E, D \subseteq E, CanDisplayStepInOrder(n, D)
  PROVE  CanDisplayStepInOrder(n, E)
BY DEF CanDisplayStepInOrder

\* The display code adds at most one completed step, whose turn it is.
LEMMA NextDisplayed ==
  ASSUME NEW D
  PROVE  \/ CheckAndDisplayNextStep(D) = D
         \/ \E x \in completed : /\ CanDisplayStepInOrder(x, D)
                                  /\ CheckAndDisplayNextStep(D) = D \cup {x}
BY DEF CheckAndDisplayNextStep, DisplayStepInOrder

\* Marking a completed step whose turn it is keeps the order.
LEMMA MarkKeepsOrder ==
  ASSUME DisplayInv, NEW x \in completed, CanDisplayStepInOrder(x, displayed),
         displayed' = displayed \cup {x}, UNCHANGED <<stage, streams, completed, ret>>
  PROVE  DisplayInv'
<1>1. \A n : CanDisplayStepInOrder(n, displayed) =>
              \A i \in DOMAIN stage' :
                (\A j \in 1..i : stage'[j].action # n) => stage'[i].action \in displayed'
  BY DEF CanDisplayStepInOrder
<1>. QED BY <1>1 DEF DisplayInv, CanDisplayStepInOrder, Nodes

\* So does the display code as a whole.
LEMMA NextKeepsOrder ==
  ASSUME DisplayInv, displayed' = CheckAndDisplayNextStep(displayed),
         UNCHANGED <<stage, streams, completed, ret>>
  PROVE  DisplayInv'
<1>1. CASE displayed' = displayed
  BY <1>1 DEF DisplayInv, CanDisplayStepInOrder, Nodes
<1>2. ASSUME NEW x \in completed, CanDisplayStepInOrder(x, displayed),
             displayed' = displayed \cup {x}
      PROVE  DisplayInv'
  BY <1>2, MarkKeepsOrder
<1>. QED BY <1>1, <1>2, NextDisplayed

LEMMA DisplayKept == ASSUME TInv, [TNext]_tvars PROVE DisplayInv'
<1> USE DEF TInv, maps, sched
<1>1. stage' = stage /\ Nodes' = Nodes
  BY TWhoWrites DEF Nodes
<1>2. completed \subseteq completed' /\ (ret.kind # "none" => UNCHANGED completed)
  BY TWhoWrites DEF THandlerApply, TStateInv, TControlInv
<1>3. CASE UNCHANGED <<displayed, streams>> /\ UNCHANGED ret
  BY <1>1, <1>2, <1>3 DEF DisplayInv, CanDisplayStepInOrder
<1>4. CASE UNCHANGED <<displayed, streams>> /\ BuildDAG
  <2>1. ret.kind = "none" /\ ret'.kind \in {"none", "dag"}
    BY <1>4 DEF BuildDAG, Returned, TStateInv, TControlInv
  <2>. QED BY <1>1, <1>2, <1>4, <2>1 DEF DisplayInv, CanDisplayStepInOrder
<1>5. CASE THandlerDisplay
  <2>1. PICK m : m = hand.name
    OBVIOUS
  <2>2. /\ displayed' = DisplayStepInOrder(m, displayed)
        /\ UNCHANGED <<stage, streams, completed, ret>>
    BY <1>5, <2>1 DEF THandlerDisplay
  <2>3. CASE displayed' = displayed
    BY <2>2, <2>3 DEF DisplayInv, CanDisplayStepInOrder, Nodes
  <2>4. CASE displayed' # displayed
    BY <2>2, <2>4, MarkKeepsOrder DEF DisplayStepInOrder
  <2>. QED BY <2>3, <2>4
<1>6. CASE THandlerNext \/ TDisplay
  BY <1>6, NextKeepsOrder DEF THandlerNext, TDisplay
<1>7. CASE TMainReturn
  <2>1. /\ displayed' = displayed \cup {n \in Nodes : resultMap[n] # "none"}
        /\ ret'.kind # "none" /\ UNCHANGED <<streams, completed, stage>>
    BY <1>7 DEF TMainReturn, MainReturn, DisplayRemainingSteps, Returned
  <2>2. \A n \in Nodes : resultMap[n] # "none" => n \in completed
    BY TNodesAreNames DEF TStateInv, MapInv
  <2>3. \A n \in completed : n \in Nodes /\ resultMap[n] # "none"
    <3>1. \A i \in DOMAIN results : results[i].status \in Status
      BY ElementOfSeq, LenProperties, RecordFields DEF TStateInv, TTypeOK
    <3>. QED BY <3>1 DEF ExactlyOneResult, TStateInv, TTypeOK, Status
  <2>4. displayed' = completed
    BY <2>1, <2>2, <2>3 DEF DisplayInv
  <2>5. \A n \in streams : CanDisplayStepInOrder(n, displayed')
    BY <2>1, CanDisplayMore DEF DisplayInv
  <2>. QED BY <2>1, <2>4, <2>5, <1>1 DEF DisplayInv, CanDisplayStepInOrder
<1>8. ASSUME NEW n \in Names, TStepStart(n) PROVE DisplayInv'
  <2>1. /\ go[n] = "spawned" /\ UNCHANGED <<stage, completed, ret, displayed>>
        /\ streams' = IF ShouldStreamOutput(n) THEN streams \cup {n} ELSE streams
    BY <1>8 DEF TStepStart
  <2>2. n \in Nodes
    BY <2>1 DEF TStateInv, StepInv, TTypeOK
  <2>. QED BY <1>1, <2>1, <2>2 DEF DisplayInv, ShouldStreamOutput, CanDisplayStepInOrder
<1>. QED BY <1>3, <1>4, <1>5, <1>6, <1>7, <1>8, WhoDisplays

LEMMA TInvInductive == TInv /\ [TNext]_tvars => TInv'
  BY StateInductive, OneResultKept, VerdictKept, DisplayKept DEF TInv

LEMMA StreamingInvariance == TSpec => []TInv
  BY TInvInit, TInvInductive, PTL DEF TSpec

-----------------------------------------------------------------------------
(* The theorems *)

\* A step of the streaming executor is run only after the steps it requires
\* completed without error, whoever is cancelled or left behind.
THEOREM StreamingRespectsRequirements == TSpec => []RequireRespected
<1>1. TInv => RequireRespected
  BY DEF TInv, TStateInv, RequireInv, MapInv, RequireRespected
<1>. QED BY StreamingInvariance, <1>1, PTL

\* The verdict after <-done is right although a cancelled call does not wait.
THEOREM StreamingVerdictIsSound == TSpec => []VerdictSound
<1>1. TInv => VerdictSound
  BY DEF TInv
<1>. QED BY StreamingInvariance, <1>1, PTL

\* Every node of the stage has a place where it is declared first.
LEMMA FirstDeclared ==
  ASSUME TTypeOK, NEW n \in Nodes
  PROVE  \E i \in DOMAIN stage : /\ stage[i].action = n
                                 /\ \A j \in 1..(i - 1) : stage[j].action # n
<1> DEFINE S == {i \in DOMAIN stage : stage[i].action = n}
<1>1. DOMAIN stage = 1..Len(stage) /\ Len(stage) \in Nat
  BY StagesAssumption, LenProperties DEF TTypeOK
<1>2. S \in SUBSET Nat /\ S # {}
  BY <1>1 DEF Nodes, Node
<1>3. PICK i \in S : \A j \in S : ~(<<j, i>> \in OpToRel(<, Nat))
  BY <1>2, NatLessThanWellFounded, WFMin
<1>4. \A j \in S : ~(j < i)
  BY <1>2, <1>3 DEF OpToRel
<1>5. \A j \in 1..(i - 1) : j \in DOMAIN stage /\ j < i
  BY <1>1
<1>. QED BY <1>4, <1>5

\* Of two steps that may stream, the one declared first is displayed already.
LEMMA StreamersAreDisplayed ==
  ASSUME TInv, NEW n \in streams, NEW m \in streams, n # m
  PROVE  n \in displayed \/ m \in displayed
<1> USE DEF TInv
<1>0. DOMAIN stage = 1..Len(stage) /\ Len(stage) \in Nat
  BY StagesAssumption, LenProperties DEF TStateInv, TTypeOK
<1>1. PICK i \in DOMAIN stage : stage[i].action = n /\ \A j \in 1..(i - 1) : stage[j].action # n
  BY FirstDeclared DEF TStateInv, DisplayInv
<1>2. PICK k \in DOMAIN stage : stage[k].action = m /\ \A j \in 1..(k - 1) : stage[j].action # m
  BY FirstDeclared DEF TStateInv, DisplayInv
<1>3. CASE i < k
  <2>1. \A j \in 1..i : stage[j].action # m
    BY <1>0, <1>2, <1>3
  <2>. QED BY <1>1, <2>1 DEF DisplayInv, CanDisplayStepInOrder
<1>4. CASE k < i
  <2>1. \A j \in 1..k : stage[j].action # n
    BY <1>0, <1>1, <1>4
  <2>. QED BY <1>2, <2>1 DEF DisplayInv, CanDisplayStepInOrder
<1>. QED BY <1>0, <1>1, <1>2, <1>3, <1>4

\* ShouldStreamOutput gives the terminal to one running step at a time: the
\* display code of two goroutines, which takes no lock, cannot undo it.
THEOREM OneStreamAtATime == TSpec => []StreamsOneAtATime
<1>1. TInv => StreamsOneAtATime
  <2> SUFFICES ASSUME TInv, NEW n \in streams, NEW m \in streams,
                      go[n] = "running", go[m] = "running"
               PROVE  n = m
    BY DEF StreamsOneAtATime
  <2>1. n \in Names /\ m \in Names
    BY TNodesAreNames DEF TInv, TStateInv, DisplayInv
  <2>2. n \notin displayed /\ m \notin displayed
    BY <2>1 DEF TInv, TStateInv, StepInv, Alive, MapInv, DisplayInv
  <2>. QED BY <2>2, StreamersAreDisplayed
<1>. QED BY StreamingInvariance, <1>1, PTL

\* Both display goroutines together mark steps in the order of declaration,
\* and only steps whose result is recorded.
THEOREM DisplayFollowsDeclaration == TSpec => []DisplayedInOrder
<1>1. TInv => DisplayedInOrder
  <2>1. ASSUME TInv PROVE DOMAIN stage = 1..Len(stage) /\ Len(stage) \in Nat
    BY <2>1, StagesAssumption, LenProperties DEF TInv, TStateInv, TTypeOK
  <2>. QED BY <2>1 DEF TInv, DisplayInv, DisplayedInOrder, CanDisplayStepInOrder
<1>. QED BY StreamingInvariance, <1>1, PTL

\* displayRemainingSteps leaves nothing out: what the caller returns with is
\* what the user has seen.
THEOREM NothingLeftUndisplayed == TSpec => []AllDisplayedAtReturn
<1>1. TInv => AllDisplayedAtReturn
  BY DEF TInv, DisplayInv, VerdictSound, AllDisplayedAtReturn
<1>. QED BY StreamingInvariance, <1>1, PTL
===========================================================================
