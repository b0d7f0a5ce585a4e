---------------------------- MODULE StreamingDag ----------------------------
(***************************************************************************)
(* executeDAGWithOrderedStreaming of pkg/buildfab/buildfab.go, the executor *)
(* Runner.RunStage uses when no StepCallback is given: the processes, maps *)
(* and channel of DagExecutor, with these differences.                     *)
(*   - Every send is a select with ctx.Done(), and the deferred wait of    *)
(*     the scheduler gives up when the context is cancelled.               *)
(*   - The onerror policy is not applied to results, the state of the      *)
(*     context does not override them, and variants are not selected.      *)
(*   - The handler and the scheduler mark steps as displayed in            *)
(*     declaration order, without the mutex; a step goroutine asks (with   *)
(*     the mutex) whether it may stream its output.                        *)
(* The map `started` is written only together with a callback: left out.   *)
(***************************************************************************)
EXTENDS DagExecutor

VARIABLES
  displayed,  \* steps marked as displayed
  streams,    \* steps whose goroutine was allowed to stream its output
  panicked    \* a goroutine sent on the closed channel

svars == <<displayed, streams, panicked>>
tvars == <<vars, svars>>

TInit == Init /\ displayed = {} /\ streams = {} /\ panicked = FALSE

Plainly(A) == A /\ UNCHANGED svars

-----------------------------------------------------------------------------
(* Display in declaration order *)

\* Faulty variant: earlier steps are not looked at.
CanDisplayAny(n, D) == TRUE

\* canDisplayStepInOrder: all steps declared before n are displayed.
CanDisplayStepInOrder(n, D) ==
  \A i \in DOMAIN stage :
    (\A j \in 1..i : stage[j].action # n) => stage[i].action \in D

\* displayStepInOrder: D with n, if n may be displayed and has completed.
DisplayStepInOrder(n, D) ==
  IF CanDisplayStepInOrder(n, D) /\ n \in completed THEN D \cup {n} ELSE D

\* checkAndDisplayNextStep looks at the first step that is not displayed and
\* may be; it displays at most one.
CheckAndDisplayNextStep(D) ==
  LET candidates == {i \in DOMAIN stage :
        stage[i].action \notin D /\ CanDisplayStepInOrder(stage[i].action, D)}
      next == stage[CHOOSE i \in candidates : \A j \in candidates : i <= j].action
  IN  IF candidates = {} THEN D ELSE DisplayStepInOrder(next, D)

\* Faulty variant: the remaining steps are forgotten.
DisplayNothingMore(D) == D

\* displayRemainingSteps: every step that has a result.
DisplayRemainingSteps(D) == D \cup {n \in Nodes : resultMap[n] # "none"}

\* Faulty variant: a step may stream once the steps before it have completed.
ShouldStreamWhenCompleted(n) ==
  \A i \in DOMAIN stage :
    (\A j \in 1..i : stage[j].action # n) => stage[i].action \in completed \cup executing

\* StreamingOutputManager.ShouldStreamOutput.
ShouldStreamOutput(n) == CanDisplayStepInOrder(n, displayed) /\ n \notin displayed

-----------------------------------------------------------------------------
(* The result handler *)

THandlerApply ==
  /\ hpc = "locked"
  /\ results'   = Append(results, hand)
  /\ resultMap' = [resultMap EXCEPT ![hand.name] = hand.status]
  /\ completed' = completed \cup {hand.name}
  /\ executing' = executing \ {hand.name}
  /\ failed'    = IF hand.status = "error" THEN failed \cup {hand.name} ELSE failed
  /\ hpc' = "display"
  /\ UNCHANGED <<stage, sched, chan, hand, gvars, cancelled, ret, crashed, svars>>

THandlerDisplay ==
  /\ hpc = "display"
  /\ displayed' = DisplayStepInOrder(hand.name, displayed)
  /\ hpc' = "next"
  /\ UNCHANGED <<stage, sched, maps, chan, hand, gvars, cancelled, ret, crashed,
                 streams, panicked>>

THandlerNext ==
  /\ hpc = "next"
  /\ displayed' = CheckAndDisplayNextStep(displayed)
  /\ hpc' = "recv" /\ hand' = NoResult
  /\ UNCHANGED <<stage, sched, maps, chan, gvars, cancelled, ret, crashed,
                 streams, panicked>>

-----------------------------------------------------------------------------
(* The scheduler *)

\* Faulty variant: one completed requirement is enough.
TIsReadyEarly(n) ==
  /\ n \notin completed /\ n \notin executing
  /\ DepsOf(n) = {} \/ DepsOf(n) \cap (completed \cup executing) # {}

\* getReadyStepsLocked.
TIsReady(n) == n \notin completed /\ n \notin executing /\ DepsOf(n) \subseteq completed

TScanReady ==
  /\ spc = "scan" /\ MuFree
  /\ ready' = {n \in Nodes : TIsReady(n)}
  /\ spc' = IF ready' = {} THEN "alldone" ELSE "start"
  /\ UNCHANGED <<stage, cur, maps, chan, hvars, gvars, cancelled, ret, crashed, svars>>

\* Nothing is ready: leave the loop when every step is completed or executing.
\* A cancellation during the wait before the next round leads to the same
\* place as the test at the top of that round.
TAllDone ==
  /\ spc = "alldone" /\ MuFree
  /\ spc' = IF Nodes \subseteq completed \cup executing THEN "drain" ELSE "top"
  /\ UNCHANGED <<stage, ready, cur, maps, chan, hvars, gvars, cancelled, ret, crashed, svars>>

\* Both kinds of skip send the result, unless the select notices the context.
TSkip ==
  /\ spc = "decide"
  /\ HasFailedDependency(cur) \/ HasCond(stage, cur)
  /\ \/ /\ CanSend /\ chan' = Append(chan, Result(cur, "skipped"))
        /\ NextStart /\ UNCHANGED ready
     \/ /\ cancelled /\ spc' = "drain" /\ cur' = NoName
        /\ ready' = {} /\ UNCHANGED chan
  /\ UNCHANGED <<stage, maps, hvars, gvars, cancelled, ret, crashed, svars>>

TSpawn ==
  /\ spc = "decide" /\ ~HasFailedDependency(cur)
  /\ go' = [go EXCEPT ![cur] = "spawned"]
  /\ spc' = "display" /\ cur' = NoName
  /\ UNCHANGED <<stage, ready, maps, chan, hvars, res, cancelled, ret, crashed, svars>>

\* The scheduler too looks for a step to display, without the mutex.
TDisplay ==
  /\ spc = "display"
  /\ displayed' = CheckAndDisplayNextStep(displayed)
  /\ NextStart
  /\ UNCHANGED <<stage, ready, maps, chan, hvars, gvars, cancelled, ret, crashed,
                 streams, panicked>>

\* Faulty variant: the wait does not look at the context.
WaitForAll ==
  /\ spc = "drain" /\ MuFree /\ Nodes \cap executing = {}
  /\ spc' = "closed"
  /\ UNCHANGED <<stage, ready, cur, maps, chan, hvars, gvars, cancelled, ret, crashed, svars>>

\* The deferred function: wait until nothing executes or the context is
\* cancelled, then close the channel.
TCloseChannel ==
  /\ spc = "drain" /\ MuFree
  /\ Nodes \cap executing = {} \/ cancelled
  /\ spc' = "closed"
  /\ UNCHANGED <<stage, ready, cur, maps, chan, hvars, gvars, cancelled, ret, crashed, svars>>

-----------------------------------------------------------------------------
(* The goroutine of a step *)

\* runCustomActionForDAGWithStreamingControl asks whether it may stream; a
\* built-in action does not ask, and has no lines to stream.
TStepStart(n) ==
  /\ go[n] = "spawned" /\ MuFree
  /\ go' = [go EXCEPT ![n] = "running"]
  /\ streams' = IF ShouldStreamOutput(n) THEN streams \cup {n} ELSE streams
  /\ UNCHANGED <<stage, sched, maps, chan, hvars, res, cancelled, ret, crashed,
                 displayed, panicked>>

\* The action returns; its status is the result, whatever the policy.
TStepFinish(n) ==
  /\ go[n] = "running"
  /\ go' = [go EXCEPT ![n] = "checked"]
  /\ \E r \in RunnerResults : res' = [res EXCEPT ![n] = Result(n, Ran(r).status)]
  /\ UNCHANGED <<stage, sched, maps, chan, hvars, cancelled, ret, crashed, svars>>

\* select: the result is sent, or dropped because the context is cancelled.
TStepSend(n) ==
  /\ go[n] = "checked" /\ go' = [go EXCEPT ![n] = "sent"]
  /\ \/ spc # "closed" /\ CanSend /\ chan' = Append(chan, res[n])
     \/ cancelled /\ UNCHANGED chan
  /\ UNCHANGED <<stage, sched, maps, hvars, res, cancelled, ret, crashed, svars>>

\* A send on a closed channel is ready for select as well: it panics.
TStepPanic(n) ==
  /\ go[n] = "checked" /\ spc = "closed"
  /\ panicked' = TRUE /\ crashed' = TRUE
  /\ UNCHANGED <<stage, sched, maps, chan, hvars, gvars, cancelled, ret, displayed, streams>>

-----------------------------------------------------------------------------
\* After <-done: displayRemainingSteps, then the verdict of runStageInternal.
TMainReturn ==
  /\ MainReturn
  /\ displayed' = DisplayRemainingSteps(displayed)
  /\ UNCHANGED <<streams, panicked>>

\* Accesses of the maps that no lock orders: `failed` as in DagExecutor; the
\* display code of two goroutines, or of one while the handler writes under mu;
\* a step goroutine reading `displayed` under mu while display code, which does
\* not take it, writes.  The maps only grow, so a reader that survives the
\* overlap has seen the state before or after the write.
UnsynchronisedDisplay ==
  \/ spc = "display" /\ hpc \in {"locked", "display", "next"}
  \/ /\ spc = "display" \/ hpc \in {"display", "next"} \/ (hpc = "done" /\ ret.kind = "none")
     /\ \E n \in Names : go[n] = "spawned"

TMapFault ==
  /\ UnsynchronisedRead \/ UnsynchronisedDisplay
  /\ crashed' = TRUE
  /\ UNCHANGED <<stage, sched, maps, chan, hvars, gvars, cancelled, ret, svars>>

TScheduler ==
  \/ Plainly(SchedulerTop) \/ TScanReady \/ TAllDone
  \/ Plainly(AbandonStart) \/ Plainly(Launch)
  \/ TSkip \/ TSpawn \/ TDisplay \/ TCloseChannel

THandler ==
  \/ Plainly(HandlerRecv) \/ Plainly(HandlerLock) \/ THandlerApply
  \/ THandlerDisplay \/ THandlerNext \/ Plainly(HandlerExit)

TCaller == Plainly(BuildDAG) \/ TMainReturn

TStepAsync(n) == TStepStart(n) \/ TStepSend(n) \/ TStepPanic(n)

\* After the call has returned, goroutines it left behind may go on.
TEnded == (ret.kind # "none" \/ crashed) /\ UNCHANGED tvars

TNext ==
  \/ Running /\ (TCaller \/ TScheduler \/ THandler \/ Plainly(Cancel) \/ TMapFault)
  \/ Running /\ \E n \in Names : TStepAsync(n) \/ TStepFinish(n)
  \/ TEnded

\* No fairness on TStepFinish: an action may run forever.
TFairness ==
  /\ WF_tvars(Running /\ TCaller)
  /\ WF_tvars(Running /\ TScheduler)
  /\ WF_tvars(Running /\ THandler)
  /\ \A n \in Names : WF_tvars(Running /\ TStepAsync(n))

TSpec == TInit /\ [][TNext]_tvars /\ TFairness

-----------------------------------------------------------------------------
(* Properties *)

\* At most one running step streams its output: the permission is given under
\* the mutex, on a map that others extend without it.
StreamsOneAtATime ==
  \A n, m \in streams : go[n] = "running" /\ go[m] = "running" => n = m

\* Until the handler is done steps are displayed in declaration order, each
\* after its result is known, although two goroutines display.  A step that is
\* declared twice is displayed where it is declared first.
DisplayedInOrder ==
  ret.kind = "none" =>
    \A j \in DOMAIN stage : stage[j].action \in displayed =>
      /\ stage[j].action \in completed
      /\ \A i \in 1..(j - 1) : \/ stage[i].action \in displayed
                               \/ \E k \in 1..i : stage[k].action = stage[j].action

\* When the call returns, every step that has a result is displayed, and
\* without a cancellation that is every step of the stage.
AllDisplayedAtReturn ==
  ret.kind \in {"nil", "step", "ctx"} =>
    displayed = (IF cancelled THEN completed ELSE Nodes)

\* The call returns unless an action runs forever and nobody cancels: unlike
\* the callback executor, a cancelled call does not wait for running actions.
EndsUnlessRunning ==
  \/ <>(ret.kind # "none" \/ crashed)
  \/ <>[](~cancelled /\ \E n \in Names : go[n] = "running")

\* buildfab.go:1287: the channel is closed after waiting for all executing
\* goroutines.  No goroutine then sends on the closed channel.
NoSendAfterClose == ~panicked

-----------------------------------------------------------------------------
(* The inductive invariant behind the safety properties: the parts about the *)
(* channel, the goroutines and the maps are those of DagExecutor.            *)

TTypeOK ==
  /\ stage \in Stages
  /\ spc \in {"build", "top", "scan", "alldone", "start", "decide", "display", "drain", "closed"}
  /\ ready \subseteq Nodes /\ cur \in Names \cup {NoName}
  /\ completed \subseteq Nodes /\ failed \subseteq Nodes /\ executing \subseteq Nodes
  /\ results \in Seq(ResultRec)
  /\ resultMap \in [Names -> Status \cup {"none"}]
  /\ chan \in Seq(ResultRec)
  /\ hpc \in {"off", "recv", "got", "locked", "display", "next", "done"}
  /\ go \in [Names -> StepStates]
  /\ res \in [Names -> ResultRec \cup {NoResult}]
  /\ cancelled \in BOOLEAN
  /\ ret \in [kind : {"none", "nil", "step", "ctx", "dag"}, name : Names \cup {NoName}]

\* The result the handler holds has not been applied yet.
THandInv ==
  Holding => /\ hand \in ResultRec
             /\ hand.name \in executing
             /\ go[hand.name] \in {"idle", "sent"}
             /\ spc = "decide" => cur # hand.name

\* Where the processes stand; a cancelled call may end with steps executing.
TControlInv ==
  /\ spc = "build" => hpc = "off" /\ executing = {}
  /\ spc = "closed" => cancelled \/ executing = {}
  /\ ready # {} => spc \in {"start", "decide", "display"}
  /\ hpc = "off" => spc \in {"build", "closed"}
  /\ hpc = "done" => spc = "closed"
  /\ ret.kind # "none" => hpc \in {"done", "off"} /\ spc = "closed"
  /\ spc \in {"drain", "closed"} /\ hpc # "off" =>
       cancelled \/ Nodes \subseteq completed \cup executing

\* Only completed steps are displayed, and what stands before a displayed or a
\* streaming step is displayed.
DisplayInv ==
  /\ displayed \subseteq completed
  /\ ret.kind = "none" => \A n \in displayed : CanDisplayStepInOrder(n, displayed)
  /\ \A n \in streams : n \in Nodes /\ CanDisplayStepInOrder(n, displayed)
  /\ ret.kind \in {"nil", "step", "ctx"} => completed \subseteq displayed

\* What holds of the maps, the channel and the goroutines.
TStateInv ==
  TTypeOK /\ ChanInv /\ THandInv /\ StepInv /\ ReadyInv /\ MapInv /\ RequireInv /\ TControlInv

TInv == TStateInv /\ ExactlyOneResult /\ VerdictSound /\ DisplayInv
=============================================================================
