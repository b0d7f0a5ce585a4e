---------------------------- MODULE DagExecutor ----------------------------
(***************************************************************************)
(* The parallel stage executor of pkg/buildfab/buildfab.go:                *)
(* executeStageWithCallback, executeDAGWithCallback and                    *)
(* executeActionForDAGWithCallback.                                        *)
(*                                                                         *)
(* Processes:                                                              *)
(*   - the caller, which builds the DAG, waits for the result handler and  *)
(*     turns the collected results into the verdict of the stage;          *)
(*   - the scheduler goroutine, a polling loop that starts ready steps and *)
(*     finally closes the result channel (program counter spc);            *)
(*   - the result handler goroutine (hpc), which drains the channel and    *)
(*     updates the maps under the mutex mu;                                *)
(*   - one goroutine per started step (go[n]);                             *)
(*   - the owner of the context, who may cancel it at any moment.          *)
(* mu is held across steps only by the handler (hpc = "locked"); the       *)
(* critical sections of the scheduler are single steps that wait for it.   *)
(***************************************************************************)
EXTENDS StageGraph

CONSTANTS
  Names,          \* names a stage may mention
  Actions,        \* names the configuration defines as actions
  Stages,         \* the stages considered: sequences of steps
  RunnerResults,  \* what running an action may return: [status, err]
  NoName          \* no step

Status == {"ok", "warn", "error", "skipped"}

ASSUME NamesAssumption   == IsFiniteSet(Names) /\ NoName \notin Names
ASSUME StagesAssumption  == Stages \subseteq Seq(Step(Names))
ASSUME RunnersAssumption == RunnerResults \subseteq [status : Status, err : BOOLEAN]

VARIABLES
  stage,      \* stage.Steps, fixed for the run
  spc,        \* scheduler: build, top, scan, alldone, start, decide, drain, closed
  ready,      \* readySteps still to be started
  cur,        \* nodeName of the start loop
  completed,  \* the maps of executeDAGWithCallback, as the sets of their
  failed,     \*   true keys
  executing,
  results,    \* results, in arrival order
  resultMap,  \* status recorded for a step, "none" before
  chan,       \* resultChan, buffered with capacity len(dag)
  hpc,        \* handler: off, recv, got, locked, done
  hand,       \* the result the handler holds
  go,         \* goroutine of a step: idle, spawned, running, reported, checked, sent
  res,        \* the result that goroutine carries
  cancelled,  \* ctx.Err() != nil
  ret,        \* what executeStageWithCallback returned
  crashed     \* the Go runtime aborted the process

maps  == <<completed, failed, executing, results, resultMap>>
sched == <<spc, ready, cur>>
hvars == <<hpc, hand>>
gvars == <<go, res>>
vars  == <<stage, sched, maps, chan, hvars, gvars, cancelled, ret, crashed>>

Result(n, s) == [name |-> n, status |-> s]
NoResult     == Result(NoName, "none")
Returned(k, n) == [kind |-> k, name |-> n]

Nodes    == Node(stage)
DepsOf(n) == Deps(stage, n)

Init ==
  /\ stage \in Stages
  /\ spc = "build" /\ ready = {} /\ cur = NoName
  /\ completed = {} /\ failed = {} /\ executing = {}
  /\ results = <<>> /\ resultMap = [n \in Names |-> "none"]
  /\ chan = <<>> /\ hpc = "off" /\ hand = NoResult
  /\ go = [n \in Names |-> "idle"] /\ res = [n \in Names |-> NoResult]
  /\ cancelled = FALSE /\ ret = Returned("none", NoName) /\ crashed = FALSE

-----------------------------------------------------------------------------
(* The caller *)

\* executeStageWithCallback builds the DAG; a bad stage is returned as an
\* error at once, otherwise the handler and the scheduler are started.
BuildDAG ==
  /\ spc = "build"
  /\ \/ /\ DagOK(stage, Actions)
        /\ spc' = "top" /\ hpc' = "recv" /\ UNCHANGED ret
     \/ /\ ~DagOK(stage, Actions)
        /\ spc' = "closed" /\ ret' = Returned("dag", NoName) /\ UNCHANGED hpc
  /\ UNCHANGED <<stage, ready, cur, maps, chan, hand, gvars, cancelled, crashed>>

\* Faulty variant: the verdict ignores the onerror policy.
FatalIgnoringPolicy(i) == results[i].status = "error"

\* Faulty variant: the onerror test is inverted.
FatalInverted(i) == results[i].status = "error" /\ Waived(stage, results[i].name)

\* result i is an error that no onerror policy forgives.
Fatal(i) == results[i].status = "error" /\ ~Waived(stage, results[i].name)

\* After <-done: the first unforgiven error in arrival order decides, then
\* the state of the context, else the stage succeeded.
MainReturn ==
  /\ hpc = "done" /\ ret.kind = "none"
  /\ \/ \E i \in DOMAIN results :
          /\ Fatal(i) /\ \A j \in 1..(i - 1) : ~Fatal(j)
          /\ ret' = Returned("step", results[i].name)
     \/ /\ \A i \in DOMAIN results : ~Fatal(i)
        /\ ret' = Returned(IF cancelled THEN "ctx" ELSE "nil", NoName)
  /\ UNCHANGED <<stage, sched, maps, chan, hvars, gvars, cancelled, crashed>>

\* The owner of the context cancels it (a signal, a deadline), at any time.
Cancel ==
  /\ ~cancelled /\ cancelled' = TRUE
  /\ UNCHANGED <<stage, sched, maps, chan, hvars, gvars, ret, crashed>>

-----------------------------------------------------------------------------
(* The scheduler goroutine *)

MuFree == hpc # "locked"

\* Faulty variant: the channel is made one slot too small.
CanSendSmaller == Len(chan) + 1 < Cardinality(Nodes)

\* The channel is buffered: a send waits only while it is full.
CanSend == Len(chan) < Cardinality(Nodes)

\* Faulty variant: the loop also stops on the first failure.
SchedulerTopFailFast ==
  /\ spc = "top"
  /\ spc' = IF cancelled \/ failed # {} THEN "drain" ELSE "scan"
  /\ UNCHANGED <<stage, ready, cur, maps, chan, hvars, gvars, cancelled, ret, crashed>>

SchedulerTop ==
  /\ spc = "top"
  /\ spc' = IF cancelled THEN "drain" ELSE "scan"
  /\ UNCHANGED <<stage, ready, cur, maps, chan, hvars, gvars, cancelled, ret, crashed>>

\* Faulty variant: requirements are not looked at.
IsReadyIgnoringDeps(n) == n \notin completed /\ n \notin executing /\ n \notin failed

\* Faulty variant: a step that completed is ready again.
IsReadyAgain(n) == n \notin executing /\ DepsOf(n) \subseteq completed

\* Faulty variant: a step that is executing is ready.
IsReadyTwice(n) == n \notin completed /\ DepsOf(n) \subseteq completed

\* Find ready steps, under mu.
IsReady(n) ==
  /\ n \notin completed /\ n \notin executing /\ n \notin failed
  /\ DepsOf(n) \subseteq completed

ScanReady ==
  /\ spc = "scan" /\ MuFree
  /\ ready' = {n \in Nodes : IsReady(n)}
  /\ spc' = IF ready' = {} THEN "alldone" ELSE "start"
  /\ UNCHANGED <<stage, cur, maps, chan, hvars, gvars, cancelled, ret, crashed>>

\* Faulty variant: failed steps do not count as done.
AllDoneOnSuccess ==
  /\ spc = "alldone" /\ MuFree
  /\ spc' = IF Nodes \subseteq completed \ failed THEN "drain" ELSE "top"
  /\ UNCHANGED <<stage, ready, cur, maps, chan, hvars, gvars, cancelled, ret, crashed>>

\* Nothing is ready: stop when everything is completed or failed, else poll.
AllDone ==
  /\ spc = "alldone" /\ MuFree
  /\ spc' = IF Nodes \subseteq completed \cup failed THEN "drain" ELSE "top"
  /\ UNCHANGED <<stage, ready, cur, maps, chan, hvars, gvars, cancelled, ret, crashed>>

\* The start loop gives up when the context is cancelled.
AbandonStart ==
  /\ spc = "start" /\ cancelled
  /\ spc' = "drain" /\ ready' = {}
  /\ UNCHANGED <<stage, cur, maps, chan, hvars, gvars, cancelled, ret, crashed>>

\* Faulty variant: no check of the context before each step.
LaunchUnchecked ==
  /\ spc = "start" /\ MuFree
  /\ \E n \in ready :
       /\ cur' = n /\ ready' = ready \ {n}
       /\ executing' = executing \cup {n}
  /\ spc' = "decide"
  /\ UNCHANGED <<stage, completed, failed, results, resultMap, chan, hvars, gvars,
                 cancelled, ret, crashed>>

\* Take the next ready step (readySteps follows the random order of a Go map)
\* and mark it executing, under mu.
Launch ==
  /\ spc = "start" /\ ~cancelled /\ MuFree
  /\ \E n \in ready :
       /\ cur' = n /\ ready' = ready \ {n}
       /\ executing' = executing \cup {n}
  /\ spc' = "decide"
  /\ UNCHANGED <<stage, completed, failed, results, resultMap, chan, hvars, gvars,
                 cancelled, ret, crashed>>

\* Faulty variant: any failure in the stage counts.
HasAnyFailure(n) == failed # {}

HasFailedDependency(n) == DepsOf(n) \cap failed # {}

NextStart ==
  /\ spc' = IF ready = {} THEN "top" ELSE "start"
  /\ cur' = NoName

\* A requirement failed: report the step as skipped, without any callback.
SkipFailedDep ==
  /\ spc = "decide" /\ HasFailedDependency(cur) /\ CanSend
  /\ chan' = Append(chan, Result(cur, "skipped"))
  /\ NextStart
  /\ UNCHANGED <<stage, ready, maps, hvars, gvars, cancelled, ret, crashed>>

\* The `if` condition is false or cannot be evaluated: OnStepComplete(skipped)
\* is called and the step is reported as skipped.
SkipCondition ==
  /\ spc = "decide" /\ ~HasFailedDependency(cur) /\ HasCond(stage, cur) /\ CanSend
  /\ chan' = Append(chan, Result(cur, "skipped"))
  /\ NextStart
  /\ UNCHANGED <<stage, ready, maps, hvars, gvars, cancelled, ret, crashed>>

\* Otherwise a goroutine is spawned for the step.
Spawn ==
  /\ spc = "decide" /\ ~HasFailedDependency(cur)
  /\ go' = [go EXCEPT ![cur] = "spawned"]
  /\ NextStart
  /\ UNCHANGED <<stage, ready, maps, chan, hvars, res, cancelled, ret, crashed>>

\* hasFailedDependency reads the map `failed` without mu.  The read overlaps a
\* write when the handler is inside its critical section with a failed result.
UnsynchronisedRead ==
  /\ spc = "decide" /\ DepsOf(cur) # {}
  /\ hpc = "locked" /\ hand.status = "error"

\* The runtime may notice the overlap and abort ("concurrent map read and map
\* write").  When it does not, the read returns what SkipFailedDep,
\* SkipCondition and Spawn say: the entry being written is never one of cur's
\* requirements, whose results were applied before cur became ready.
MapFault ==
  /\ UnsynchronisedRead
  /\ crashed' = TRUE
  /\ UNCHANGED <<stage, sched, maps, chan, hvars, gvars, cancelled, ret>>

\* Faulty variant: the channel is closed without waiting.
CloseAtOnce ==
  /\ spc = "drain" /\ MuFree
  /\ spc' = "closed"
  /\ UNCHANGED <<stage, ready, cur, maps, chan, hvars, gvars, cancelled, ret, crashed>>

\* The deferred function: poll until no step is executing, then close.
CloseChannel ==
  /\ spc = "drain" /\ MuFree /\ executing = {}
  /\ spc' = "closed"
  /\ UNCHANGED <<stage, ready, cur, maps, chan, hvars, gvars, cancelled, ret, crashed>>

-----------------------------------------------------------------------------
(* The result handler goroutine: for result := range resultChan *)

HandlerRecv ==
  /\ hpc = "recv" /\ chan # <<>>
  /\ hand' = Head(chan) /\ chan' = Tail(chan) /\ hpc' = "got"
  /\ UNCHANGED <<stage, sched, maps, gvars, cancelled, ret, crashed>>

HandlerLock ==
  /\ hpc = "got" /\ hpc' = "locked"
  /\ UNCHANGED <<stage, sched, maps, chan, hand, gvars, cancelled, ret, crashed>>

HandlerApply ==
  /\ hpc = "locked"
  /\ results'   = Append(results, hand)
  /\ resultMap' = [resultMap EXCEPT ![hand.name] = hand.status]
  /\ completed' = completed \cup {hand.name}
  /\ executing' = executing \ {hand.name}
  /\ failed'    = IF hand.status = "error" THEN failed \cup {hand.name} ELSE failed
  /\ hpc' = "recv" /\ hand' = NoResult
  /\ UNCHANGED <<stage, sched, chan, gvars, cancelled, ret, crashed>>

\* Faulty variant: the loop ends when the channel is empty, closed or not.
HandlerExitEarly ==
  /\ hpc = "recv" /\ chan = <<>>
  /\ hpc' = "done"
  /\ UNCHANGED <<stage, sched, maps, chan, hand, gvars, cancelled, ret, crashed>>

\* The range loop ends when the channel is closed and empty; done is closed.
HandlerExit ==
  /\ hpc = "recv" /\ chan = <<>> /\ spc = "closed"
  /\ hpc' = "done"
  /\ UNCHANGED <<stage, sched, maps, chan, hand, gvars, cancelled, ret, crashed>>

-----------------------------------------------------------------------------
(* The goroutine of a step: executeActionForDAGWithCallback and what follows *)

\* What the body of executeActionForDAGWithCallback can meet.
VariantError == [kind |-> "variant", status |-> "error", err |-> TRUE]
NoVariant    == [kind |-> "variant", status |-> "skipped", err |-> FALSE]
\* runBuiltInActionForDAG attaches an error to every error result.
Ran(r)       == [kind |-> "run", status |-> r.status,
                 err |-> r.err \/ r.status = "error"]
Outcomes     == {VariantError, NoVariant} \cup {Ran(r) : r \in RunnerResults}

\* The onerror policy applies to the result of a run, not to variant errors.
Converted(n, o) == o.kind = "run" /\ o.status = "error" /\ WarnOnError(stage, n)

ResultStatus(n, o) == IF Converted(n, o) THEN "warn" ELSE o.status

\* Faulty variant: the callback is made before the onerror policy is applied.
CallbackBeforePolicy(n, o) == o.status

\* The status OnStepComplete is called with: an error beside an ok result is
\* reported as an error, although the result stays ok.
CallbackStatus(n, o) ==
  IF ResultStatus(n, o) = "ok" /\ o.err THEN "error" ELSE ResultStatus(n, o)

\* OnStepStart is called.
StepStart(n) ==
  /\ go[n] = "spawned"
  /\ go' = [go EXCEPT ![n] = "running"]
  /\ UNCHANGED <<stage, sched, maps, chan, hvars, res, cancelled, ret, crashed>>

\* The action ends with outcome o and OnStepComplete is called.
StepFinish(n, o) ==
  /\ go[n] = "running"
  /\ go'  = [go EXCEPT ![n] = "reported"]
  /\ res' = [res EXCEPT ![n] = Result(n, ResultStatus(n, o))]
  /\ UNCHANGED <<stage, sched, maps, chan, hvars, cancelled, ret, crashed>>

\* Faulty variant: the override stores its message as the status.
StepCheckCtxMessage(n) ==
  /\ go[n] = "reported"
  /\ go'  = [go EXCEPT ![n] = "checked"]
  /\ res' = IF cancelled THEN [res EXCEPT ![n] = Result(n, "cancelled")] ELSE res
  /\ UNCHANGED <<stage, sched, maps, chan, hvars, cancelled, ret, crashed>>

\* A cancelled context overrides whatever the action returned.
StepCheckCtx(n) ==
  /\ go[n] = "reported"
  /\ go'  = [go EXCEPT ![n] = "checked"]
  /\ res' = IF cancelled THEN [res EXCEPT ![n] = Result(n, "error")] ELSE res
  /\ UNCHANGED <<stage, sched, maps, chan, hvars, cancelled, ret, crashed>>

StepSend(n) ==
  /\ go[n] = "checked" /\ CanSend
  /\ go'   = [go EXCEPT ![n] = "sent"]
  /\ chan' = Append(chan, res[n])
  /\ UNCHANGED <<stage, sched, maps, hvars, res, cancelled, ret, crashed>>

-----------------------------------------------------------------------------
Decide == SkipFailedDep \/ SkipCondition \/ Spawn \/ MapFault

Scheduler ==
  \/ SchedulerTop \/ ScanReady \/ AllDone
  \/ AbandonStart \/ Launch \/ Decide \/ CloseChannel

Handler == HandlerRecv \/ HandlerLock \/ HandlerApply \/ HandlerExit

StepRun(n) == \E o \in Outcomes : StepFinish(n, o)

StepGoroutine(n) == StepStart(n) \/ StepRun(n) \/ StepCheckCtx(n) \/ StepSend(n)

Caller == BuildDAG \/ MainReturn

\* The call has returned, or the process is gone.
Ended == (ret.kind # "none" \/ crashed) /\ UNCHANGED vars

Running == ~crashed

Next ==
  \/ Running /\ (Caller \/ Scheduler \/ Handler \/ Cancel)
  \/ Running /\ \E n \in Names : StepGoroutine(n)
  \/ Ended

Safety == Init /\ [][Next]_vars

\* Go schedules every runnable goroutine, and a started action comes back on
\* its own (WF on StepRun).  Nothing obliges anyone to cancel the context.
Fairness ==
  /\ WF_vars(Running /\ Caller)
  /\ WF_vars(Running /\ Scheduler)
  /\ WF_vars(Running /\ Handler)
  /\ \A n \in Names : WF_vars(Running /\ StepGoroutine(n))

Spec == Safety /\ Fairness
-----------------------------------------------------------------------------
(* Properties *)

StepStates == {"idle", "spawned", "running", "reported", "checked", "sent"}
ResultRec  == [name : Names, status : Status]

\* Type correctness of the executor's state.
TypeOK ==
  /\ stage \in Stages
  /\ spc \in {"build", "top", "scan", "alldone", "start", "decide", "drain", "closed"}
  /\ ready \subseteq Nodes /\ cur \in Names \cup {NoName}
  /\ completed \subseteq Nodes /\ failed \subseteq Nodes /\ executing \subseteq Nodes
  /\ results \in Seq(ResultRec)
  /\ resultMap \in [Names -> Status \cup {"none"}]
  /\ chan \in Seq(ResultRec)
  /\ hpc \in {"off", "recv", "got", "locked", "done"}
  /\ hand \in ResultRec \cup {NoResult}
  /\ go \in [Names -> StepStates]
  /\ res \in [Names -> ResultRec \cup {NoResult}]
  /\ cancelled \in BOOLEAN /\ crashed \in BOOLEAN
  /\ ret \in [kind : {"none", "nil", "step", "ctx", "dag"}, name : Names \cup {NoName}]

\* The goroutine of n exists and has not handed its result over yet.
Alive(n) == go[n] \in {"spawned", "running", "reported", "checked"}

\* A step is run only after every step it requires has completed, and none of
\* them with an error (the scan of executeDAGWithCallback, hasFailedDependency).
\* The readiness test and the failure test are made at different times, the
\* second one without the mutex.
RequireRespected ==
  \A n \in Nodes : go[n] # "idle" =>
    \A d \in DepsOf(n) : d \in completed /\ resultMap[d] # "error"

\* The result channel is closed only once no step goroutine is left that could
\* send on it and every result has been applied: a send on a closed channel
\* would panic (the deferred wait of the scheduler).
NoSendOnClosed ==
  spc = "closed" => /\ chan = <<>> /\ hand = NoResult
                    /\ \A n \in Names : ~Alive(n)

\* The buffer of len(dag) results is never full when somebody is about to
\* send: neither a step goroutine nor the scheduler is ever blocked in a send.
SendNeverBlocks ==
  (spc = "decide" \/ \E n \in Names : go[n] = "checked") => CanSend

\* Every step is reported at most once, and the result list, the result map
\* and the set of completed steps describe the same steps.
ExactlyOneResult ==
  /\ \A i, j \in DOMAIN results : results[i].name = results[j].name => i = j
  /\ completed = {results[i].name : i \in DOMAIN results}
  /\ \A i \in DOMAIN results : resultMap[results[i].name] = results[i].status

\* The verdict of executeStageWithCallback: success means every step completed
\* and no unforgiven error; a step error names a step that failed and is not
\* forgiven, and does not keep the others from being run to their end: without
\* a cancellation every step has a result then; a context error comes only
\* from a cancelled context.
VerdictSound ==
  /\ ret.kind = "nil" =>
       /\ completed = Nodes
       /\ \A n \in Nodes : resultMap[n] = "error" => Waived(stage, n)
  /\ ret.kind = "step" =>
       /\ resultMap[ret.name] = "error" /\ ~Waived(stage, ret.name)
       /\ cancelled \/ completed = Nodes
  /\ ret.kind = "ctx"  => cancelled
  /\ ret.kind = "dag"  => ~DagOK(stage, Actions)

\* When the call returns no goroutine it started is still working: nothing can
\* touch the result list the caller reads without the mutex.
ReturnQuiescent ==
  ret.kind # "none" =>
    /\ hpc \in {"done", "off"} /\ spc = "closed" /\ executing = {}
    /\ \A n \in Names : ~Alive(n)

\* A step that was never started is skipped for a reason: one of the steps it
\* requires failed, or it has a condition.
SkipJustified ==
  \A n \in completed : go[n] = "idle" =>
    /\ resultMap[n] = "skipped"
    /\ HasCond(stage, n) \/ \E d \in DepsOf(n) : resultMap[d] = "error"

\* A recorded result is final and a completed step never executes again, even
\* though the maps are written by two goroutines.
ResultFinal ==
  [][\A n \in completed : /\ n \in completed' /\ n \notin executing'
                          /\ resultMap'[n] = resultMap[n]]_vars

\* The call returns (or the runtime aborts): the polling loops of the
\* scheduler end for every stage that passes buildDAG.
Termination == <>(ret.kind # "none" \/ crashed)

\* docs/Project-specification.md:111 says that `stop` blocks dependents from
\* starting.  The code does not keep it: the step behind a skipped step is
\* started, although the step that failed is one it requires, through the
\* skipped one (hasFailedDependency looks at direct requirements).
StopBlocksDependents ==
  \A n \in Nodes, m \in failed :
    go[n] # "idle" /\ Requires(stage, n, m) => Waived(stage, m)

-----------------------------------------------------------------------------
(* The inductive invariant behind the safety properties *)

Holding == hpc \in {"got", "locked"}

\* A result in the channel, or in the hands of the handler, belongs to a step
\* that is marked executing and has nothing more to say; no step has two.
ChanInv ==
  /\ \A i \in 1..Len(chan) :
       /\ chan[i].name \in executing
       /\ go[chan[i].name] \in {"idle", "sent"}
       /\ spc = "decide" => cur # chan[i].name
       /\ Holding => hand.name # chan[i].name
  /\ \A i, j \in 1..Len(chan) : chan[i].name = chan[j].name => i = j

HandInv ==
  /\ Holding <=> hand # NoResult
  /\ Holding => /\ hand \in ResultRec
                /\ hand.name \in executing
                /\ go[hand.name] \in {"idle", "sent"}
                /\ spc = "decide" => cur # hand.name

\* A live goroutine belongs to an executing step and carries its own result.
StepInv ==
  \A n \in Names :
    /\ go[n] # "idle" => n \in executing \cup completed
    /\ Alive(n) => n \in executing /\ (spc = "decide" => cur # n)
    /\ go[n] \in {"reported", "checked"} => res[n] \in ResultRec /\ res[n].name = n

\* What the scheduler learnt under the mutex is still true when it acts.
ReadyInv ==
  /\ \A n \in ready : /\ n \notin completed /\ n \notin executing
                      /\ go[n] = "idle" /\ DepsOf(n) \subseteq completed
  /\ spc = "decide" => /\ cur \in executing /\ go[cur] = "idle"
                       /\ cur \in Nodes /\ DepsOf(cur) \subseteq completed

\* The maps agree with each other.
MapInv ==
  /\ completed \cap executing = {}
  /\ failed = {n \in completed : resultMap[n] = "error"}
  /\ \A n \in Names \ completed : resultMap[n] = "none"

RequireInv ==
  \A n \in Nodes : go[n] # "idle" =>
    DepsOf(n) \subseteq completed /\ DepsOf(n) \cap failed = {}

\* Where each process stands relative to the others.
ControlInv ==
  /\ spc \in {"build", "closed"} => executing = {}
  /\ ready # {} => spc \in {"start", "decide"}
  /\ spc = "build" => hpc = "off"
  /\ hpc = "off" => executing = {}
  /\ hpc = "off" /\ spc # "build" => spc = "closed"
  /\ hpc = "done" => spc = "closed"
  /\ ret.kind # "none" => hpc \in {"done", "off"} /\ spc = "closed"

IInv ==
  /\ TypeOK /\ ChanInv /\ HandInv /\ StepInv /\ ReadyInv
  /\ MapInv /\ RequireInv /\ ControlInv

\* The scheduler stops scheduling only when everything is done or the context
\* is cancelled; with it the verdict follows.
DoneInv ==
  spc \in {"drain", "closed"} /\ hpc # "off" => cancelled \/ Nodes \subseteq completed

VInv == IInv /\ ExactlyOneResult /\ DoneInv /\ VerdictSound

\* n has a condition, or something it requires has failed.
SkipReason(n) == HasCond(stage, n) \/ DepsOf(n) \cap failed # {}

\* A result that no goroutine produced is a skip, and has a reason, from the
\* moment the scheduler sends it.
SkipInv ==
  /\ \A i \in 1..Len(chan) : go[chan[i].name] = "idle" =>
       chan[i].status = "skipped" /\ SkipReason(chan[i].name)
  /\ Holding /\ go[hand.name] = "idle" =>
       hand.status = "skipped" /\ SkipReason(hand.name)
  /\ \A n \in completed : go[n] = "idle" =>
       resultMap[n] = "skipped" /\ SkipReason(n)

\* Nothing has happened before the handler is started, and it is started for
\* good graphs only.
StartInv ==
  /\ hpc = "off" => completed = {}
  /\ hpc # "off" => DagOK(stage, Actions)

\* What the refinement of StageContract needs.
CInv == VInv /\ SkipInv /\ StartInv

-----------------------------------------------------------------------------
(* Refinement of StageContract *)

\* The scheduler has committed to cur but not decided what to do with it.
Chosen(n) == spc = "decide" /\ cur = n

PhaseOf(n) ==
  CASE Chosen(n)                         -> "chosen"
    [] Alive(n)                          -> "running"
    [] go[n] = "sent" /\ n \in executing -> "running"
    [] n \in executing /\ go[n] = "idle" /\ ~Chosen(n) -> "done"
    [] n \in completed                   -> "done"
    [] OTHER                             -> "waiting"

\* A skip result is an outcome as soon as the scheduler has sent it.
OutcomeOf(n) ==
  IF n \in executing /\ go[n] = "idle" /\ ~Chosen(n) THEN "skipped" ELSE resultMap[n]

Contract ==
  INSTANCE StageContract WITH
    phase    <- [n \in Names |-> PhaseOf(n)],
    outcome  <- [n \in Names |-> OutcomeOf(n)],
    stopping <- cancelled,
    verdict  <- IF crashed THEN Returned("fatal", NoName) ELSE ret

\* The executor, with its goroutines, channel and unlocked reads, implements
\* the contract of a stage: every step it takes is a step of StageContract.
ImplementsContract == Contract!CSpec
=============================================================================
