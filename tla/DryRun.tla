------------------------------- MODULE DryRun -------------------------------
(***************************************************************************)
(* The dry run of a stage (SimpleRunner.executeStageDryRun, simple.go, and *)
(* its copy in Runner) beside the real run of the same stage, which is     *)
(* DagExecutor as it stands.  The two share nothing but the configuration: *)
(* the dry run walks the steps in declaration order, builds no graph and   *)
(* applies the filter of --only; the executor works on the graph and does  *)
(* not know the filter.                                                    *)
(*                                                                         *)
(* In the specification the real run comes first.  Neither changes what    *)
(* the other reads, so the order does not matter; this one lets a          *)
(* condition get its value, the same for both, where it is first evaluated.*)
(***************************************************************************)
EXTENDS DagExecutor

CONSTANT Filters   \* sets of positions of steps that pass --only; all if it is not given

ASSUME FiltersAssumption == Filters \subseteq SUBSET Nat

VARIABLES
  cond,      \* value of the `if` of each step: none, unknown, true, false, error
  dpc,       \* executeStageDryRun: off, loop, ended, stopped
  passing,   \* positions that pass the filter
  nextStep,  \* the step to look at
  executedSteps,  \* the steps announced, as positions
  skippedSteps    \* how many are said to be skipped

dloop == <<dpc, passing, nextStep, executedSteps, skippedSteps>>
dvars == <<cond, dloop>>

DInit ==
  /\ Init
  /\ cond = [i \in DOMAIN stage |-> IF stage[i].cond THEN "unknown" ELSE "none"]
  /\ dpc = "off" /\ passing = {} /\ nextStep = 1 /\ executedSteps = {} /\ skippedSteps = 0

\* evaluateCondition: what the condition of step i may turn out to be.
ShouldExecuteByCondition(i) ==
  CASE cond[i] = "none"    -> {"true"}
    [] cond[i] = "unknown" -> {"true", "false", "error"}
    [] OTHER               -> {cond[i]}

Known(i, v) == cond' = IF cond[i] = "none" THEN cond ELSE [cond EXCEPT ![i] = v]

\* The position of the step that is the node n of the graph: the last one.
LastPos(n) ==
  CHOOSE i \in DOMAIN stage : /\ stage[i].action = n
                              /\ \A j \in DOMAIN stage : stage[j].action = n => j <= i

\* The scheduler leaves "decide" with the condition of cur evaluated.
Evaluates == spc = "decide" /\ spc' # "decide" /\ ~HasFailedDependency(cur)

\* shouldExecuteStep, as the executor asks it: an error of the condition is a
\* reason to skip, like false.
Execute ==
  /\ Next
  /\ IF Evaluates
     THEN \E v \in ShouldExecuteByCondition(LastPos(cur)) :
            (v = "true" <=> go' # go) /\ Known(LastPos(cur), v)
     ELSE UNCHANGED cond
  /\ UNCHANGED dloop

DryStart ==
  /\ ret.kind # "none" /\ dpc = "off"
  /\ dpc' = "loop" /\ passing' \in Filters
  /\ UNCHANGED <<vars, cond, nextStep, executedSteps, skippedSteps>>

\* The filter of --only: one of the step's labels is among those given.
PassesOnly(i) == i \in passing

\* Faulty variant: a condition that cannot be evaluated does not end the loop.
DryStepGoesOn ==
  /\ dpc = "loop" /\ nextStep <= Len(stage)
  /\ \E v \in ShouldExecuteByCondition(nextStep) :
       /\ Known(nextStep, v)
       /\ IF v # "false" /\ PassesOnly(nextStep)
          THEN executedSteps' = executedSteps \cup {nextStep} /\ UNCHANGED skippedSteps
          ELSE skippedSteps' = skippedSteps + 1 /\ UNCHANGED executedSteps
  /\ nextStep' = nextStep + 1
  /\ UNCHANGED <<vars, dpc, passing>>

\* One round of the loop: the condition, where an error ends the dry run, the
\* filter, the counts.  What it prints of the action is not modelled.
DryStep ==
  /\ dpc = "loop" /\ nextStep <= Len(stage)
  /\ \E v \in ShouldExecuteByCondition(nextStep) :
       /\ Known(nextStep, v)
       /\ dpc' = IF v = "error" THEN "stopped" ELSE "loop"
       /\ executedSteps' = IF v = "true" /\ PassesOnly(nextStep) THEN executedSteps \cup {nextStep} ELSE executedSteps
       /\ skippedSteps' = IF v = "false" \/ (v = "true" /\ ~PassesOnly(nextStep))
                     THEN skippedSteps + 1 ELSE skippedSteps
  /\ nextStep' = nextStep + 1
  /\ UNCHANGED <<vars, passing>>

DryEnd ==
  /\ dpc = "loop" /\ nextStep > Len(stage)
  /\ dpc' = "ended"
  /\ UNCHANGED <<vars, cond, passing, nextStep, executedSteps, skippedSteps>>

DNext == Execute \/ DryStart \/ DryStep \/ DryEnd

DSafety == DInit /\ [][DNext]_<<vars, dvars>>

\* The fairness is that of the executor; nobody has to make a dry run.
DSpec == DSafety /\ Fairness

-----------------------------------------------------------------------------
\* The dry run and the executor agree on every step of a stage whose graph can
\* be built.  What is run was announced, unless the filter left it out (the
\* executor does not know it) or the dry run gave up at a condition that cannot
\* be evaluated, where the executor skips the step and goes on.  What is
\* announced and not run was cut off by a cancellation, or something it requires
\* failed.  Of several steps for one action the last is the one that counts.
DryRunPredicts ==
  /\ dpc # "off" /\ ret.kind # "dag" =>
       \A n \in Nodes :
         LET i == LastPos(n)
         IN  IF go[n] # "idle"
             THEN i < nextStep /\ i \in passing => i \in executedSteps
             ELSE i \in executedSteps => cancelled \/ \E d \in DepsOf(n) : resultMap[d] = "error"
  /\ dpc = "ended" => Cardinality(executedSteps) + skippedSteps = Len(stage)
  /\ dpc = "stopped" => \A n \in Nodes : LastPos(n) = nextStep - 1 => go[n] = "idle"

-----------------------------------------------------------------------------
(* The inductive invariant behind DryRunPredicts *)

Truth == {"none", "true"}      \* a step with such a condition is run
Untruth == {"false", "error"}  \* and with such a condition it is not

\* The value a condition had for the executor decided what became of the step.
CondInv ==
  /\ cond \in [DOMAIN stage -> {"unknown"} \cup Truth \cup Untruth]
  /\ \A i \in DOMAIN stage : cond[i] = "none" <=> ~stage[i].cond
  /\ \A n \in Nodes :
       /\ go[n] # "idle" => cond[LastPos(n)] \in Truth
       /\ n \in executing \cup completed /\ go[n] = "idle" /\ ~Chosen(n) =>
            DepsOf(n) \cap failed # {} \/ cond[LastPos(n)] \in Untruth

\* The loop of the dry run: what it has counted of the steps it has passed.
LoopInv ==
  /\ dpc \in {"off", "loop", "ended", "stopped"}
  /\ nextStep \in 1..(Len(stage) + 1) /\ skippedSteps \in Nat
  /\ dpc = "off" => nextStep = 1 /\ skippedSteps = 0
  /\ dpc # "off" => ret.kind # "none"
  /\ executedSteps = {i \in 1..(nextStep - 1) : i \in passing /\ cond[i] \in Truth}
  /\ dpc # "stopped" => Cardinality(executedSteps) + skippedSteps = nextStep - 1
  /\ dpc = "stopped" => nextStep > 1 /\ cond[nextStep - 1] = "error"
  /\ dpc = "ended" => nextStep = Len(stage) + 1

\* A call that returns without a handler returns the error of the graph.
OffInv == hpc = "off" => ret.kind \in {"none", "dag"}

DInv == CInv /\ OffInv /\ CondInv /\ LoopInv
=============================================================================
