# A TLA+ model of buildfab

buildfab runs the stages of a project configuration: a stage is a list of
steps, each naming an action, with requirements between them. Steps run in
parallel as far as their requirements allow, their output is shown in
declaration order, and the results are turned into a verdict. This directory
holds TLA+ modules that model this behaviour from the Go code, TLC
configurations that check them on small instances, and TLAPS proofs for the
parts that matter most. `PROJECT.json` maps every definition to the lines it
models and lists runs, mutants, findings, hazards and theorems.

Paths below are relative to the repository (`src/`).

## 1. Inventory

| Component | State | Operations | Interaction |
|---|---|---|---|
| Dependency graph (`buildfab.go`: `buildDAG`, `detectCycles`) | node map; `visited`, `recStack` of the search | build, search for cycles | called by every executor before anything runs |
| DAG executor with callbacks (`executeStageWithCallback`, `executeDAGWithCallback`, `executeActionForDAGWithCallback`) | maps `completed`, `failed`, `executing`, `results`, `resultMap` under `mu`; `resultChan` | scheduler loop, result handler, one goroutine per step, verdict | goroutines talk through the channel and the maps; calls `StepCallback` |
| Streaming executor (`executeDAGWithOrderedStreaming`) | the same, plus `displayed` | the same, plus display in order | used by `Runner.RunStage` when there is no callback |
| Ordered output (`ordered_output.go`) | per step: started, completed, shown, buffered lines; `currentStep` | `OnStepStart`, `OnStepOutput`, `OnStepComplete` | called from step goroutines and pipe readers, serialised by its mutex |
| Simple runner (`simple.go`: `RunStage`) | collected results | run, report silent skips, summary | wires executor and ordered output together |
| Single action or step (`RunAction`, `RunStageStep` of both runners) | `SimpleStepCallback` results | select variant, run, report, summary | no executor involved |
| Command execution (`executeCommandWithStreaming`) | a shell and the commands of its script, two pipes, two readers, a waiter | start, read, wait, cancel | delivers lines to the callback |
| Configuration (`config.go`: `LoadConfig`; `Validate`) | configuration built so far, `visited` | find, parse, include, merge, validate | precedes every command |
| Expression language (`expression.go`, `platform.go`) | none; variables of user, platform, environment | evaluate `if` and `when` | called by executor, dry run and variant selection |
| Built-in actions (`actions.go`) | none; the repository they look at | three checks of the working tree, two of the version | called by name or through `uses` |
| Dry run of a stage (`simple.go`: `executeStageDryRun`) | counters of announced and skipped steps | walk the declared steps: condition, filter of `--only` | shares nothing but the configuration with the executor whose run it predicts |
| Command line (`cmd/buildfab/main.go`) | arguments, the configuration file (read twice) | resolve the name, dispatch, list, exit code | calls everything above |
| `internal/*` | none | copies of the above, formatting | nothing in the command or the library imports them, but for version detection |

What is hard here:

* **Concurrency.** The scheduler polls, the handler updates, step goroutines
  send; readiness is computed under the mutex and used after releasing it; the
  map `failed` is read without the mutex; callbacks of different steps
  interleave; pipe readers are joined by nobody.
* **Cancellation** can come between any two steps, and is looked at in four
  different places with different effects.
* **Failure.** One of several parallel steps fails; the policy `onerror` is
  applied in two places, to the first and to all steps naming an action.
* **Ordering.** Steps complete in any order and are shown in declaration
  order; included files are merged in the order of a recursive traversal.
* **Text.** Conditions are not parsed but searched for operators, in an order
  that decides precedence, quoting and grouping; the checks of the working
  tree depend on columns of an output that is trimmed first.
* **Staleness.** The configuration is read once to find out what a name means
  and again to run it; a dry run evaluates conditions a real run evaluates
  later.
* **Endings.** The scheduler's loop must end for every accepted stage, the
  channel must be closed after the last send, a command must not block on a
  pipe nobody reads.

Correctness, per component: *graph*: exactly the acyclic stages are accepted.
*Executors*: requirements are respected, each step has one result, the verdict
is what the results justify, the call returns and leaves nothing running.
*Output*: blocks in declaration order, nothing held back or lost. *Simple
runner*: every step is reported once, summary, reports and results agree.
*Single action*: only the selected variant runs, status and error agree.
*Command*: the shell does not survive the call, lines in order, no deadlock.
*Configuration*: cycles and missing files are found exactly, the last
definition wins. *Expressions*: an answer is a possible reading of the text,
and a text of the usual grammar has its usual value. *Built-ins*: a check fails
for a cause and passes only after having looked. *Dry run*: it announces what a
run would start. *Command line*: exit code and screen agree.

## 2. Modules

| Module | Models | State and actions |
|---|---|---|
| `StageGraph` | `Step`, `buildDAG` | constant operators: nodes, requirements, policies, cyclicity |
| `CycleCheck` | `detectCycles` | the recursion as a stack of frames; `NextRoot`, `NextDep`, `ReturnNil`, `NoCycle` |
| `DagExecutor` | executor with callbacks | one program counter per process: scheduler `spc`, handler `hpc`, goroutines `go[n]`; one action per access to shared state |
| `DryRun` | `executeStageDryRun` | extends `DagExecutor`: a real run of the stage, then the loop of the dry run over the same steps and conditions; `DryStart`, `DryStep`, `DryEnd` |
| `StageContract` | (abstract) | what running a stage promises: phases, outcomes, verdict |
| `StreamingDag` | streaming executor | extends `DagExecutor`, replacing the actions that differ |
| `OrderedOutput` | `OrderedOutputManager` | each method a transformer of the manager (it holds its mutex throughout) |
| `OutputClients` | callers of the manager | any order of start, line, completion calls, late lines included |
| `StageRun` | `SimpleRunner.RunStage` | composes `DagExecutor` and `OrderedOutput`; skips and summary |
| `BuiltIns` | `actions.go` | constant operators: each check as a function of a repository (what git prints, VERSION file, tags) |
| `ActionRun` | single action or step | a component that waits for `Ask`: request, variants, built-in or command, dry run, callback, summary |
| `CommandLine` | `main.go` | composes `ActionRun` with arguments, configuration, dispatch, exit code; an editor changes the file |
| `Expression` | `expression.go`, `AddPlatformVariables` | the evaluator as recursive operators over lexemes; two references, all readings and the usual grammar; one step per text |
| `CommandStream` | `executeCommandWithStreaming` | shell, the command it has started (in the foreground or background), pipes, readers, waiter, caller |
| `ConfigLoad` | `LoadConfig`, includes, `Validate` | the recursion as a stack of frames |
| `DagExecutorProofs`, `CycleCheckProofs`, `StreamingDagProofs`, `OrderedOutputProofs`, `OutputClientsProofs`, `StageRunProofs`, `CommandLineProofs`, `ConfigLoadProofs` | — | theorems (section 5) |
| `MC*` | — | values of the constants for TLC |

Reading `DagExecutor`. A critical section of the scheduler is one step that
waits for the mutex; the handler holds the mutex across two steps (`locked`),
so that the scheduler's unlocked read of `failed` can meet its write. That
race is modelled by its outcomes: the read gives the old or the new value, or
the runtime aborts (`MapFault`). A step goroutine is spawned, runs its action
(`StepFinish` with any outcome the code can produce: a variant that cannot be
evaluated, no variant, a runner's result), looks at the context, and sends.
`Cancel` may happen in any state.

Reading `Expression`. A condition is a sequence of lexemes, each standing for
a piece of text: a variable, a quoted literal, an operator, a parenthesis, a
comma, a function name. The operators follow the functions of the code one by
one, including where they look for an operator and what they do with the two
halves, so that a text may be read in ways its author did not mean. There
are two references: `Readings`, the values of all the ways to cut the text at
an operator, and `Meaning`, the value of the text in the usual language, in
which `!` binds tighter than comparisons, these tighter than `&&` and `&&`
tighter than `||`. `Meaning` owes nothing to the code; the four forms of text in
which the code departs from it are named (`Mixed`, `NegatedRest`, `TwoGroups`,
`NestedComparison`), and `MCExpression` assumes, and TLC evaluates, that for a
text of each form the code's answer is not the meaning.

Reading `CommandLine`. Of a configuration we keep how loading ends and what
the arguments mean in it, so that an edit between the two reads is a change of
that record. The run of a whole stage is one step with the outcomes that
`StageRun` has, and its dry run one with those of `DryRun`.

Reading `DryRun`. The executor is `DagExecutor` unchanged, except that the
condition of a step has a value, found where it is first evaluated and the same
for the dry run. The dry run builds no graph, so nothing that the executor
decides enters its loop, and the filter of `--only`, a set of positions, does
not enter the executor.

Reading `CommandStream`. The shell that `exec.CommandContext` starts and the
commands of its script are different processes. `cmd.Process.Kill`, and the kill
that belongs to the context, end the shell; the command it was waiting for goes
on with the writing ends of the pipes. `Wait` needs the shell only.

Definitions named `...Unchecked`, `...Early` and the like, commented *Faulty
variant*, are not part of any specification: they are plausible bugs that the
properties have to catch, each replacing one definition (`mutants` in
`PROJECT.json`).

## 3. Runs

| Run | Shows | Bounds |
|---|---|---|
| `dag` | type invariant, one result per step, sound verdict (a failure does not stop the others), justified skips, requirements, channel discipline, sends never block, quiescence at return, final results, refinement of `StageContract`, termination; a dry run announces what is run | all stages of one or two steps (repeated names, unknown and cyclic requirements included) up to renaming, every runner result; three steps: chain, fork, join, independent, both policies, with and without a condition (the independent ones without), no warnings from runners; no filter, and one that only the first step passes |
| `stage_run` | every step is reported once and in order, summary agrees with reports and results, callback protocol, the run ends | two steps with one line each; three steps, silently skipped ones among them, without lines |
| `output` | display order, nothing held back without cause, prompt lines shown, current step | three steps of two lines, every call order |
| `cycles` | the search decides cyclicity and ends | all graphs of three nodes, every order |
| `stream` | requirements, display order, exclusive streaming, verdict, return | three steps, a stage that declares one of them twice, actions that may never end |
| `cli` | exit code and screen agree, only the selected variant runs, the checks of the working tree fail for a cause and pass only after having looked | every invocation, one edit of the configuration, up to two variants, about 100 repositories, interrupts |
| `expression` | an answer is a reading of the text, the usual grammar is evaluated to its one value outside the four named forms | 27,512 texts: all of up to four lexemes, comparisons, calls and logical combinations of up to three operands; about 2,000 of them have a meaning and are in none of the forms |
| `command` | the shell does not survive the call, lines in order, the call returns | three lines per stream, over-long lines, pipes of one line, two commands per script |
| `config` | verdict on includes, last definition wins, loading ends | three files, up to two patterns in the main file, 25,000 file systems |

Why these bounds are enough to be worth having: the executor's interactions
involve at most two related steps and one bystander, all of which three steps
provide; two names already give repeated actions, self-requirements and
two-cycles. A pipe of one line makes a full pipe the normal case. Three files
make diamonds, self-inclusion and cycles that pass through the main file. Two
reads of the configuration leave room for one edit that matters; a stage of
two steps lets a dry run go on after, or stop at, a step of each kind; lists of
two changed paths show that only the first is read differently. Three operands
are what precedence and grouping need. Two commands let a script go on after a
command it has put into the background. Renaming `a` to `b` throughout a stage
changes nothing, so stages begin with `a`. The theorems of section 5 have no
bounds.

Three runs end in a violation. Each checks a statement the repository makes
and that the code does not keep (`findings` in `PROJECT.json` quotes it):

| Run | What the code does |
|---|---|
| `claim_stop` | a step behind a *skipped* step runs although a step it needs transitively failed |
| `stream_close` | after a cancellation a goroutine of the streaming executor may send on the closed channel |
| `claim_checks` | `git@uncommitted` passes in a working tree with staged and unstaged changes of a tracked file; `git@modified` does not look at what is staged (`docs/Project-specification.md`, lines 157 and 158) |

In passing runs, too, the code does something else than a document says. The
property states what the code does, its comment names the document, and a finding
quotes it:

| Run, property | The code | The document |
|---|---|---|
| `dag`, `DryRunPredicts` | `--only` is applied by dry runs only, and passes a step with one of the labels | `README.md`, 87; `docs/Project-specification.md`, 110: only such steps run, with all labels |
| `dag`, `DryRunPredicts` | a dry run announces the steps of a stage whose graph cannot be built and of which a run starts none | `README.md`, 89: shows what would be executed |
| `expression`, `LanguageIsRead` | `yes \|\| no && no` is false, `! no && no` is true; `(yes) && (yes)` is an error, `(yes == yes) == true` too | `CHANGELOG.md`, 231 and 240: proper precedence, parentheses handled correctly |
| `command`, `ShellEndsWithCall` | a cancellation kills the shell alone and does not wait for it; the command it was running survives the call | `CHANGELOG.md`, 632: proper process termination |
| `config`, `LastIncludeWins` | what an included file defines replaces what the main file defines | `docs/Features-and-examples.md`, 260: the main configuration can override included content |
| `config`, `LastIncludeWins` | a file that two patterns match is merged twice, the second time over what came between | `CHANGELOG.md`, 162: it is not processed several times |

Modelling the code showed further differences between it and its
documentation. The models behave as the code does, and no run is spent on
them:

* An error while a variant is selected fails a step before `onerror: warn` is
  applied, and the streaming executor never applies the policy to results, so
  dependents are skipped (`docs/Project-specification.md`, line 111).
* `hasFailedDependency` reads the map `failed` without the mutex that guards
  its writer; `MapFault` is the abort the Go runtime may answer with.
* `MaxParallel` is never read (line 85 of the same document).
* A line that reaches the output manager after the completion of its step is
  buffered and never shown; `PromptLinesShown` is about the others.
* `RunStageStep` looks neither at `--dry-run` nor at `onerror`: the step is
  executed, and its failure is the command's failure.
* An action none of whose variants matches is reported as skipped by
  `runActionInternal` and again as ok by `RunAction`, and the second report
  is the one that is recorded.
* A line of more than 64 KiB stops the Scanner; the command blocks on the
  full pipe and the call does not return (`CommandReturns` excepts it).
* Lines left in a pipe when `cmd.Wait` closes it are lost, although the output
  of a command is said to be streamed (`docs/Project-specification.md`, 117).
* Conditions: a text that begins and ends with a quote is one literal, so that
  `'linux' == undefined && os == 'linux'` is true; an operator of comparison
  that occurs twice is an error; a text that begins with `env.` never is;
  `inputs.` and `matrix.` are always undefined; a lone quote panics
  (`expression.go`, line 547). Strings are compared by their letters also
  where `docs/YAML-syntax-reference.md` compares versions.
* `AddPlatformVariables` overwrites variables of the user
  (`CHANGELOG.md`, line 238, says the opposite).
* `--dry-run` is ignored when a step is named (`README.md`, line 89).
* A dry run counts a step none of whose variants matches as "would run". One
  that meets a condition it cannot evaluate exits with code 1 and nothing
  printed, a run of a stage whose graph cannot be built prints FAILED without
  the reason: `main.go` expects the runner to have printed it. A real run
  skips a step with such a condition.
* Exit code 2 for configuration errors is documented
  (`docs/YAML-syntax-reference.md`, 656) and never used.
* Three or more arguments run the whole stage the first one names. A built-in
  hides a configured action of the same name.
* `git@uncommitted` reads the first line of the status after `TrimSpace`, so
  that an unstaged change listed first looks staged.
* An interrupt after the last step prints TERMINATED with exit code 0.
* Without `--verbose` a command is run by `cmd.Run`, which after a cancellation
  waits until the commands of the killed shell have closed the pipes.
* `Validate` does not look at `require`; unknown and circular requirements
  are refused when the stage is run (`docs/YAML-syntax-reference.md`, 657).

## 4. Fairness

`DagExecutor`: weak fairness for the caller, the scheduler, the handler and
each step goroutine. Go runs every runnable goroutine, and the polling loops
sleep and continue. For a running action it means that a command or built-in
that was started comes back; without that no executor terminates, and
`CommandStream` shows when it is true. Nobody is obliged to cancel.
`StreamingDag` makes no such assumption about actions: `EndsUnlessRunning`
says that the call returns unless an action runs for ever and nobody cancels.
`DryRun` adds no fairness: nobody has to make a dry run.
`CommandStream`: weak fairness for the processes, taken together, and for
readers, waiter and caller.
`CycleCheck` and `ConfigLoad` are sequential: weak fairness of the whole.
`OutputClients`, `CommandLine` and `Expression` are about safety only and
assume none; what waits in them are the commands `CommandStream` is about.

Deadlock is checked in every run but those of `ConfigLoad`, which stop when
`LoadConfig` returns; elsewhere an explicit stuttering step marks the end.

## 5. Proofs

Checked by TLAPS, for every set of names, every stage, every runner result,
every graph, any number of lines and any order of steps:

| Module | Theorems | What they say |
|---|---|---|
| `DagExecutorProofs` | `TypeCorrect`, `RequirementsRespected`, `ChannelSafe`, `NothingRunsAfterReturn`, `ResultsAreFinal`, `ResultsAgree`, `VerdictIsSound`, `SendsNeverBlock`, `SkipsAreJustified`, `ExecutorImplementsContract`, `DryRunIsAPrediction` | safety of the executor; the channel has room, skips have a cause, the executor refines `StageContract`; a dry run predicts it |
| `CycleCheckProofs` | `SearchDecidesCyclic` | the search answers correctly |
| `StreamingDagProofs` | `StreamingRespectsRequirements`, `StreamingVerdictIsSound`, `OneStreamAtATime`, `DisplayFollowsDeclaration`, `NothingLeftUndisplayed` | the same for the streaming executor, and its display |
| `OutputClientsProofs` | `ScreenIsOrdered`, `NothingHeldBack`, `PromptLinesAreShown`, `CurrentStepIsFirstPending` | the output manager under any order of calls |
| `StageRunProofs` | `ReportsMatchResults`, `SummaryIsTrue`, `NothingIsLeftOut`, `RunFollowsProtocol` | what the user of a stage run is told, step by step, in the summary and on the screen; the run refines `OutputClients` |
| `CommandLineProofs` | `OnlyTheSelectedRuns`, `ExitCodeIsShown`, `ChecksAreJustified`, `NoShellOutlivesTheCall`, `OutputIsNeverReordered` | single actions, command line, built-in checks; the commands they run (`CommandStream`) |
| `ConfigLoadProofs` | `IncludesJudged`, `LastDefinitionWins`, `NestingBounded` | the verdict on the includes, which definition survives, how deep the loader recurses |

Assumptions: names are finitely many and `NoName` is not one of them, stages
are sequences of steps over the names, runner results have a status and an
error flag; the graph of `CycleCheck` has finitely many nodes; the stages of
`OutputClients` are sequences and the empty name, the same for executor and
manager (`EmptyName`), names no step; there is a repository to look at; there
are finitely many files, `GlobOrder` lists them all, and what a file holds is a
sequence of patterns and a sequence of actions. In `StageRun` a runner returns no error beside a good
result (`RunnersAgree`), as is true of every built-in and of both ways to run a
command: the callback would report such a step as an error that the result map
calls ok. TLC evaluates these assumptions in the runs. `SummaryIsTrue`,
`NothingIsLeftOut` and `RunFollowsProtocol` are about stages that name each
action once, which is their hypothesis (section 6 says why).

*The executor's invariant* `IInv`. None of the properties is inductive: that a
step respects its requirements when it is started depends on what the
scheduler read earlier. `ReadyInv` says that what it learnt under the mutex
stays true (completed steps stay completed, nobody else starts steps);
`ChanInv` and `HandInv` say that a result on the way belongs to an executing
step that has nothing more to say and that no step has two; `StepInv` ties
goroutines to the executing set; `MapInv` ties the maps to each other;
`RequireInv` is the property; `ControlInv` says where the processes can stand
relative to each other. Together they give channel safety and quiescence: the
scheduler closes when `executing` is empty, and everything that could still
send is in it. `VInv` adds that list, map and completed set agree, that the
scheduler stops only when everything is completed or the context is cancelled
(`DoneInv`), and the verdict, which includes that a failed step leaves no other
unprocessed unless the context is cancelled. There is one lemma per action;
lemmas for what goroutine steps and control steps have in common keep them
short.

*Channel and contract* (`CInv`). That a send never blocks is a counting
argument: results in the channel belong to different nodes, the sender's node
is not among them, and there are as many slots as nodes. `SkipInv` follows a
skip from the scheduler's send to the recorded result; `StartInv` says that
nothing happens before the handler runs, and that it runs for good graphs only.
The refinement maps the goroutine's program counters and the result maps to a
phase per step, an outcome, the request to stop and the verdict; each action of
the executor is shown to be a step of the contract or a stutter.

*The dry run* (`DInv`). `CondInv` ties the executor to the values of the
conditions: a step that was started had one that is true, or none, and a step
that was taken up and not started had a failed requirement or one that is false
or cannot be evaluated. `LoopInv` says that the announced steps are those the
loop has passed whose condition is true and which the filter lets through. The
executor has returned before the loop begins and evaluates nothing any more, so
both speak of the same values; `DoneInv` says that, unless the context was
cancelled, every step has been taken up by then (a handler was started, since
the call did not return the error of the graph: `OffInv`). Of several steps for
one action the last is the node of the graph (`LastPosition`).

*The search's invariant* `SearchInv`. The frames form a path of the graph over
exactly the nodes of `recStack`; what a frame has looked at is finished or is
the next frame; finished nodes depend on finished nodes only and contain no
cycle. A dependency into `recStack` closes the path to a cycle
(`PathClosesCycle`); a node all of whose dependencies are finished makes none
(`AddFinished`).

*The streaming executor* (`TInv`). `TStateInv` is the part of the executor's
invariant that survives a scheduler which does not wait for its goroutines.
`DisplayInv` says that the displayed steps are completed and a prefix of the
declaration order, whichever of the two goroutines that display without a lock
is ahead. A step streams only when everything declared before it is displayed,
and hence completed, so two running steps cannot both stream.

*The output manager* (`OInv`). What its methods do is shown in
`OrderedOutputProofs` for any stage and any numbers of lines, so that its two
users, `OutputClients` and `StageRun`, can rest on the same lemmas. `ManagerInv` holds also inside a call: shown
steps have only completed, shown steps before them (`ShownInv`), the current
step is the one that is shown and not completed (`CurrentInv`), and the screen
holds exactly the messages of shown steps, the lines of the others being in
their buffers (`ScreenInv`). `Released` holds between calls: nothing waits that
could be shown. The loop of `checkAndShowCompletedSteps` is a recursive function
over the positions; that it exists, and that it preserves `ManagerInv` and
releases every completed step that nothing holds back, is shown by taking the
least position for which it would fail (`LeastNumber`). `KnownInv` ties the
manager to what its callers did.

*The stage run* (`RInv`, `SInv`). Every step of the run is a step of the
executor or leaves it alone, so that `CInv` holds throughout. `Faithful` follows
a result from the goroutine through the channel and the handler's hand to the
result map (`Claimed`): at every place it is what was told of the step, or
nothing was told because the scheduler skipped it behind a failure. This needs
that nothing was told too early (`NotYetTold`) and that two reports of a step
agree (`Consistent`). `Collected`: `getSkippedSteps` finds every step that was
kept silent, because the failed step it requires was started and therefore
reported as an error; the loop is a recursive function, treated like the one of
the output manager. `Once` counts: in a stage without repetition reports and
steps correspond, which gives the numbers of the summary; `Summed` says when
the summary is made and that no cancellation follows it.

*The screen of a stage run* (`PInv`). `ManagerKnows` says that the manager was
told what the reports say; `StartsKnown` says for which steps `OnStepStart` was
called: those whose goroutine has begun, and, once the executor is done, those
the runner has taken from its list, the one in hand included. A step on that
list was never begun, because what was begun had been reported before the
executor returned. With the lemmas about the manager every step of the run is one
call that `OutputClients` allows, or none, which is the refinement
`RunFollowsProtocol`; since at the end every step has been reported and
`Released` holds, every result is on the screen (`NothingIsLeftOut`).

*Commands* (`MInv`). What was delivered, what is in a reader's hand and what is
in the pipe are the lines written so far, by shell or command, in this order
(`StreamInv`); a reader that has stopped has a reason (`StopInv`). `LifeInv` says
that the shell has exited or was killed on each of the ways out of the call, and
which of its commands may be left: one in the background, or any one if the
context was cancelled.

*Single actions and command line* (`AInv`, `LInv`). `PlaceInv` and `CauseInv`
say, for each place in the code, what has been reported and executed and why;
`LineInv` adds what the command line has printed. What the checks of the working
tree make of the output of git is shown for lists of any length.

*Configuration* (`LoadInv`, `OrderInv`). The verdict on the includes is argued
like that of the cycle search: the frames are a path of includes from the main
file and the visited map holds exactly the files above the bottom frame, each
once (`StackInv`); everything a frame has come past has been loaded completely,
waits in the frame, or is the next frame (`ActiveInv`, `Covered`). An include
of a visited file closes the path to a cycle (`ActiveFileClosesCycle`); a file
all of whose includes load reaches nothing missing and no cycle
(`IncludesLoad`). What is reached from a file is stated as the least set
closed under the includes, independently of the traversal. Since no file is
active twice the stack is bounded by the number of files, which is also the
depth at which the reference order `MergeOrder` may be cut off.
`LastDefinitionWins` compares the traversal with that order: `OrderInv` says
that the files merged so far, followed by what each frame has left and its own
file, from the innermost frame to the bottom one, are the whole order of the
includes (`Remains`), and that the configuration is what merging those files in
turn gives (`Content`). Replacing a pattern by what it stands for and entering
a file do not change that sequence, leaving a file moves its head to the merged
ones. What a merge does is shown for any number of actions (`MergedActions`). A
main file may define an action twice, and a merge replaces the first of the two
only; `Content` therefore speaks of configurations without repeated names, the
only ones `Validate` accepts. The loops are recursive functions, treated like
the one of the output manager.

Model-checked only:

* everything temporal (`Termination`, `RunEnds`, `SearchEnds`,
  `CommandReturns`, `EndsUnlessRunning`, `LoadEnds`): liveness under fairness
  is out of the prover's reach;
* `Expression`: written with `RECURSIVE` operators, as the code is.

## 6. What is left out

* Wording and layout of messages, debug output, durations.
* Code without a caller: `executeDAGWithParallel`, `executeActionForDAG`,
  `ShouldShowStepStart`, `MarkStepStarted`, `callFunction`,
  `parseFunctionArguments`. `--with-requires`, `MaxParallel` and the `Error`
  field of `StepOutputData`, which are never read.
* What a dry run prints of an announced action, its variant and command line.
* `RunCLI`, a second entry point for programs: `LoadConfig`, then
  `Runner.RunStage` or `RunAction` as modelled. `Runner.executeStageDryRun`, a
  copy of the modelled loop. `enhanceValidationError`, which finds a line
  number for a message.
* The silent mode of the output manager: same messages without lines.
* A stage that names an action twice, in `StageRun`: when its requirement
  failed `getSkippedSteps` lists it twice and it is reported twice. The
  executor itself is checked with repeated names.
* In the executors an `if` or `when` is an arbitrary truth value or an error
  (its value is `Expression`'s subject), and built-ins and commands return
  anything their type allows (`BuiltIns` says what), in `StageRun` without an
  error beside a good result.
* In `Expression` what the predicates of the library answer (`contains`,
  `matches`, `fileExists`, `semverCompare`) is a fact of the instance.
* Substitution of variables into command lines: an interpolation that fails is
  one of the ways an action cannot be prepared.
* Two spellings of one file (absolute and relative, links) in `ConfigLoad`.
* `internal/config`, a second include implementation the command line does
  not use; `internal/actions`, a copy of `actions.go`; terminal formatting and
  version detection.

## 7. Plan

Built in this order: graph and executor, its contract and proofs; output
manager and the composition of both; cycle search and its proof; streaming
executor; single actions; commands; configuration; expressions; built-ins and
the command line; the dry run beside the executor. What is left of the system is listed in
section 6. The proofs followed in the order of section 5; every safety property
the runs check, but the two of `Expression`, is stated by a theorem.
