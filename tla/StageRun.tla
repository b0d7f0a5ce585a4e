------------------------------ MODULE StageRun ------------------------------
(***************************************************************************)
(* SimpleRunner.RunStage (pkg/buildfab/simple.go): the DAG executor wired  *)
(* to the ordered output manager through OrderedStepCallback, followed by  *)
(* the reporting of the steps the executor skipped silently and by the     *)
(* final summary.                                                          *)
(*                                                                         *)
(* Every action of DagExecutor that makes a callback is taken together     *)
(* with that callback; callbacks of different steps are serialised by the  *)
(* manager's mutex.  The lines of a step are delivered by the reader       *)
(* goroutines of executeCommandWithStreaming, which are not joined.        *)
(***************************************************************************)
EXTENDS DagExecutor, OrderedOutput

CONSTANT MaxLines   \* bound: lines an action writes, by the length of the stage

\* The empty name stands for no step in the manager as in the executor.
ASSUME EmptyName == NoStep = NoName

\* A runner returns no error beside a good result: none of the built-ins and
\* neither way of running a command does.
ASSUME RunnersAgree == \A r \in RunnerResults : r.status = "ok" => ~r.err

VARIABLES
  om,         \* OrderedOutputManager
  cbResults,  \* OrderedStepCallback.results
  lines,      \* lines delivered for each step
  late,       \* of them, after OnStepComplete
  upc,        \* SimpleRunner.RunStage: run, skips, skipping, end
  todo,       \* skippedSteps still to be reported
  summary     \* the summary printed last: its status line and its counts

ui    == <<om, cbResults>>
uvars == <<ui, lines, late, upc, todo, summary>>
rvars == <<vars, uvars>>

NoSummary == [line |-> "none", counts |-> [s \in Status |-> 0]]

RInit ==
  /\ Init
  /\ om = NewManager(stage) /\ cbResults = <<>>
  /\ lines = [n \in Node(stage) |-> 0] /\ late = [n \in Node(stage) |-> 0]
  /\ upc = "run" /\ todo = <<>> /\ summary = NoSummary

\* The status OnStepComplete was called with for n, "none" if it was not.
Told(n) ==
  IF \E i \in DOMAIN cbResults : cbResults[i].name = n
  THEN LET i == CHOOSE i \in DOMAIN cbResults : cbResults[i].name = n
       IN  cbResults[i].status
  ELSE "none"

\* OrderedStepCallback.OnStepComplete: the manager, then the result list.
TellComplete(n, s) ==
  /\ om' = OnStepComplete(stage, om, n, s)
  /\ cbResults' = Append(cbResults, Result(n, s))

Quietly(A) == A /\ UNCHANGED uvars

\* Faulty variant: OnStepStart is not called.
RStepStartSilent(n) == StepStart(n) /\ UNCHANGED uvars

RStepStart(n) ==
  /\ StepStart(n) /\ om' = OnStepStart(stage, om, n)
  /\ UNCHANGED <<cbResults, lines, late, upc, todo, summary>>

RStepRun(n) ==
  /\ \E o \in Outcomes : StepFinish(n, o) /\ TellComplete(n, CallbackStatus(n, o))
  /\ UNCHANGED <<lines, late, upc, todo, summary>>

RSkipCondition ==
  /\ SkipCondition /\ TellComplete(cur, "skipped")
  /\ UNCHANGED <<lines, late, upc, todo, summary>>

\* A reader goroutine delivers a line, possibly after the command was waited
\* for and its step reported.
DeliverLine(n) ==
  /\ go[n] \notin {"idle", "spawned"} /\ lines[n] < MaxLines[Len(stage)] /\ upc # "end"
  /\ om' = OnStepOutput(om, n, lines[n] + 1)
  /\ lines' = [lines EXCEPT ![n] = @ + 1]
  /\ late'  = [late EXCEPT ![n] = IF Told(n) = "none" THEN @ ELSE @ + 1]
  /\ UNCHANGED <<vars, cbResults, upc, todo, summary>>

\* Faulty variant: steps behind skipped steps are looked for instead.
SkippedBehindSkipped ==
  LET IsSkipped(s) == Told(s.action) = "none" /\ \E d \in s.require : Told(d) = "skipped"
      picked == SelectSeq(stage, IsSkipped)
  IN  [i \in DOMAIN picked |-> picked[i].action]

\* getSkippedSteps: the steps, in declaration order, that no callback reported
\* and that require a step whose callback reported an error.
SkippedSteps ==
  LET IsSkipped(s) == Told(s.action) = "none" /\ \E d \in s.require : Told(d) = "error"
      skipped[i \in 0..Len(stage)] ==
        IF i = 0 THEN <<>>
        ELSE IF IsSkipped(stage[i]) THEN Append(skipped[i - 1], stage[i].action)
        ELSE skipped[i - 1]
  IN  skipped[Len(stage)]

CollectSkipped ==
  /\ upc = "run" /\ ret.kind # "none"
  /\ todo' = SkippedSteps /\ upc' = "skips"
  /\ UNCHANGED <<vars, ui, lines, late, summary>>

ReportSkippedStart ==
  /\ upc = "skips" /\ todo # <<>>
  /\ om' = OnStepStart(stage, om, Head(todo)) /\ upc' = "skipping"
  /\ UNCHANGED <<vars, cbResults, lines, late, todo, summary>>

ReportSkippedDone ==
  /\ upc = "skipping"
  /\ TellComplete(Head(todo), "skipped")
  /\ todo' = Tail(todo) /\ upc' = "skips"
  /\ UNCHANGED <<vars, lines, late, summary>>

\* statusCounts of both summaries: the collected results by status.
StatusCounts ==
  [s \in Status |-> Cardinality({i \in DOMAIN cbResults : cbResults[i].status = s})]

PrintTerminatedSummary == [line |-> "TERMINATED", counts |-> StatusCounts]

PrintSummary(success) ==
  [line |-> IF success THEN "SUCCESS" ELSE "FAILED", counts |-> StatusCounts]

\* The context is looked at again, after the verdict of the executor.
Summarise ==
  /\ upc = "skips" /\ todo = <<>>
  /\ summary' = IF cancelled THEN PrintTerminatedSummary ELSE PrintSummary(ret.kind = "nil")
  /\ upc' = "end"
  /\ UNCHANGED <<vars, ui, lines, late, todo>>

-----------------------------------------------------------------------------
RDecide == RSkipCondition \/ Quietly(SkipFailedDep) \/ Quietly(Spawn) \/ Quietly(MapFault)

RScheduler ==
  \/ Quietly(SchedulerTop) \/ Quietly(ScanReady) \/ Quietly(AllDone)
  \/ Quietly(AbandonStart) \/ Quietly(Launch) \/ RDecide \/ Quietly(CloseChannel)

RHandler == Quietly(Handler)

RStep(n) ==
  RStepStart(n) \/ RStepRun(n) \/ Quietly(StepCheckCtx(n)) \/ Quietly(StepSend(n))

RCaller ==
  Quietly(Caller) \/ CollectSkipped \/ ReportSkippedStart \/ ReportSkippedDone \/ Summarise

REnded == (upc = "end" \/ crashed) /\ UNCHANGED rvars

RNext ==
  \/ Running /\ upc # "end" /\ (RCaller \/ RScheduler \/ RHandler \/ Quietly(Cancel))
  \/ Running /\ \E n \in Nodes : RStep(n) \/ DeliverLine(n)
  \/ REnded

RFairness ==
  /\ WF_rvars(Running /\ RCaller)
  /\ WF_rvars(Running /\ RScheduler)
  /\ WF_rvars(Running /\ RHandler)
  /\ \A n \in Names : WF_rvars(Running /\ RStep(n))

RSpec == RInit /\ [][RNext]_rvars /\ RFairness

-----------------------------------------------------------------------------
(* Properties *)

\* The executor calls the output manager the way OutputClients assumes: per
\* step one start, then one completion, with no call for a step twice, even
\* when the runner reports the skipped steps afterwards.  All properties of
\* the screen shown for OutputClients therefore hold of a stage run.
Clients ==
  INSTANCE OutputClients WITH
    Steps <- Stages, steps <- stage,
    life  <- [n \in Nodes |-> IF Told(n) # "none" THEN "completed"
                              ELSE IF om.data[n].started THEN "started" ELSE "new"],
    told  <- [n \in Nodes |-> Told(n)]

FollowsCallbackProtocol == Clients!OSpec

\* When an uncancelled stage run ends, every step has been reported exactly
\* once and its block is on the screen, the steps skipped without a callback
\* included: getSkippedSteps finds exactly the ones the executor kept silent.
ReportComplete ==
  upc = "end" /\ ~cancelled /\ ret.kind # "dag" =>
    /\ Len(cbResults) = Cardinality(Nodes)
    /\ \A n \in Nodes : Told(n) # "none" /\ ResultShown(om, n, Told(n))

\* The summary agrees with what was reported for the steps: SUCCESS only if
\* every reported error is forgiven, FAILED only for an unforgiven one; and its
\* counts are those of the steps, each counted once, none left out.
SummaryMatchesReports ==
  summary.line \in {"SUCCESS", "FAILED"} /\ ret.kind # "dag" =>
    /\ (\E n \in Nodes : Told(n) = "error" /\ ~Waived(stage, n)) <=> summary.line = "FAILED"
    /\ \A s \in Status : summary.counts[s] = Cardinality({n \in Nodes : Told(n) = s})
    /\ \A n \in Nodes : Told(n) # "none"

\* What the user is told of a finished step is what the executor recorded,
\* unless the context was cancelled in between.
ReportMatchesResult ==
  ~cancelled => \A n \in completed :
    Told(n) \in {resultMap[n]} \cup (IF go[n] = "idle" THEN {"none"} ELSE {})

\* The run ends with a summary, unless the runtime aborts.
RunEnds == <>(upc = "end" \/ crashed)

-----------------------------------------------------------------------------
(* The inductive invariant behind the safety properties *)

RTypeOK ==
  /\ cbResults \in Seq(ResultRec) /\ todo \in Seq(Nodes)
  /\ upc \in {"run", "skips", "skipping", "end"}
  /\ upc = "skipping" => todo # <<>>
  /\ upc = "end" => todo = <<>>
  /\ upc # "run" => ret.kind # "none"

\* Nothing is reported twice with different words, and nothing before its time.
Consistent ==
  \A i, j \in DOMAIN cbResults :
    cbResults[i].name = cbResults[j].name => cbResults[i].status = cbResults[j].status

Pending(n) ==
  \/ n \notin executing \cup completed
  \/ go[n] \in {"spawned", "running"}
  \/ spc = "decide" /\ cur = n

InTodo(n) == \E i \in 1..Len(todo) : todo[i] = n

NotYetTold ==
  /\ upc = "run" => \A n \in Names : Pending(n) => Told(n) = "none"
  /\ upc # "run" => \A n \in Names : InTodo(n) => Told(n) \in {"none", "skipped"}

\* The executor has the result s for n, somewhere between goroutine and maps.
Claimed(n, s) ==
  \/ go[n] \in {"reported", "checked"} /\ res[n].status = s
  \/ \E i \in 1..Len(chan) : chan[i].name = n /\ chan[i].status = s
  \/ Holding /\ hand.name = n /\ hand.status = s
  \/ n \in completed /\ resultMap[n] = s

\* The user was told s for n, or nothing because something n requires failed.
Agrees(n, s) ==
  \/ Told(n) = s
  \/ Told(n) = "none" /\ go[n] = "idle" /\ DepsOf(n) \cap failed # {}

Faithful ==
  ~cancelled => \A n \in Names, s \in Status : Claimed(n, s) => Agrees(n, s)

\* What the executor kept silent is about to be reported.
Collected ==
  upc # "run" /\ ~cancelled => \A n \in completed : Told(n) # "none" \/ InTodo(n)

RInv == CInv /\ RTypeOK /\ Consistent /\ NotYetTold /\ Faithful /\ Collected

\* Every action of the stage is named by one step only.
UniqueSteps(st) == \A i, j \in DOMAIN st : st[i].action = st[j].action => i = j

\* Nothing is reported twice, or is waiting to be, in a stage without repetition.
Once ==
  /\ \A i \in DOMAIN cbResults : cbResults[i].name \in Nodes
  /\ UniqueSteps(stage) =>
       /\ \A i, j \in DOMAIN cbResults : cbResults[i].name = cbResults[j].name => i = j
       /\ \A i, j \in 1..Len(todo) : todo[i] = todo[j] => i = j
       /\ upc # "run" => \A n \in Names : InTodo(n) => Told(n) = "none"

\* A step error names a step that has a result; the summary was made at the
\* end, of everything reported, and nobody cancels after it.
Summed ==
  /\ ret.kind = "step" => ret.name \in completed
  /\ summary.line # "none" => upc = "end"
  /\ summary.line \in {"SUCCESS", "FAILED"} =>
       /\ ~cancelled /\ summary.counts = StatusCounts
       /\ summary.line = "SUCCESS" <=> ret.kind = "nil"

SInv == RInv /\ Once /\ Summed
\* The manager was told what the reports say, and shows it.
ManagerKnows ==
  /\ om \in Manager(stage) /\ lines \in [Nodes -> Nat] /\ late \in [Nodes -> Nat]
  /\ ManagerInv(stage, om, lines, late) /\ Released(stage, om)
  /\ \A n \in Nodes :
       /\ om.data[n].completed <=> Told(n) # "none"
       /\ om.data[n].status = Told(n)
       /\ ~om.data[n].started => lines[n] = 0
       /\ late[n] <= lines[n] /\ (Told(n) = "none" => late[n] = 0)

\* OnStepStart was called for the steps whose action was begun, and by the
\* runner for the ones it reports itself; what began and ended was reported.
StartsKnown ==
  \A n \in Nodes :
    /\ go[n] \notin {"idle", "spawned"} => om.data[n].started
    /\ om.data[n].started /\ go[n] \in {"idle", "spawned"} =>
         upc # "run" /\ (InTodo(n) => upc = "skipping" /\ todo[1] = n)
    /\ upc = "skipping" /\ todo[1] = n => om.data[n].started
    /\ go[n] \in {"reported", "checked", "sent"} => Told(n) # "none"

PInv == SInv /\ (UniqueSteps(stage) => ManagerKnows /\ StartsKnown)
=============================================================================
