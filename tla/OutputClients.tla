--------------------------- MODULE OutputClients ---------------------------
(***************************************************************************)
(* The ordered output manager under every order in which an executor may   *)
(* call it.  A step is started and completed, or completed without being   *)
(* started (condition not met); its lines are delivered by the reader      *)
(* goroutines of executeCommandWithStreaming, which nobody waits for, so   *)
(* lines may also arrive after the step has completed.  Any step may be    *)
(* called at any time: dependencies are not this module's business.        *)
(***************************************************************************)
EXTENDS OrderedOutput

CONSTANTS Steps,      \* stages: sequences of steps
          MaxLines    \* bound: lines a step writes, by the length of the stage

ASSUME StepsAssumption == \A st \in Steps : IsStage(st)

VARIABLES steps,  \* the stage
          om,     \* the manager
          life,   \* of each step: new, started, completed
          told,   \* status it completed with
          lines,  \* lines delivered so far
          late    \* how many of them after the completion

ovars == <<steps, om, life, told, lines, late>>

OInit ==
  /\ steps \in Steps
  /\ om = NewManager(steps)
  /\ life  = [n \in Node(steps) |-> "new"]
  /\ told  = [n \in Node(steps) |-> "none"]
  /\ lines = [n \in Node(steps) |-> 0]
  /\ late  = [n \in Node(steps) |-> 0]

CallStart(n) ==
  /\ life[n] = "new"
  /\ om' = OnStepStart(steps, om, n)
  /\ life' = [life EXCEPT ![n] = "started"]
  /\ UNCHANGED <<steps, told, lines, late>>

CallComplete(n, s) ==
  /\ life[n] = "started" \/ (life[n] = "new" /\ s = "skipped")
  /\ om' = OnStepComplete(steps, om, n, s)
  /\ life' = [life EXCEPT ![n] = "completed"]
  /\ told' = [told EXCEPT ![n] = s]
  /\ UNCHANGED <<steps, lines, late>>

CallOutput(n) ==
  /\ lines[n] < MaxLines[Len(steps)] /\ om.data[n].started
  /\ om' = OnStepOutput(om, n, lines[n] + 1)
  /\ lines' = [lines EXCEPT ![n] = @ + 1]
  /\ late'  = [late EXCEPT ![n] = IF life[n] = "completed" THEN @ + 1 ELSE @]
  /\ UNCHANGED <<steps, life, told>>

Quiet == (\A n \in Node(steps) : life[n] = "completed") /\ UNCHANGED ovars

ONext ==
  \/ \E n \in Node(steps) :
       \/ CallStart(n) \/ CallOutput(n)
       \/ \E s \in {"ok", "warn", "error", "skipped"} : CallComplete(n, s)
  \/ Quiet

OSpec == OInit /\ [][ONext]_ovars

-----------------------------------------------------------------------------
\* Whatever the order of the calls, the screen is made of one block per step,
\* in declaration order: start, lines in order and each once, result.
ScreenInOrder == InOrder(steps, om.screen)

\* A completed step is held back only by a step declared before it that has
\* not completed; and its result is displayed with the status it reported.
HeldBackOnlyByEarlier ==
  \A n \in Node(steps) :
    life[n] = "completed" /\ ~ResultShown(om, n, told[n]) =>
      \E i \in 1..(Position(steps, n) - 1) : life[steps[i].action] # "completed"

\* Once the start of a step is displayed no line delivered before its
\* completion is missing: nothing stays in the buffer while the step runs, and
\* nothing is lost when it is shown late.
PromptLinesShown ==
  \A n \in Node(steps) : om.data[n].shown =>
    \A k \in 1..(lines[n] - late[n]) : OnScreen(om.screen, Message(n, "line", k))

\* The current step, whose lines are shown live, is the first one that has not
\* completed, if it has been started, and no other: output is streamed for at
\* most one step, the one everybody waits for, and never held back without need.
CurrentIsFirstPending ==
  \A n \in Node(steps) :
    om.currentStep = n <=>
      /\ life[n] = "started"
      /\ \A i \in 1..(Position(steps, n) - 1) : life[steps[i].action] = "completed"

-----------------------------------------------------------------------------
(* The inductive invariant behind them *)

OTypeOK ==
  /\ steps \in Steps /\ om \in Manager(steps)
  /\ life \in [Node(steps) -> {"new", "started", "completed"}]
  /\ told \in [Node(steps) -> Statuses \cup {"none"}]
  /\ lines \in [Node(steps) -> Nat] /\ late \in [Node(steps) -> Nat]

\* The manager knows what it was told.
KnownInv ==
  \A n \in Node(steps) :
    /\ om.data[n].completed <=> life[n] = "completed"
    /\ om.data[n].started => life[n] # "new"
    /\ life[n] = "started" => om.data[n].started
    /\ om.data[n].status = told[n]
    /\ life[n] = "completed" => told[n] # "none"
    /\ ~om.data[n].started => lines[n] = 0
    /\ late[n] <= lines[n]
    /\ life[n] # "completed" => late[n] = 0

OInv == OTypeOK /\ KnownInv /\ ManagerInv(steps, om, lines, late) /\ Released(steps, om)
=============================================================================
