--------------------------- MODULE OrderedOutput ---------------------------
(***************************************************************************)
(* OrderedOutputManager of pkg/buildfab/ordered_output.go: steps run in    *)
(* parallel, their start messages, output lines and results are displayed  *)
(* as consecutive blocks in declaration order.  Every method holds the     *)
(* manager's mutex from beginning to end, so each is one state             *)
(* transformer on the manager m = [data, currentStep, screen].             *)
(*                                                                         *)
(* The mode modelled is the verbose one.  The silent mode writes the same  *)
(* start and result messages and no lines.                                 *)
(***************************************************************************)
EXTENDS StageGraph

CONSTANT NoStep   \* the empty name: no step is current

NewStepData == [started |-> FALSE, completed |-> FALSE, shown |-> FALSE,
                status |-> "none", output |-> <<>>]

\* NewOrderedOutputManager followed by RegisterStep for every step.
NewManager(st) ==
  [data |-> [n \in Node(st) |-> NewStepData], currentStep |-> NoStep, screen |-> <<>>]

\* What is written to errorOutput: a start message, the k-th line of a step,
\* or its result (ev is then the status).
Message(n, ev, k) == [step |-> n, ev |-> ev, line |-> k]

\* showStepStart, and the two assignments that follow it everywhere.
ShowStepStart(m, n) ==
  [m EXCEPT !.screen = Append(@, Message(n, "start", 0)),
            !.data[n].shown = TRUE, !.currentStep = n]

ShowStepOutput(m, n, k) == [m EXCEPT !.screen = Append(@, Message(n, "line", k))]

\* Faulty variant: the buffer is cleared without being written.
DropBufferedOutput(m, n) == [m EXCEPT !.data[n].output = <<>>]

FlushBufferedOutput(m, n) ==
  LET lines == [i \in DOMAIN m.data[n].output |->
                  Message(n, "line", m.data[n].output[i])]
  IN  [m EXCEPT !.screen = @ \o lines, !.data[n].output = <<>>]

\* Faulty variant: the current step is not reset.
ShowCompletionKeepCurrent(m, n) ==
  [m EXCEPT !.screen = Append(@, Message(n, m.data[n].status, 0))]

\* showStepCompletion, and the reset of currentStep that follows it.
ShowStepCompletion(m, n) ==
  [m EXCEPT !.screen = Append(@, Message(n, m.data[n].status, 0)),
            !.currentStep = NoStep]

\* Position of the first step naming n.
Position(st, n) ==
  CHOOSE i \in DOMAIN st : /\ st[i].action = n
                           /\ \A j \in 1..(i - 1) : st[j].action # n

\* Faulty variant: a start message is shown at once.
CanAlwaysShow(st, m, n) == TRUE

\* All steps declared before n have completed.
CanShowStepStart(st, m, n) ==
  \A i \in 1..(Position(st, n) - 1) : m.data[st[i].action].completed

\* Faulty variant: at most one completed step is shown per call.
ShowOneCompletedStep(st, m0) ==
  LET I == {i \in DOMAIN st :
        LET n == st[i].action
        IN  /\ m0.data[n].completed /\ ~m0.data[n].shown
            /\ \A j \in 1..(Position(st, n) - 1) :
                 LET p == m0.data[st[j].action] IN p.completed /\ p.shown}
      n == st[CHOOSE i \in I : TRUE].action
  IN  IF I = {} THEN m0
      ELSE ShowStepCompletion(FlushBufferedOutput(ShowStepStart(m0, n), n), n)

\* The body of the loop: a completed step that was not shown is shown as a
\* whole block if all steps before it are completed and shown.
ShowIfCompleted(st, m, n) ==
  LET canShow == \A i \in 1..(Position(st, n) - 1) :
                    LET p == m.data[st[i].action] IN p.completed /\ p.shown
  IN  IF m.data[n].completed /\ ~m.data[n].shown /\ canShow
      THEN ShowStepCompletion(FlushBufferedOutput(ShowStepStart(m, n), n), n)
      ELSE m

\* One pass over the declared steps; pass[i] is the manager after i of them.
CheckAndShowCompletedSteps(st, m0) ==
  LET pass[i \in 0..Len(st)] ==
        IF i = 0 THEN m0 ELSE ShowIfCompleted(st, pass[i - 1], st[i].action)
  IN  pass[Len(st)]

\* The first started, unfinished, unshown step that may be shown becomes the
\* current step and its buffered lines are written.
CheckAndShowNextStep(st, m) ==
  LET candidates == {i \in DOMAIN st :
        LET n == st[i].action
            d == m.data[n]
        IN  d.started /\ ~d.completed /\ ~d.shown /\ CanShowStepStart(st, m, n)}
      next == st[CHOOSE i \in candidates : \A j \in candidates : i <= j].action
  IN  IF candidates = {} THEN m
      ELSE FlushBufferedOutput(ShowStepStart(m, next), next)

OnStepStart(st, m, n) ==
  LET m1 == [m EXCEPT !.data[n].started = TRUE]
  IN  IF CanShowStepStart(st, m1, n) /\ ~m1.data[n].shown
      THEN ShowStepStart(m1, n)
      ELSE m1

OnStepComplete(st, m, n, status) ==
  LET m1 == [m EXCEPT !.data[n].completed = TRUE, !.data[n].status = status]
      m2 == IF m1.currentStep = n THEN ShowStepCompletion(m1, n) ELSE m1
  IN  CheckAndShowNextStep(st, CheckAndShowCompletedSteps(st, m2))

\* A line is kept in the buffer of its step, and written at once when the step
\* is the current one.
OnStepOutput(m, n, k) ==
  LET m1 == [m EXCEPT !.data[n].output = Append(@, k)]
  IN  IF m1.currentStep = n THEN ShowStepOutput(m1, n, k) ELSE m1

-----------------------------------------------------------------------------
(* What the screen must look like, for a stage st and a manager m *)

\* A message that stands before another belongs to a step declared earlier, or
\* to the same step: its start before its lines in the order they were produced,
\* each once, before its one result.
Precedes(st, e, f) ==
  LET Rank(x) == CASE x.ev = "start" -> 0 [] x.ev = "line" -> 1 [] OTHER -> 2
  IN  \/ Position(st, e.step) < Position(st, f.step)
      \/ /\ e.step = f.step
         /\ \/ Rank(e) < Rank(f)
            \/ e.ev = "line" /\ f.ev = "line" /\ e.line < f.line

\* Blocks come in declaration order, and every block begins with its start.
InOrder(st, s) ==
  /\ \A i, j \in DOMAIN s : i < j => Precedes(st, s[i], s[j])
  /\ \A i \in DOMAIN s : s[i].ev # "start" =>
       \E j \in 1..(i - 1) : s[j].step = s[i].step /\ s[j].ev = "start"

OnScreen(s, e) == \E i \in DOMAIN s : s[i] = e

\* The result of n is on the screen with the given status.
ResultShown(m, n, status) == OnScreen(m.screen, Message(n, status, 0))

-----------------------------------------------------------------------------
(* What holds of a manager m for a stage st, also inside a call *)

\* A stage is a sequence, and the empty name is the name of no step.
IsStage(st) == st \in Seq({st[i] : i \in DOMAIN st}) /\ NoStep \notin Node(st)

Statuses == {"ok", "warn", "error", "skipped"}

StepData == [started : BOOLEAN, completed : BOOLEAN, shown : BOOLEAN,
             status : Statuses \cup {"none"}, output : Seq(Nat)]

Messages(st) == [step : Node(st), ev : {"start", "line"} \cup Statuses, line : Nat]

Manager(st) == [data : [Node(st) -> StepData], currentStep : Node(st) \cup {NoStep},
                screen : Seq(Messages(st))]

Earlier(st, n) == {p \in Node(st) : Position(st, p) < Position(st, n)}

\* What stands before a shown step is complete.
ShownInv(st, m) ==
  \A n \in Node(st) : m.data[n].shown =>
    /\ m.data[n].started \/ m.data[n].completed
    /\ \A p \in Earlier(st, n) : m.data[p].completed /\ m.data[p].shown

\* The current step is the shown one that has not completed.
CurrentInv(st, m) ==
  \A n \in Node(st) : m.currentStep = n <=> m.data[n].shown /\ ~m.data[n].completed

\* The screen holds exactly what belongs to shown steps, of which L lines were
\* delivered, the last T of them too late; the lines of the others are kept.
ScreenInv(st, m, L, T) ==
  /\ InOrder(st, m.screen)
  /\ \A i \in DOMAIN m.screen :
       LET e == m.screen[i]
           d == m.data[e.step]
       IN  /\ d.shown
           /\ e.ev \in Statuses => d.completed
           /\ e.line <= L[e.step]
  /\ \A n \in Node(st) :
       IF m.data[n].shown
       THEN /\ OnScreen(m.screen, Message(n, "start", 0))
            /\ m.data[n].completed => ResultShown(m, n, m.data[n].status)
            /\ \A k \in 1..(L[n] - T[n]) : OnScreen(m.screen, Message(n, "line", k))
       ELSE m.data[n].output = [k \in 1..L[n] |-> k]

ManagerInv(st, m, L, T) == ShownInv(st, m) /\ CurrentInv(st, m) /\ ScreenInv(st, m, L, T)

\* Nothing waits that could be shown: a completed step, or also a started one.
CompletedReleased(st, m) ==
  \A n \in Node(st) :
    m.data[n].completed /\ (\A p \in Earlier(st, n) : m.data[p].completed) => m.data[n].shown

Released(st, m) ==
  \A n \in Node(st) :
    (m.data[n].started \/ m.data[n].completed) /\ (\A p \in Earlier(st, n) : m.data[p].completed)
      => m.data[n].shown
=============================================================================
