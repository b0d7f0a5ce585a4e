------------------------ MODULE OutputClientsProofs ------------------------
(***************************************************************************)
(* The ordered output manager for stages of any length, any number of      *)
(* lines and any order of calls.                                           *)
(***************************************************************************)
EXTENDS OutputClients, OrderedOutputProofs

-----------------------------------------------------------------------------
(* The invariant *)

\* The manager is given a stage.
LEMMA StepsAreAStage == OInit \/ OTypeOK => steps \in Steps /\ IsStage(steps)
BY StepsAssumption DEF OInit, OTypeOK

LEMMA InitInv == OInit => OInv
<1> SUFFICES ASSUME OInit PROVE OInv
  OBVIOUS
<1>1. steps \in Steps /\ IsStage(steps)
  BY StepsAreAStage
<1>2. /\ lines \in [Node(steps) -> Nat] /\ om = NewManager(steps)
      /\ \A n \in Node(steps) : lines[n] = 0 /\ late[n] = 0 /\ life[n] = "new" /\ told[n] = "none"
  BY DEF OInit
<1>3. /\ om \in Manager(steps) /\ ManagerInv(steps, om, lines, late) /\ Released(steps, om)
      /\ \A n \in Node(steps) : /\ ~om.data[n].started /\ ~om.data[n].completed
                                /\ om.data[n].status = "none"
  BY <1>1, <1>2, NewManagerFits
<1>4. OTypeOK
  BY <1>1, <1>3 DEF OInit, OTypeOK
<1>5. KnownInv
  BY <1>2, <1>3 DEF KnownInv
<1>. QED BY <1>3, <1>4, <1>5 DEF OInv

LEMMA StartStep == ASSUME OInv, NEW n \in Node(steps), CallStart(n) PROVE OInv'
<1>1. PICK r : r = om'
  OBVIOUS
<1>2. /\ IsStage(steps) /\ om \in Manager(steps) /\ lines \in [Node(steps) -> Nat]
      /\ late \in [Node(steps) -> Nat] /\ ManagerInv(steps, om, lines, late) /\ Released(steps, om)
  BY StepsAreAStage DEF OInv, OTypeOK
<1>3. /\ steps' = steps /\ lines' = lines /\ late' = late /\ told' = told
      /\ life' = [life EXCEPT ![n] = "started"] /\ life[n] = "new"
      /\ r = OnStepStart(steps, om, n)
  BY <1>1 DEF CallStart
<1>4. ~om.data[n].started /\ ~om.data[n].completed /\ lines[n] = 0
  BY <1>3 DEF OInv, KnownInv
<1>5. /\ r \in Manager(steps) /\ ManagerInv(steps, r, lines, late) /\ Released(steps, r)
      /\ \A k \in Node(steps) :
           /\ r.data[k].completed = om.data[k].completed
           /\ r.data[k].status = om.data[k].status
           /\ IF k = n THEN r.data[k].started ELSE r.data[k].started = om.data[k].started
  <2>1. r = OnStepStart(steps, om, n)
    BY <1>3
  <2>2. AfterStart(steps, om, n, lines, late, r)
    BY <1>2, <1>4, <2>1, OnStartKeeps
  <2>. QED BY <2>2 DEF AfterStart
<1>6. OTypeOK'
  BY <1>1, <1>3, <1>5 DEF OInv, OTypeOK
<1>7. life \in [Node(steps) -> {"new", "started", "completed"}]
  BY DEF OInv, OTypeOK
<1>8. KnownInv'
  <2>1. \A k \in Node(steps) : life'[k] = IF k = n THEN "started" ELSE life[k]
    BY <1>3, <1>7
  <2>2. ASSUME NEW k \in Node(steps)
        PROVE  /\ r.data[k].completed <=> life'[k] = "completed"
               /\ r.data[k].started => life'[k] # "new"
               /\ life'[k] = "started" => r.data[k].started
               /\ r.data[k].status = told[k]
               /\ life'[k] = "completed" => told[k] # "none"
               /\ ~r.data[k].started => lines[k] = 0
               /\ late[k] <= lines[k]
               /\ life'[k] # "completed" => late[k] = 0
    <3>1. CASE k = n
      BY <1>3, <1>4, <1>5, <2>1, <3>1 DEF OInv, KnownInv
    <3>2. CASE k # n
      BY <1>5, <2>1, <3>2 DEF OInv, KnownInv
    <3>. QED BY <3>1, <3>2
  <2>. QED BY <1>1, <1>3, <2>2 DEF KnownInv
<1>9. ManagerInv(steps', om', lines', late') /\ Released(steps', om')
  BY <1>1, <1>3, <1>5
<1>. QED BY <1>6, <1>8, <1>9 DEF OInv

LEMMA OutputStep == ASSUME OInv, NEW n \in Node(steps), CallOutput(n) PROVE OInv'
<1>1. PICK r, U, V : r = om' /\ U = lines' /\ V = late'
  OBVIOUS
<1>2. /\ IsStage(steps) /\ om \in Manager(steps) /\ lines \in [Node(steps) -> Nat]
      /\ late \in [Node(steps) -> Nat] /\ ManagerInv(steps, om, lines, late) /\ Released(steps, om)
  BY StepsAreAStage DEF OInv, OTypeOK
<1>3. /\ steps' = steps /\ life' = life /\ told' = told
      /\ U = [lines EXCEPT ![n] = lines[n] + 1]
      /\ V = [late EXCEPT ![n] = IF life[n] = "completed" THEN late[n] + 1 ELSE late[n]]
      /\ r = OnStepOutput(om, n, lines[n] + 1) /\ om.data[n].started
  BY <1>1 DEF CallOutput
<1>4. /\ late[n] <= lines[n]
      /\ ~om.data[n].completed => late[n] = 0
      /\ om.data[n].completed <=> life[n] = "completed"
  BY DEF OInv, KnownInv
<1>5. /\ U \in [Node(steps) -> Nat] /\ V \in [Node(steps) -> Nat] /\ U[n] = lines[n] + 1
      /\ V[n] = IF om.data[n].completed THEN late[n] + 1 ELSE late[n]
      /\ \A k \in Node(steps) : k # n => U[k] = lines[k] /\ V[k] = late[k]
  BY <1>2, <1>3, <1>4
<1>6. /\ r \in Manager(steps) /\ ManagerInv(steps, r, U, V) /\ Released(steps, r)
      /\ \A k \in Node(steps) :
           /\ r.data[k].completed = om.data[k].completed
           /\ r.data[k].status = om.data[k].status
           /\ r.data[k].started = om.data[k].started
  <2>1. r = OnStepOutput(om, n, lines[n] + 1)
    BY <1>3
  <2>2. OneMore(steps, om, n, lines, late, U, V)
    BY <1>5 DEF OneMore
  <2>3. AfterOutput(steps, om, U, V, r)
    BY <1>2, <1>4, <1>5, <2>1, <2>2, OnOutputKeeps
  <2>. QED BY <2>3 DEF AfterOutput
<1>7. OTypeOK'
  BY <1>1, <1>3, <1>5, <1>6 DEF OInv, OTypeOK
<1>8. KnownInv'
  <2>1. \A k \in Node(steps) : /\ V[k] <= U[k]
                               /\ life[k] # "completed" => V[k] = 0
                               /\ ~om.data[k].started => U[k] = 0
    BY <1>2, <1>3, <1>4, <1>5 DEF OInv, KnownInv
  <2>. QED BY <1>1, <1>3, <1>6, <2>1 DEF OInv, KnownInv
<1>9. ManagerInv(steps', om', lines', late') /\ Released(steps', om')
  BY <1>1, <1>3, <1>6
<1>. QED BY <1>7, <1>8, <1>9 DEF OInv

LEMMA CompleteStep ==
  ASSUME OInv, NEW n \in Node(steps), NEW s \in Statuses, CallComplete(n, s) PROVE OInv'
<1>1. PICK r : r = om'
  OBVIOUS
<1>2. /\ IsStage(steps) /\ om \in Manager(steps) /\ lines \in [Node(steps) -> Nat]
      /\ late \in [Node(steps) -> Nat] /\ ManagerInv(steps, om, lines, late)
      /\ life \in [Node(steps) -> {"new", "started", "completed"}]
      /\ told \in [Node(steps) -> Statuses \cup {"none"}]
  BY StepsAreAStage DEF OInv, OTypeOK
<1>3. /\ steps' = steps /\ lines' = lines /\ late' = late
      /\ life' = [life EXCEPT ![n] = "completed"] /\ told' = [told EXCEPT ![n] = s]
      /\ r = OnStepComplete(steps, om, n, s)
      /\ life[n] = "started" \/ (life[n] = "new" /\ s = "skipped")
  BY <1>1 DEF CallComplete
<1>4. ~om.data[n].completed
  BY <1>3 DEF OInv, KnownInv
<1>5. HasStatus(steps, om)
  BY <1>2 DEF OInv, KnownInv, HasStatus
<1>6. /\ r \in Manager(steps) /\ ManagerInv(steps, r, lines, late) /\ Released(steps, r)
      /\ \A k \in Node(steps) :
           /\ r.data[k].started = om.data[k].started
           /\ IF k = n THEN r.data[k].completed ELSE r.data[k].completed = om.data[k].completed
           /\ r.data[k].status = IF k = n THEN s ELSE om.data[k].status
  <2>1. r = OnStepComplete(steps, om, n, s)
    BY <1>3
  <2>2. AfterComplete(steps, om, n, s, lines, late, r)
    BY <1>2, <1>4, <1>5, <2>1, OnCompleteKeeps
  <2>. QED BY <2>2 DEF AfterComplete
<1>7. OTypeOK'
  BY <1>1, <1>2, <1>3, <1>6 DEF OInv, OTypeOK
<1>8. KnownInv'
  <2>1. \A k \in Node(steps) : /\ life'[k] = IF k = n THEN "completed" ELSE life[k]
                               /\ told'[k] = IF k = n THEN s ELSE told[k]
    BY <1>2, <1>3
  <2>2. s # "none"
    BY DEF Statuses
  <2>3. ASSUME NEW k \in Node(steps)
        PROVE  /\ r.data[k].completed <=> life'[k] = "completed"
               /\ r.data[k].started => life'[k] # "new"
               /\ life'[k] = "started" => r.data[k].started
               /\ r.data[k].status = told'[k]
               /\ life'[k] = "completed" => told'[k] # "none"
               /\ ~r.data[k].started => lines[k] = 0
               /\ late[k] <= lines[k]
               /\ life'[k] # "completed" => late[k] = 0
    <3>1. CASE k = n
      BY <1>3, <1>6, <2>1, <2>2, <3>1 DEF OInv, KnownInv
    <3>2. CASE k # n
      BY <1>6, <2>1, <3>2 DEF OInv, KnownInv
    <3>. QED BY <3>1, <3>2
  <2>. QED BY <1>1, <1>3, <2>3 DEF KnownInv
<1>9. ManagerInv(steps', om', lines', late') /\ Released(steps', om')
  BY <1>1, <1>3, <1>6
<1>. QED BY <1>7, <1>8, <1>9 DEF OInv

LEMMA ManagerStep == OInv /\ [ONext]_ovars => OInv'
<1> SUFFICES ASSUME OInv, [ONext]_ovars PROVE OInv'
  OBVIOUS
<1>1. ASSUME NEW n \in Node(steps), CallStart(n) PROVE OInv'
  BY <1>1, StartStep
<1>2. ASSUME NEW n \in Node(steps), CallOutput(n) PROVE OInv'
  BY <1>2, OutputStep
<1>3. ASSUME NEW n \in Node(steps), NEW s \in {"ok", "warn", "error", "skipped"},
             CallComplete(n, s)
      PROVE  OInv'
  BY <1>3, CompleteStep DEF Statuses
<1>4. CASE UNCHANGED ovars
  BY <1>4 DEF ovars, OInv, OTypeOK, KnownInv, ManagerInv, ShownInv, CurrentInv, ScreenInv,
              Released, ResultShown
<1>. QED BY <1>1, <1>2, <1>3, <1>4 DEF ONext, Quiet

\* The invariant holds whatever the order of the calls.
LEMMA ManagerInvariant == OSpec => []OInv
BY InitInv, ManagerStep, PTL DEF OSpec

-----------------------------------------------------------------------------
(* The results *)

\* ordered_output.go: whatever the order in which parallel steps start, write and
\* complete, the screen is made of whole blocks in declaration order.
THEOREM ScreenIsOrdered == OSpec => []ScreenInOrder
<1>1. OInv => ScreenInOrder
  BY DEF OInv, ManagerInv, ScreenInv, ScreenInOrder
<1>. QED BY <1>1, ManagerInvariant, PTL

\* checkAndShowCompletedSteps holds a result back only while a step declared
\* before it has not completed, and shows it with the status that was reported.
THEOREM NothingHeldBack == OSpec => []HeldBackOnlyByEarlier
<1>1. OInv => HeldBackOnlyByEarlier
  <2> SUFFICES ASSUME OInv, NEW n \in Node(steps), life[n] = "completed",
                      \A i \in 1..(Position(steps, n) - 1) : life[steps[i].action] = "completed"
               PROVE  ResultShown(om, n, told[n])
    BY DEF HeldBackOnlyByEarlier
  <2>1. IsStage(steps) /\ Earlier(steps, n) \subseteq Node(steps)
    BY StepsAreAStage DEF OInv, OTypeOK, Earlier
  <2>2. \A p \in Earlier(steps, n) : life[p] = "completed"
    BY <2>1, EarlierSteps
  <2>3. om.data[n].completed /\ \A p \in Earlier(steps, n) : om.data[p].completed
    BY <2>1, <2>2 DEF OInv, KnownInv
  <2>4. om.data[n].shown /\ om.data[n].status = told[n]
    BY <2>3 DEF OInv, Released, KnownInv
  <2>. QED BY <2>3, <2>4 DEF OInv, ManagerInv, ScreenInv
<1>. QED BY <1>1, ManagerInvariant, PTL

\* flushBufferedOutput and OnStepOutput: once the start of a step is on the screen,
\* every line delivered before its completion is, too.
THEOREM PromptLinesAreShown == OSpec => []PromptLinesShown
<1>1. OInv => PromptLinesShown
  BY DEF OInv, ManagerInv, ScreenInv, PromptLinesShown
<1>. QED BY <1>1, ManagerInvariant, PTL

\* currentStep is the first step that has not completed, once it has been started:
\* it is set and reset in time by all three calls.
THEOREM CurrentStepIsFirstPending == OSpec => []CurrentIsFirstPending
<1>1. OInv => CurrentIsFirstPending
  <2> SUFFICES ASSUME OInv, NEW n \in Node(steps)
               PROVE  om.currentStep = n <=>
                        /\ life[n] = "started"
                        /\ \A i \in 1..(Position(steps, n) - 1) : life[steps[i].action] = "completed"
    BY DEF CurrentIsFirstPending
  <2>1. IsStage(steps) /\ Earlier(steps, n) \subseteq Node(steps)
    BY StepsAreAStage DEF OInv, OTypeOK, Earlier
  <2>2. (\A i \in 1..(Position(steps, n) - 1) : life[steps[i].action] = "completed")
          <=> \A p \in Earlier(steps, n) : om.data[p].completed
    <3>1. (\A i \in 1..(Position(steps, n) - 1) : life[steps[i].action] = "completed")
            <=> \A p \in Earlier(steps, n) : life[p] = "completed"
      BY <2>1, EarlierSteps
    <3>. QED BY <2>1, <3>1 DEF OInv, KnownInv
  <2>3. om.currentStep = n <=> om.data[n].shown /\ ~om.data[n].completed
    BY DEF OInv, ManagerInv, CurrentInv
  <2>4. om.data[n].shown => /\ om.data[n].started \/ om.data[n].completed
                            /\ \A p \in Earlier(steps, n) : om.data[p].completed
    BY DEF OInv, ManagerInv, ShownInv
  <2>5. /\ om.data[n].completed <=> life[n] = "completed"
        /\ om.data[n].started => life[n] # "new"
        /\ life[n] = "started" => om.data[n].started
        /\ life[n] \in {"new", "started", "completed"}
    BY DEF OInv, OTypeOK, KnownInv
  <2>6. om.data[n].started /\ (\A p \in Earlier(steps, n) : om.data[p].completed)
          => om.data[n].shown
    BY DEF OInv, Released
  <2>. QED BY <2>2, <2>3, <2>4, <2>5, <2>6
<1>. QED BY <1>1, ManagerInvariant, PTL
=============================================================================
