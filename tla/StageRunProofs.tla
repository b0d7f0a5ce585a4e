--------------------------- MODULE StageRunProofs ---------------------------
(***************************************************************************)
(* What the user of a stage run is told, for all stages and runner results.*)
(***************************************************************************)
EXTENDS StageRun, DagExecutorProofs, OrderedOutputProofs

-----------------------------------------------------------------------------
(* The executor inside a stage run *)

\* A step of the run that adds nothing to the reports and leaves its own
\* control alone.
QuietStep ==
  /\ UNCHANGED <<cbResults, todo, upc>>
  /\ \/ Running /\ (\/ Caller \/ SchedulerTop \/ ScanReady \/ AllDone \/ AbandonStart
                    \/ Launch \/ SkipFailedDep \/ Spawn \/ MapFault \/ CloseChannel
                    \/ Handler \/ Cancel)
     \/ Running /\ \E n \in Names : StepStart(n) \/ StepCheckCtx(n) \/ StepSend(n)
     \/ UNCHANGED vars

\* The steps that matter for the reports.
LEMMA RunSteps ==
  ASSUME TypeOK, [RNext]_rvars
  PROVE  \/ QuietStep
         \/ \E n \in Names : RStepRun(n) /\ Running
         \/ RSkipCondition /\ Running
         \/ CollectSkipped \/ ReportSkippedStart \/ ReportSkippedDone \/ Summarise
<1> USE DEF Quietly, uvars, ui
<1>0. Nodes \subseteq Names
  BY NodesAreNames
<1>1. CASE UNCHANGED rvars \/ REnded
  BY <1>1 DEF REnded, rvars, QuietStep
<1>2. CASE Running /\ upc # "end" /\ (RCaller \/ RScheduler \/ RHandler \/ Quietly(Cancel))
  BY <1>2 DEF RCaller, RScheduler, RDecide, RHandler, QuietStep
<1>3. CASE Running /\ \E n \in Nodes : RStep(n) \/ DeliverLine(n)
  BY <1>0, <1>3 DEF RStep, RStepStart, DeliverLine, QuietStep
<1>. QED BY <1>1, <1>2, <1>3 DEF RNext

\* Whatever the runner does, the executor takes one of its own steps or none.
LEMMA RunsTheExecutor == ASSUME TypeOK, [RNext]_rvars PROVE [Next]_vars
<1>1. CASE QuietStep
  BY <1>1 DEF QuietStep, Next, Scheduler, Decide, StepGoroutine
<1>2. ASSUME NEW n \in Names, RStepRun(n), Running PROVE Next
  BY <1>2 DEF RStepRun, Next, StepGoroutine, StepRun
<1>3. CASE RSkipCondition /\ Running
  BY <1>3 DEF RSkipCondition, Next, Scheduler, Decide
<1>4. CASE CollectSkipped \/ ReportSkippedStart \/ ReportSkippedDone \/ Summarise
  BY <1>4 DEF CollectSkipped, ReportSkippedStart, ReportSkippedDone, Summarise
<1>. QED BY <1>1, <1>2, <1>3, <1>4, RunSteps

\* So its invariant holds throughout the run.
LEMMA ExecutorKeepsItsInvariant == ASSUME CInv, [RNext]_rvars PROVE CInv'
<1>1. [Next]_vars
  BY RunsTheExecutor DEF CInv, VInv, IInv
<1>. QED BY <1>1, VInvInductive, SkipPreserved, StartPreserved DEF CInv, VInv

-----------------------------------------------------------------------------
(* The reports *)

\* Nothing was told of a step without a report.
LEMMA ToldNone ==
  ASSUME NEW n, \A i \in DOMAIN cbResults : cbResults[i].name # n
  PROVE  Told(n) = "none"
  BY DEF Told

\* All reports of a step are what was told of it.
LEMMA ToldIs ==
  ASSUME NEW n, Consistent, NEW i \in DOMAIN cbResults, cbResults[i].name = n
  PROVE  Told(n) = cbResults[i].status
<1> DEFINE c == CHOOSE j \in DOMAIN cbResults : cbResults[j].name = n
<1>1. c \in DOMAIN cbResults /\ cbResults[c].name = n
  OBVIOUS
<1>2. Told(n) = cbResults[c].status
  BY DEF Told
<1>. QED BY <1>1, <1>2 DEF Consistent

\* A report that says what was told before, or the first one, is what is told
\* of its step then; the others are not concerned.
LEMMA TellAppends ==
  ASSUME Consistent, cbResults \in Seq(ResultRec), NEW n \in Names, NEW s \in Status,
         cbResults' = Append(cbResults, Result(n, s)), Told(n) \in {"none", s}
  PROVE  /\ cbResults' \in Seq(ResultRec) /\ Consistent' /\ Told(n)' = s
         /\ \A m : m # n => Told(m)' = Told(m)
<1> DEFINE k == Len(cbResults)
<1>1. Result(n, s) \in ResultRec /\ Result(n, s).name = n /\ Result(n, s).status = s
  BY ResultsAreRecords
<1>2. /\ k \in Nat /\ DOMAIN cbResults = 1..k /\ DOMAIN cbResults' = 1..(k + 1)
      /\ cbResults'[k + 1] = Result(n, s)
      /\ \A i \in 1..k : cbResults'[i] = cbResults[i] /\ cbResults[i] \in ResultRec
      /\ cbResults' \in Seq(ResultRec)
  BY <1>1, AppendProperties, LenProperties, ElementOfSeq
<1> HIDE DEF k
<1>3. \A i \in 1..k : cbResults[i].name = n => cbResults[i].status = s
  <2> SUFFICES ASSUME NEW i \in 1..k, cbResults[i].name = n PROVE cbResults[i].status = s
    OBVIOUS
  <2>1. Told(n) = cbResults[i].status
    BY <1>2, ToldIs
  <2>2. cbResults[i].status # "none"
    BY <1>2, RecordFields DEF Status
  <2>. QED BY <2>1, <2>2
<1>4. \A i \in 1..(k + 1) : i \in 1..k \/ i = k + 1
  BY <1>2
<1>5. Consistent'
  BY <1>1, <1>2, <1>3, <1>4 DEF Consistent
<1>6. k + 1 \in DOMAIN cbResults' /\ cbResults'[k + 1].name = n /\ cbResults'[k + 1].status = s
  BY <1>1, <1>2
<1>7. Told(n)' = s
  <2> DEFINE c == CHOOSE j \in DOMAIN cbResults' : cbResults'[j].name = n
  <2>1. c \in DOMAIN cbResults' /\ cbResults'[c].name = n
    BY <1>6
  <2>2. Told(n)' = cbResults'[c].status
    BY <1>6 DEF Told
  <2> HIDE DEF c
  <2>. QED BY <1>5, <1>6, <2>1, <2>2 DEF Consistent
<1>8. ASSUME NEW m, m # n PROVE Told(m)' = Told(m)
  <2>1. CASE \E i \in DOMAIN cbResults : cbResults[i].name = m
    <3>1. PICK i \in DOMAIN cbResults : cbResults[i].name = m
      BY <2>1
    <3> DEFINE c == CHOOSE j \in DOMAIN cbResults' : cbResults'[j].name = m
    <3>2. i \in DOMAIN cbResults' /\ cbResults'[i].name = m /\ cbResults'[i] = cbResults[i]
      BY <1>2, <3>1
    <3>3. c \in DOMAIN cbResults' /\ cbResults'[c].name = m
      BY <3>2
    <3>4. Told(m)' = cbResults'[c].status
      BY <3>2 DEF Told
    <3> HIDE DEF c
    <3>5. cbResults'[c].status = cbResults'[i].status
      BY <1>5, <3>2, <3>3 DEF Consistent
    <3>6. Told(m)' = cbResults[i].status
      BY <3>2, <3>4, <3>5
    <3>. QED BY <3>1, <3>6, ToldIs
  <2>2. CASE \A i \in DOMAIN cbResults : cbResults[i].name # m
    <3>1. \A i \in DOMAIN cbResults' : cbResults'[i].name # m
      BY <1>2, <1>4, <1>6, <1>8, <2>2
    <3>2. Told(m)' = "none"
      BY <3>1 DEF Told
    <3>. QED BY <2>2, <3>2, ToldNone
  <2>. QED BY <2>1, <2>2
<1>. QED BY <1>2, <1>5, <1>7, <1>8

-----------------------------------------------------------------------------
(* What a step of the executor can change about a step of the stage *)

\* A step does not become pending again.
LEMMA PendingBack ==
  ASSUME CInv, [Next]_vars, NEW n \in Names, Pending(n)' PROVE Pending(n)
<1> USE DEF CInv, VInv, IInv, maps, sched, gvars, hvars
<1>1. CASE Launch
  BY <1>1 DEF Launch, Pending, ReadyInv
<1>2. CASE Spawn
  BY <1>2 DEF Spawn, NextStart, Pending, TypeOK
<1>3. CASE SkipFailedDep \/ SkipCondition
  BY <1>3 DEF SkipFailedDep, SkipCondition, NextStart, Pending
<1>4. CASE HandlerApply
  BY <1>4 DEF HandlerApply, Pending
<1>5. ASSUME NEW m \in Names, StepGoroutine(m) PROVE Pending(n)
  BY <1>5 DEF StepGoroutine, StepRun, StepStart, StepFinish, StepCheckCtx, StepSend,
              Pending, TypeOK
<1>6. CASE /\ UNCHANGED <<executing, completed, go>>
           /\ spc' # "decide" \/ UNCHANGED <<spc, cur>>
  BY <1>6 DEF Pending
<1>. QED
  BY <1>1, <1>2, <1>3, <1>4, <1>5, <1>6
     DEF Next, vars, Ended, Caller, Scheduler, Decide, Handler, Cancel, BuildDAG, MainReturn,
         SchedulerTop, ScanReady, AllDone, AbandonStart, MapFault, CloseChannel,
         HandlerRecv, HandlerLock, HandlerExit

\* A step behind a failure is never started, and failures stay.
LEMMA BlockedStays ==
  ASSUME CInv, [Next]_vars, NEW n \in Names, go[n] = "idle", DepsOf(n) \cap failed # {}
  PROVE  go'[n] = "idle" /\ (DepsOf(n) \cap failed # {})'
<1> USE DEF CInv, VInv, IInv, maps, sched, gvars, hvars
<1>1. (DepsOf(n) \cap failed # {})'
  BY OnlyForward DEF DepsOf
<1> SUFFICES go'[n] = "idle"
  BY <1>1
<1>2. CASE Spawn
  BY <1>2 DEF Spawn, HasFailedDependency, TypeOK
<1>3. ASSUME NEW m \in Names, StepGoroutine(m) PROVE go'[n] = "idle"
  BY <1>3 DEF StepGoroutine, StepRun, StepStart, StepFinish, StepCheckCtx, StepSend, TypeOK
<1>4. CASE UNCHANGED go
  BY <1>4
<1>. QED
  BY <1>1, <1>2, <1>3, <1>4
     DEF Next, vars, Ended, Caller, Scheduler, Decide, Handler, Cancel, BuildDAG, MainReturn,
         SchedulerTop, ScanReady, AllDone, AbandonStart, Launch, SkipFailedDep, SkipCondition,
         MapFault, CloseChannel, HandlerRecv, HandlerLock, HandlerApply, HandlerExit

\* A result is appended to the channel: the claims are the old ones and it.
LEMMA ClaimsAfterSend ==
  ASSUME CInv, NEW r \in ResultRec, chan' = Append(chan, r),
         UNCHANGED <<hpc, hand, completed, resultMap, res>>,
         NEW n \in Names, NEW s \in Status, Claimed(n, s)',
         go'[n] \in {"reported", "checked"} => go'[n] = go[n]
  PROVE  Claimed(n, s) \/ (n = r.name /\ s = r.status)
<1>1. /\ Len(chan') = Len(chan) + 1 /\ Len(chan) \in Nat
      /\ \A i \in 1..Len(chan) : chan'[i] = chan[i]
      /\ chan'[Len(chan) + 1] = r
  BY AppendProperties, LenProperties DEF CInv, VInv, IInv, TypeOK
<1>2. \A i \in 1..Len(chan') : i \in 1..Len(chan) \/ i = Len(chan) + 1
  BY <1>1
<1>. QED BY <1>1, <1>2 DEF Claimed, Holding

\* A quiet step claims nothing new, unless it skips a step behind a failure;
\* a cancellation may replace a claim.
LEMMA QuietClaims ==
  ASSUME CInv, QuietStep, ~cancelled', NEW n \in Names, NEW s \in Status, Claimed(n, s)'
  PROVE  \/ Claimed(n, s)
         \/ spc = "decide" /\ cur = n /\ s = "skipped" /\ HasFailedDependency(n)
<1> USE DEF CInv, VInv, IInv, maps, sched, gvars, hvars
<1>1. CASE SkipFailedDep
  <2>1. cur \in Names /\ Result(cur, "skipped") \in ResultRec
        /\ Result(cur, "skipped").name = cur /\ Result(cur, "skipped").status = "skipped"
    BY <1>1, NodesAreNames, ResultsAreRecords DEF SkipFailedDep, ReadyInv, Status
  <2>. QED BY <1>1, <2>1, ClaimsAfterSend DEF SkipFailedDep
<1>2. ASSUME NEW m \in Names, StepSend(m) PROVE Claimed(n, s)
  <2>1. res[m] \in ResultRec /\ res[m].name = m /\ go[m] = "checked"
        /\ go' = [go EXCEPT ![m] = "sent"]
    BY <1>2 DEF StepSend, StepInv
  <2>2. go'[n] \in {"reported", "checked"} => go'[n] = go[n]
    BY <2>1 DEF TypeOK
  <2>3. Claimed(n, s) \/ (n = m /\ s = res[m].status)
    BY <1>2, <2>1, <2>2, ClaimsAfterSend DEF StepSend
  <2>. QED BY <2>1, <2>3 DEF Claimed
<1>3. CASE HandlerRecv
  <2>1. /\ Len(chan) \in Nat \ {0} /\ Head(chan) = chan[1]
        /\ Len(chan') = Len(chan) - 1
        /\ \A i \in 1..Len(chan') : chan'[i] = chan[i + 1]
    BY <1>3, HeadTailProperties, EmptySeq DEF HandlerRecv, TypeOK
  <2>2. 1 \in 1..Len(chan) /\ \A i \in 1..Len(chan') : i + 1 \in 1..Len(chan)
    BY <2>1
  <2>3. UNCHANGED <<completed, resultMap, go, res>> /\ hand' = chan[1]
    BY <1>3, <2>1 DEF HandlerRecv
  <2>. QED BY <2>1, <2>2, <2>3 DEF Claimed
<1>4. CASE HandlerApply
  BY <1>4 DEF HandlerApply, Claimed, Holding, TypeOK, MapInv
<1>5. ASSUME NEW m \in Names, StepStart(m) \/ StepCheckCtx(m) PROVE Claimed(n, s)
  <2>1. /\ UNCHANGED <<chan, hpc, hand, completed, resultMap, res, cancelled>>
        /\ go'[n] \in {"reported", "checked"} => go[n] \in {"reported", "checked"}
    BY <1>5 DEF StepStart, StepCheckCtx, TypeOK
  <2>. QED BY <2>1 DEF Claimed, Holding
<1>6. CASE UNCHANGED <<chan, hand, completed, resultMap, go, res>> /\ Holding' = Holding
  BY <1>6 DEF Claimed
<1>7. CASE BuildDAG
  BY <1>6, <1>7 DEF BuildDAG, ControlInv, Holding
<1>8. CASE Spawn
  <2>1. /\ UNCHANGED <<chan, hpc, hand, completed, resultMap, res>>
        /\ go'[n] \in {"reported", "checked"} => go[n] = go'[n]
    BY <1>8 DEF Spawn, TypeOK
  <2>. QED BY <2>1 DEF Claimed, Holding
<1>. QED
  BY <1>1, <1>2, <1>3, <1>4, <1>5, <1>6, <1>7, <1>8
     DEF QuietStep, vars, Caller, MainReturn, SchedulerTop, ScanReady, AllDone, AbandonStart,
         Launch, MapFault, CloseChannel, Handler, HandlerLock, HandlerExit, Cancel, Holding

-----------------------------------------------------------------------------
(* The search for the steps that were skipped silently *)

\* Step i of the stage was not reported and requires a reported error.
Silent(i) ==
  Told(stage[i].action) = "none" /\ \E d \in stage[i].require : Told(d) = "error"

\* The loop of getSkippedSteps can be written down step by step.
LEMMA SearchExists ==
  ASSUME TypeOK
  PROVE  \E g : /\ g = [i \in 0..Len(stage) |->
                         IF i = 0 THEN <<>>
                         ELSE IF Silent(i) THEN Append(g[i - 1], stage[i].action) ELSE g[i - 1]]
                /\ SkippedSteps = g[Len(stage)]
<1> DEFINE F(g, i) == IF i = 0 THEN <<>>
                      ELSE IF Silent(i) THEN Append(g[i - 1], stage[i].action) ELSE g[i - 1]
           P(k) == \E g : g = [i \in 0..k |-> F(g, i)]
           S == {k \in Nat : ~P(k)}
<1>0. Len(stage) \in Nat
  BY StagesAssumption, LenProperties DEF TypeOK
<1>1. ASSUME S # {} PROVE FALSE
  <2>1. PICK k \in S : \A j \in S : ~(j < k)
    BY <1>1, LeastNumber
  <2>2. CASE k = 0
    <3> DEFINE g == [i \in 0..0 |-> <<>>]
    <3>1. g = [i \in 0..0 |-> F(g, i)]
      OBVIOUS
    <3>. QED BY <2>1, <2>2, <3>1
  <2>3. CASE k # 0
    <3>1. k - 1 \in Nat /\ P(k - 1)
      <4> HIDE DEF P
      <4>1. k \in Nat /\ k - 1 \in Nat /\ k - 1 < k
        BY <2>1, <2>3
      <4>. QED BY <2>1, <4>1
    <3>2. PICK g : g = [i \in 0..(k - 1) |-> F(g, i)]
      BY <3>1
    <3> DEFINE h == [i \in 0..k |-> IF i = k THEN F(g, k) ELSE g[i]]
    <3>3. \A i \in 0..k : h[i] = F(h, i)
      <4> SUFFICES ASSUME NEW i \in 0..k PROVE h[i] = F(h, i)
        OBVIOUS
      <4>1. CASE i = k
        <5>1. k - 1 \in 0..k /\ k - 1 # k /\ k \in 0..k
          BY <2>1, <2>3
        <5>. QED BY <2>3, <4>1, <5>1
      <4>2. CASE i # k
        <5>1. i \in 0..(k - 1) /\ h[i] = g[i] /\ (i # 0 => i - 1 \in 0..k /\ i - 1 # k)
          BY <2>1, <4>2
        <5>2. g[i] = F(g, i)
          BY <3>2, <5>1
        <5>. QED BY <5>1, <5>2
      <4>. QED BY <4>1, <4>2
    <3>4. h = [i \in 0..k |-> F(h, i)]
      BY <3>3
    <3>. QED BY <2>1, <3>4
  <2>. QED BY <2>2, <2>3
<1>2. P(Len(stage))
  BY <1>0, <1>1
<1>. QED BY <1>2 DEF SkippedSteps, Silent

\* s holds the silent ones among the first k steps, each once if no action is
\* named twice.
Holds(s, k) ==
  /\ s \in Seq(Nodes)
  /\ \A n : (\E j \in 1..Len(s) : s[j] = n) <=> \E i \in 1..k : stage[i].action = n /\ Silent(i)
  /\ UniqueSteps(stage) => \A i, j \in 1..Len(s) : s[i] = s[j] => i = j

\* The search finds the silent steps, all of them and nothing else.
LEMMA SearchFinds ==
  ASSUME TypeOK, NEW r, r = SkippedSteps PROVE Holds(r, Len(stage))
<1>0. /\ Len(stage) \in Nat /\ DOMAIN stage = 1..Len(stage)
      /\ \A i \in 1..Len(stage) : stage[i].action \in Nodes
  BY StagesAssumption, LenProperties DEF TypeOK, Nodes, Node
<1>1. PICK g : /\ g = [i \in 0..Len(stage) |->
                         IF i = 0 THEN <<>>
                         ELSE IF Silent(i) THEN Append(g[i - 1], stage[i].action) ELSE g[i - 1]]
               /\ SkippedSteps = g[Len(stage)]
  BY SearchExists
<1>2. g[0] = <<>> /\ \A i \in 1..Len(stage) :
        g[i] = IF Silent(i) THEN Append(g[i - 1], stage[i].action) ELSE g[i - 1]
  <2> DEFINE none == <<>>
             F(i) == IF i = 0 THEN none
                     ELSE IF Silent(i) THEN Append(g[i - 1], stage[i].action) ELSE g[i - 1]
  <2>1. g = [i \in 0..Len(stage) |-> F(i)]
    BY <1>1
  <2> HIDE DEF none, F
  <2>2. \A i \in 0..Len(stage) : g[i] = F(i)
    BY <2>1
  <2>3. 0 \in 0..Len(stage) /\ \A i \in 1..Len(stage) : i \in 0..Len(stage) /\ i # 0
    BY <1>0
  <2>. QED BY <2>2, <2>3 DEF none, F
<1> DEFINE Bad == {k \in 0..Len(stage) : ~Holds(g[k], k)}
<1>3. ASSUME Bad # {} PROVE FALSE
  <2>0. Bad \in SUBSET Nat
    OBVIOUS
  <2>1. PICK k \in Bad : \A j \in Bad : ~(j < k)
    <3> HIDE DEF Bad
    <3>. QED BY <1>3, <2>0, LeastNumber
  <2>2. CASE k = 0
    <3>1. g[0] \in Seq(Nodes) /\ Len(g[0]) = 0
      BY <1>2, EmptySeq
    <3>2. Holds(g[0], 0)
      BY <3>1 DEF Holds
    <3>. QED BY <2>1, <2>2, <3>2
  <2>3. CASE k # 0
    <3>1. k \in 1..Len(stage) /\ k - 1 \in 0..Len(stage) /\ k - 1 < k
      BY <1>0, <2>1, <2>3
    <3>2. Holds(g[k - 1], k - 1)
      BY <2>1, <3>1
    <3> DEFINE s == g[k - 1]
    <3>3. \A i \in 1..k : i \in 1..(k - 1) \/ i = k
      BY <3>1
    <3>4. CASE Silent(k)
      <4>1. g[k] = Append(s, stage[k].action) /\ stage[k].action \in Nodes
        BY <1>0, <1>2, <3>1, <3>4
      <4> DEFINE x == stage[k].action
                 u == g[k]
      <4>2. s \in Seq(Nodes)
        BY <3>2 DEF Holds
      <4>3. /\ u \in Seq(Nodes) /\ Len(s) \in Nat /\ Len(u) = Len(s) + 1
            /\ u[Len(s) + 1] = x
            /\ \A i \in 1..Len(s) : u[i] = s[i]
        BY <4>1, <4>2, AppendProperties, LenProperties
      <4> HIDE DEF s, x, u
      <4>4. \A j \in 1..Len(u) : j \in 1..Len(s) \/ j = Len(s) + 1
        BY <4>3
      <4>5. Len(s) + 1 \in 1..Len(u) /\ \A j \in 1..Len(s) : j \in 1..Len(u)
        BY <4>3
      <4>6. \A n : (\E j \in 1..Len(u) : u[j] = n) <=> (\E j \in 1..Len(s) : s[j] = n) \/ n = x
        BY <4>3, <4>4, <4>5
      <4>7. \A n : (\E i \in 1..k : stage[i].action = n /\ Silent(i)) <=>
                     (\E i \in 1..(k - 1) : stage[i].action = n /\ Silent(i)) \/ n = x
        BY <3>1, <3>3, <3>4 DEF x
      <4>8. ASSUME UniqueSteps(stage), NEW j \in 1..Len(s), s[j] = x PROVE FALSE
        <5>1. PICK i \in 1..(k - 1) : stage[i].action = x
          BY <3>2, <4>8 DEF Holds, s
        <5>2. i \in DOMAIN stage /\ k \in DOMAIN stage /\ i # k
          BY <1>0, <3>1
        <5>. QED BY <4>8, <5>1, <5>2 DEF UniqueSteps, x
      <4>9. UniqueSteps(stage) => \A i, j \in 1..Len(s) : s[i] = s[j] => i = j
        BY <3>2 DEF Holds, s
      <4>10. UniqueSteps(stage) => \A i, j \in 1..Len(u) : u[i] = u[j] => i = j
        BY <4>3, <4>4, <4>8, <4>9
      <4>11. \A n : (\E j \in 1..Len(s) : s[j] = n) <=>
                      \E i \in 1..(k - 1) : stage[i].action = n /\ Silent(i)
        BY <3>2 DEF Holds, s
      <4>12. \A n : (\E j \in 1..Len(u) : u[j] = n) <=>
                      \E i \in 1..k : stage[i].action = n /\ Silent(i)
        BY <4>6, <4>7, <4>11
      <4>13. Holds(u, k)
        BY <4>3, <4>10, <4>12 DEF Holds
      <4>. QED BY <2>1, <4>13 DEF u
    <3>5. CASE ~Silent(k)
      <4>1. g[k] = s
        BY <1>2, <3>1, <3>5
      <4>2. \A n : (\E i \in 1..k : stage[i].action = n /\ Silent(i)) <=>
                     (\E i \in 1..(k - 1) : stage[i].action = n /\ Silent(i))
        BY <3>1, <3>3, <3>5
      <4>3. Holds(g[k], k)
        BY <3>2, <4>1, <4>2 DEF Holds
      <4>. QED BY <2>1, <4>3
    <3>. QED BY <3>4, <3>5
  <2>. QED BY <2>2, <2>3
<1>4. Holds(g[Len(stage)], Len(stage))
  <2>1. Len(stage) \in 0..Len(stage)
    BY <1>0
  <2>. QED BY <1>3, <2>1
<1>. QED BY <1>1, <1>4

\* What CollectSkipped leaves to be reported.
LEMMA TodoFound ==
  ASSUME TypeOK, CollectSkipped
  PROVE  /\ todo' \in Seq(Nodes)
         /\ \A n : InTodo(n)' <=> \E i \in 1..Len(stage) : stage[i].action = n /\ Silent(i)
         /\ UniqueSteps(stage) => \A i, j \in 1..Len(todo') : todo'[i] = todo'[j] => i = j
<1>1. PICK r : r = SkippedSteps
  OBVIOUS
<1>2. Holds(r, Len(stage))
  BY <1>1, SearchFinds
<1>3. todo' = r
  BY <1>1 DEF CollectSkipped
<1>4. \A n : InTodo(n)' <=> \E j \in 1..Len(r) : r[j] = n
  BY <1>3 DEF InTodo
<1>5. \A n : (\E j \in 1..Len(r) : r[j] = n)
               <=> \E i \in 1..Len(stage) : stage[i].action = n /\ Silent(i)
  BY <1>2 DEF Holds
<1>6. r \in Seq(Nodes)
      /\ (UniqueSteps(stage) => \A i, j \in 1..Len(r) : r[i] = r[j] => i = j)
  BY <1>2 DEF Holds
<1>. QED BY <1>3, <1>4, <1>5, <1>6

-----------------------------------------------------------------------------
(* Each step keeps the reports faithful *)

\* While the executor works on a step, the runner has not begun its own part.
LEMMA WorkIsBeforeReturn ==
  ASSUME CInv, RTypeOK
  PROVE  /\ spc = "decide" => upc = "run"
         /\ \A n \in Names : Alive(n) => upc = "run"
BY DEF CInv, VInv, IInv, RTypeOK, ControlInv, StepInv

\* A claim for a step that was never started is a skip.
LEMMA IdleClaims ==
  ASSUME CInv, NEW n \in Names, NEW s \in Status, Claimed(n, s), go[n] = "idle"
  PROVE  s = "skipped"
BY DEF CInv, SkipInv, Claimed

\* A completed step has a result.
LEMMA CompletedIsClaimed ==
  ASSUME CInv, NEW n \in completed
  PROVE  n \in Names /\ n \in Nodes /\ resultMap[n] \in Status
<1>1. n \in Nodes /\ n \in Names
  BY NodesAreNames DEF CInv, VInv, IInv, TypeOK
<1>2. PICK i \in DOMAIN results : results[i].name = n /\ resultMap[n] = results[i].status
  BY DEF CInv, VInv, ExactlyOneResult
<1>3. results[i] \in ResultRec
  BY ElementOfSeq, LenProperties DEF CInv, VInv, IInv, TypeOK
<1>. QED BY <1>1, <1>2, <1>3, RecordFields

\* What the executor's steps leave alone, in the words of the runner.
LEMMA ExecutorFrame ==
  ASSUME CInv, [Next]_vars, UNCHANGED <<cbResults, todo, upc>>
  PROVE  /\ stage' = stage /\ (cancelled => cancelled')
         /\ \A n : Told(n)' = Told(n) /\ InTodo(n)' = InTodo(n)
         /\ Consistent' = Consistent
<1>1. stage' = stage
  BY OnlyForward DEF CInv, VInv
<1>2. cancelled => cancelled'
  BY DEF Next, vars, Ended, Caller, Scheduler, Decide, Handler, Cancel,
         StepGoroutine, StepRun, BuildDAG, MainReturn, SchedulerTop, ScanReady, AllDone,
         AbandonStart, Launch, SkipFailedDep, SkipCondition, Spawn, MapFault,
         CloseChannel, HandlerRecv, HandlerLock, HandlerApply, HandlerExit,
         StepStart, StepFinish, StepCheckCtx, StepSend
<1>3. \A n : Told(n)' = Told(n) /\ InTodo(n)' = InTodo(n)
  BY DEF Told, InTodo
<1>4. Consistent' = Consistent
  BY DEF Consistent
<1>. QED BY <1>1, <1>2, <1>3, <1>4

\* The verdict, once given, stays, and nothing completes after it.
LEMMA AfterReturn ==
  ASSUME CInv, [Next]_vars, ret.kind # "none"
  PROVE  UNCHANGED <<ret, completed>>
<1>1. /\ spc = "closed" /\ hpc \in {"done", "off"}
  BY DEF CInv, VInv, IInv, ControlInv
<1>. QED
  BY <1>1 DEF Next, vars, maps, Ended, Caller, Scheduler, Decide, Handler, Cancel,
         StepGoroutine, StepRun, BuildDAG, MainReturn, SchedulerTop, ScanReady, AllDone,
         AbandonStart, Launch, SkipFailedDep, SkipCondition, Spawn, MapFault, UnsynchronisedRead,
         CloseChannel, HandlerRecv, HandlerLock, HandlerApply, HandlerExit,
         StepStart, StepFinish, StepCheckCtx, StepSend

\* Quiet steps: what was told stays, what is claimed was claimed, and a step
\* skipped behind a failure is one nothing was told of.
LEMMA QuietKeepsReports ==
  ASSUME RInv, [RNext]_rvars, QuietStep PROVE RInv'
<1>1. [Next]_vars /\ CInv /\ CInv' /\ UNCHANGED <<cbResults, todo, upc>>
  BY RunsTheExecutor, ExecutorKeepsItsInvariant DEF RInv, CInv, VInv, IInv, QuietStep
<1>2. /\ stage' = stage /\ (cancelled => cancelled')
      /\ \A n : Told(n)' = Told(n) /\ InTodo(n)' = InTodo(n)
      /\ Consistent' = Consistent
  BY <1>1, ExecutorFrame
<1>3. ret.kind # "none" => UNCHANGED <<ret, completed>>
  BY <1>1, AfterReturn
<1>4. RTypeOK'
  BY <1>1, <1>2, <1>3 DEF RInv, RTypeOK, Nodes
<1>5. NotYetTold'
  BY <1>1, <1>2, PendingBack DEF RInv, NotYetTold
<1>6. Faithful'
  <2> SUFFICES ASSUME ~cancelled', NEW n \in Names, NEW s \in Status, Claimed(n, s)'
               PROVE  Agrees(n, s)'
    BY DEF Faithful
  <2>1. CASE Claimed(n, s)
    <3>1. Agrees(n, s)
      BY <1>2, <2>1 DEF RInv, Faithful
    <3>. QED BY <1>1, <1>2, <3>1, BlockedStays DEF Agrees
  <2>2. CASE spc = "decide" /\ cur = n /\ s = "skipped" /\ HasFailedDependency(n)
    <3>1. Told(n) = "none"
      BY <1>1, <2>2, WorkIsBeforeReturn DEF RInv, NotYetTold, Pending
    <3>2. go[n] = "idle" /\ DepsOf(n) \cap failed # {}
      BY <1>1, <2>2 DEF CInv, VInv, IInv, ReadyInv, HasFailedDependency
    <3>. QED BY <1>1, <1>2, <3>1, <3>2, BlockedStays DEF Agrees
  <2>. QED BY <1>1, <2>1, <2>2, QuietClaims
<1>7. Collected'
  BY <1>1, <1>2, <1>3 DEF RInv, RTypeOK, Collected
<1>. QED BY <1>1, <1>2, <1>4, <1>5, <1>6, <1>7 DEF RInv

\* The result is what is told: no runner returns an error beside a good result.
LEMMA ToldAsRecorded ==
  ASSUME NEW n \in Names, NEW o \in Outcomes
  PROVE  CallbackStatus(n, o) = ResultStatus(n, o)
<1>1. o.status = "ok" => ~o.err
  BY RunnersAgree, RunnersAssumption DEF Outcomes, VariantError, NoVariant, Ran, Status
<1>. QED BY <1>1 DEF CallbackStatus, ResultStatus

\* A step is reported while the executor still works: n is told s, everything
\* claimed of n is s, and n is not pending any more.
LEMMA ReportKeeps ==
  ASSUME RInv, CInv', [Next]_vars, NEW n \in Names, NEW s \in Status,
         cbResults' = Append(cbResults, Result(n, s)), UNCHANGED <<todo, upc>>,
         upc = "run", Pending(n), ~Pending(n)',
         \A r \in Status : Claimed(n, r)' => r = s,
         \A m \in Names, r \in Status : m # n /\ Claimed(m, r)' => Claimed(m, r)
  PROVE  RInv'
<1>1. Told(n) = "none"
  BY DEF RInv, NotYetTold
<1>2. /\ cbResults' \in Seq(ResultRec) /\ Consistent' /\ Told(n)' = s
      /\ \A m : m # n => Told(m)' = Told(m)
  BY <1>1, TellAppends DEF RInv, RTypeOK
<1>3. stage' = stage /\ (cancelled => cancelled')
  <2>1. stage' = stage
    BY OnlyForward DEF RInv, CInv, VInv
  <2>2. cancelled => cancelled'
    BY DEF Next, vars, Ended, Caller, Scheduler, Decide, Handler, Cancel,
         StepGoroutine, StepRun, BuildDAG, MainReturn, SchedulerTop, ScanReady, AllDone,
         AbandonStart, Launch, SkipFailedDep, SkipCondition, Spawn, MapFault,
         CloseChannel, HandlerRecv, HandlerLock, HandlerApply, HandlerExit,
         StepStart, StepFinish, StepCheckCtx, StepSend
  <2>. QED BY <2>1, <2>2
<1>4. RTypeOK'
  BY <1>2, <1>3 DEF RInv, RTypeOK, Nodes
<1>5. NotYetTold'
  <2>1. \A m \in Names : Pending(m)' => m # n /\ Pending(m)
    BY PendingBack DEF RInv
  <2>. QED BY <1>2, <2>1 DEF RInv, NotYetTold
<1>6. Faithful'
  <2> SUFFICES ASSUME ~cancelled', NEW m \in Names, NEW r \in Status, Claimed(m, r)'
               PROVE  Agrees(m, r)'
    BY DEF Faithful
  <2>1. CASE m = n
    BY <1>2, <2>1 DEF Agrees
  <2>2. CASE m # n
    <3>1. Agrees(m, r)
      BY <1>3, <2>2 DEF RInv, Faithful
    <3>. QED BY <1>2, <2>2, <3>1, BlockedStays DEF Agrees, RInv
  <2>. QED BY <2>1, <2>2
<1>7. Collected'
  BY DEF Collected
<1>. QED BY <1>2, <1>4, <1>5, <1>6, <1>7 DEF RInv

\* The goroutine of a step reports the outcome of its action.
LEMMA StepRunKeepsReports ==
  ASSUME RInv, [RNext]_rvars, NEW n \in Names, RStepRun(n), Running PROVE RInv'
<1> USE DEF RInv, CInv, VInv, IInv, maps, sched, hvars
<1>1. PICK o \in Outcomes : StepFinish(n, o) /\ TellComplete(n, CallbackStatus(n, o))
  BY DEF RStepRun
<1>2. PICK s \in Status : s = ResultStatus(n, o) /\ s = CallbackStatus(n, o)
  BY OutcomeStatus, ToldAsRecorded
<1>3. /\ go[n] = "running" /\ go' = [go EXCEPT ![n] = "reported"]
      /\ res' = [res EXCEPT ![n] = Result(n, s)]
      /\ UNCHANGED <<stage, spc, cur, executing, completed, resultMap, chan, hpc, hand>>
      /\ cbResults' = Append(cbResults, Result(n, s)) /\ UNCHANGED <<todo, upc>>
  BY <1>1, <1>2 DEF StepFinish, TellComplete, RStepRun
<1>4. \A m \in Names : /\ go'[m] = IF m = n THEN "reported" ELSE go[m]
                       /\ res'[m] = IF m = n THEN Result(n, s) ELSE res[m]
  BY <1>3 DEF TypeOK
<1>5. upc = "run" /\ n \in executing /\ n \notin completed /\ (spc = "decide" => cur # n)
  BY <1>3, WorkIsBeforeReturn DEF Alive, StepInv, MapInv
<1>6. Pending(n) /\ ~Pending(n)'
  BY <1>3, <1>4, <1>5 DEF Pending
<1>7. \A r \in Status : Claimed(n, r)' => r = s
  <2>1. \A i \in 1..Len(chan) : chan[i].name # n
    BY <1>3 DEF ChanInv
  <2>2. Holding => hand.name # n
    BY <1>3 DEF HandInv
  <2>3. Result(n, s).status = s
    BY ResultsAreRecords
  <2>. QED BY <1>3, <1>4, <1>5, <2>1, <2>2, <2>3 DEF Claimed, Holding
<1>8. \A m \in Names, r \in Status : m # n /\ Claimed(m, r)' => Claimed(m, r)
  BY <1>3, <1>4 DEF Claimed, Holding
<1>9. [Next]_vars /\ CInv'
  BY RunsTheExecutor, ExecutorKeepsItsInvariant
<1> HIDE DEF RInv, CInv
<1>. QED BY <1>3, <1>5, <1>6, <1>7, <1>8, <1>9, ReportKeeps

\* The scheduler reports a step it skips because of its condition.
LEMMA SkipConditionKeepsReports ==
  ASSUME RInv, [RNext]_rvars, RSkipCondition, Running PROVE RInv'
<1> USE DEF RInv, CInv, VInv, IInv, maps, sched, hvars, gvars
<1>1. /\ spc = "decide" /\ spc' # "decide" /\ chan' = Append(chan, Result(cur, "skipped"))
      /\ UNCHANGED <<stage, executing, completed, resultMap, hpc, hand, go, res>>
      /\ cbResults' = Append(cbResults, Result(cur, "skipped")) /\ UNCHANGED <<todo, upc>>
  BY DEF RSkipCondition, SkipCondition, NextStart, TellComplete
<1>2. PICK n \in Names : n = cur
  BY <1>1, NodesAreNames DEF ReadyInv
<1>3. /\ upc = "run" /\ n \in executing /\ n \notin completed /\ go[n] = "idle"
  BY <1>1, <1>2, WorkIsBeforeReturn DEF ReadyInv, MapInv
<1>4. Pending(n) /\ ~Pending(n)'
  BY <1>1, <1>2, <1>3 DEF Pending
<1>5. /\ Result(n, "skipped") \in ResultRec /\ Result(n, "skipped").name = n
      /\ Result(n, "skipped").status = "skipped" /\ "skipped" \in Status
  BY ResultsAreRecords DEF Status
<1>6. \A r \in Status : ~Claimed(n, r)
  <2>1. \A i \in 1..Len(chan) : chan[i].name # n
    BY <1>1, <1>2 DEF ChanInv
  <2>2. Holding => hand.name # n
    BY <1>1, <1>2 DEF HandInv
  <2>. QED BY <1>3, <2>1, <2>2 DEF Claimed
<1>7. \A m \in Names, r \in Status : Claimed(m, r)' => Claimed(m, r) \/ (m = n /\ r = "skipped")
  BY <1>1, <1>2, <1>5, ClaimsAfterSend
<1>8. [Next]_vars /\ CInv'
  BY RunsTheExecutor, ExecutorKeepsItsInvariant
<1> HIDE DEF RInv, CInv
<1>. QED BY <1>1, <1>2, <1>3, <1>4, <1>5, <1>6, <1>7, <1>8, ReportKeeps

-----------------------------------------------------------------------------
(* The runner's own part *)

\* The executor is not touched by it.
LEMMA VarsFrame ==
  ASSUME CInv, UNCHANGED vars
  PROVE  /\ CInv'
         /\ UNCHANGED <<stage, completed, resultMap, ret, cancelled>> /\ Nodes' = Nodes
         /\ \A n : Pending(n)' = Pending(n)
         /\ \A n, s : Claimed(n, s)' = Claimed(n, s)
         /\ \A n : (go[n] = "idle" /\ DepsOf(n) \cap failed # {})'
                     = (go[n] = "idle" /\ DepsOf(n) \cap failed # {})
<1>1. CInv'
  BY VInvInductive, SkipPreserved, StartPreserved DEF CInv, VInv
<1>. QED BY <1>1 DEF vars, maps, sched, gvars, hvars, Pending, Claimed, Holding, DepsOf, Nodes

\* Every step of the stage has a last occurrence, whose requirements count.
LEMMA LastOccurrence ==
  ASSUME TypeOK, NEW n \in Nodes
  PROVE  \E i \in 1..Len(stage) : stage[i].action = n /\ stage[i].require = DepsOf(n)
<1> DEFINE S == {i \in Nat : Len(stage) - i \in 1..Len(stage) /\ stage[Len(stage) - i].action = n}
<1>0. Len(stage) \in Nat /\ DOMAIN stage = 1..Len(stage)
  BY StagesAssumption, LenProperties DEF TypeOK
<1>1. PICK k \in 1..Len(stage) : stage[k].action = n
  BY <1>0 DEF Nodes, Node
<1>2. S # {}
  <2>1. Len(stage) - k \in Nat /\ Len(stage) - (Len(stage) - k) = k
    BY <1>0
  <2>. QED BY <1>1, <2>1
<1>3. PICK i \in S : \A j \in S : ~(j < i)
  <2>1. S \in SUBSET Nat
    OBVIOUS
  <2> HIDE DEF S
  <2>. QED BY <1>2, <2>1, LeastNumber
<1> DEFINE l == Len(stage) - i
<1>4. l \in DOMAIN stage /\ stage[l].action = n
  BY <1>0, <1>3
<1>5. \A j \in DOMAIN stage : stage[j].action = n => j <= l
  <2> SUFFICES ASSUME NEW j \in 1..Len(stage), stage[j].action = n, ~(j <= l) PROVE FALSE
    BY <1>0
  <2>1. /\ Len(stage) - j \in Nat /\ Len(stage) - (Len(stage) - j) = j /\ Len(stage) - j < i
    BY <1>0, <1>3
  <2>. QED BY <1>3, <2>1
<1> DEFINE c == CHOOSE i1 \in DOMAIN stage : /\ stage[i1].action = n
                              /\ \A j \in DOMAIN stage : stage[j].action = n => j <= i1
<1>6. c \in DOMAIN stage /\ stage[c].action = n
  BY <1>4, <1>5
<1>7. DepsOf(n) = stage[c].require
  BY DEF DepsOf, Deps, LastStep
<1>. QED BY <1>0, <1>6, <1>7

\* What the executor kept silent is found: a step nothing was told of requires
\* a failed step, which was started, and so reported as an error.
LEMMA CollectKeepsReports ==
  ASSUME RInv, [RNext]_rvars, CollectSkipped PROVE RInv'
<1>1. /\ CInv /\ TypeOK /\ UNCHANGED vars /\ UNCHANGED cbResults /\ upc = "run" /\ upc' = "skips"
      /\ ret.kind # "none"
  BY DEF RInv, CInv, VInv, IInv, CollectSkipped, ui
<1>2. /\ CInv'
      /\ UNCHANGED <<stage, completed, resultMap, ret, cancelled>> /\ Nodes' = Nodes
      /\ \A n, s : Claimed(n, s)' = Claimed(n, s)
      /\ \A n : (go[n] = "idle" /\ DepsOf(n) \cap failed # {})'
                  = (go[n] = "idle" /\ DepsOf(n) \cap failed # {})
  BY <1>1, VarsFrame
<1>3. Consistent' = Consistent /\ \A n : Told(n)' = Told(n)
  BY <1>1 DEF Consistent, Told
<1>6. /\ todo' \in Seq(Nodes)
      /\ \A n : InTodo(n)' <=> \E i \in 1..Len(stage) : stage[i].action = n /\ Silent(i)
  BY <1>1, TodoFound
<1>7. RTypeOK'
  BY <1>1, <1>2, <1>6 DEF RInv, RTypeOK
<1>8. NotYetTold'
  BY <1>1, <1>3, <1>6 DEF NotYetTold, Silent
<1>9. Faithful'
  BY <1>2, <1>3 DEF RInv, Faithful, Agrees
<1>10. Collected'
  <2> SUFFICES ASSUME ~cancelled, NEW n \in completed, Told(n) = "none" PROVE InTodo(n)'
    BY <1>2, <1>3 DEF Collected
  <2>1. n \in Names /\ n \in Nodes /\ resultMap[n] \in Status
    BY <1>1, CompletedIsClaimed
  <2>2. PICK s \in Status : s = resultMap[n]
    BY <2>1
  <2>3. Agrees(n, s)
    BY <2>1, <2>2 DEF RInv, Faithful, Claimed
  <2>4. PICK d \in DepsOf(n) : d \in failed
    BY <2>2, <2>3 DEF Agrees, Status
  <2>5. d \in completed /\ d \in Names /\ resultMap[d] = "error" /\ "error" \in Status
    BY <1>1, <2>4, CompletedIsClaimed DEF CInv, VInv, IInv, MapInv, Status
  <2>6. Claimed(d, "error")
    BY <2>5 DEF Claimed
  <2>7. Agrees(d, "error")
    BY <2>5, <2>6 DEF RInv, Faithful
  <2>8. go[d] # "idle"
    BY <1>1, <2>5, <2>6, IdleClaims
  <2>9. Told(d) = "error"
    BY <2>7, <2>8 DEF Agrees
  <2>10. PICK i \in 1..Len(stage) : stage[i].action = n /\ stage[i].require = DepsOf(n)
    BY <1>1, <2>1, LastOccurrence
  <2>11. Silent(i)
    BY <2>4, <2>9, <2>10 DEF Silent
  <2>. QED BY <1>6, <2>10, <2>11
<1>. QED BY <1>2, <1>3, <1>7, <1>8, <1>9, <1>10 DEF RInv

\* Starting a report, and the summary, leave the reports alone.
LEMMA ControlKeepsReports ==
  ASSUME RInv, [RNext]_rvars, ReportSkippedStart \/ Summarise PROVE RInv'
<1>1. /\ CInv /\ UNCHANGED vars /\ UNCHANGED <<cbResults, todo>> /\ upc = "skips"
      /\ \/ upc' = "skipping" /\ todo # <<>>
         \/ upc' = "end" /\ todo = <<>>
  BY DEF RInv, ReportSkippedStart, Summarise, ui
<1>2. /\ CInv'
      /\ UNCHANGED <<stage, completed, resultMap, ret, cancelled>> /\ Nodes' = Nodes
      /\ \A n, s : Claimed(n, s)' = Claimed(n, s)
      /\ \A n : (go[n] = "idle" /\ DepsOf(n) \cap failed # {})'
                  = (go[n] = "idle" /\ DepsOf(n) \cap failed # {})
  BY <1>1, VarsFrame
<1>3. /\ Consistent' = Consistent
      /\ \A n : Told(n)' = Told(n) /\ InTodo(n)' = InTodo(n)
  BY <1>1 DEF Consistent, Told, InTodo
<1>4. RTypeOK'
  BY <1>1, <1>2 DEF RInv, RTypeOK
<1>5. NotYetTold' /\ Faithful' /\ Collected'
  BY <1>1, <1>2, <1>3 DEF RInv, NotYetTold, Faithful, Agrees, Collected
<1>. QED BY <1>2, <1>3, <1>4, <1>5 DEF RInv

\* What is left to report is the rest, and the first is told.
LEMMA TodoTail ==
  ASSUME RTypeOK, ReportSkippedDone, TypeOK
  PROVE  \E n \in Nodes :
           /\ InTodo(n) /\ cbResults' = Append(cbResults, Result(n, "skipped"))
           /\ Len(todo) \in Nat \ {0} /\ todo[1] = n /\ todo' \in Seq(Nodes)
           /\ Len(todo') = Len(todo) - 1 /\ \A i \in 1..Len(todo') : todo'[i] = todo[i + 1]
           /\ \A m : (InTodo(m)' => InTodo(m)) /\ (InTodo(m) => m = n \/ InTodo(m)')
<1>1. /\ todo \in Seq(Nodes) /\ todo # <<>> /\ todo' = Tail(todo)
      /\ cbResults' = Append(cbResults, Result(Head(todo), "skipped"))
  BY DEF ReportSkippedDone, TellComplete, RTypeOK
<1>2. /\ Len(todo) \in Nat \ {0} /\ Head(todo) = todo[1] /\ todo' \in Seq(Nodes)
      /\ Len(todo') = Len(todo) - 1 /\ \A i \in 1..Len(todo') : todo'[i] = todo[i + 1]
  BY <1>1, HeadTailProperties, EmptySeq
<1>3. 1 \in 1..Len(todo) /\ todo[1] \in Nodes
  BY <1>1, <1>2, ElementOfSeq
<1>4. \A m : InTodo(m)' => InTodo(m)
  <2>1. \A i \in 1..Len(todo') : i + 1 \in 1..Len(todo)
    BY <1>2
  <2>. QED BY <1>2, <2>1 DEF InTodo
<1>5. ASSUME NEW m, InTodo(m), m # todo[1] PROVE InTodo(m)'
  <2>1. PICK i \in 1..Len(todo) : todo[i] = m
    BY <1>5 DEF InTodo
  <2>2. i - 1 \in 1..Len(todo') /\ (i - 1) + 1 = i
    BY <1>2, <1>5, <2>1
  <2>3. todo'[i - 1] = m
    BY <1>2, <2>1, <2>2
  <2>. QED BY <2>2, <2>3 DEF InTodo
<1>6. PICK n \in Nodes : n = todo[1]
  BY <1>3
<1>7. InTodo(n)
  BY <1>3, <1>6 DEF InTodo
<1>. QED BY <1>1, <1>2, <1>4, <1>5, <1>6, <1>7

\* A silently skipped step is reported as skipped, which is what it was.
LEMMA DoneKeepsReports ==
  ASSUME RInv, [RNext]_rvars, ReportSkippedDone PROVE RInv'
<1>1. /\ CInv /\ TypeOK /\ UNCHANGED vars /\ upc = "skipping" /\ upc' = "skips"
  BY DEF RInv, CInv, VInv, IInv, ReportSkippedDone
<1>2. /\ CInv'
      /\ UNCHANGED <<stage, completed, resultMap, ret, cancelled>> /\ Nodes' = Nodes
      /\ \A n, s : Claimed(n, s)' = Claimed(n, s)
      /\ \A n : (go[n] = "idle" /\ DepsOf(n) \cap failed # {})'
                  = (go[n] = "idle" /\ DepsOf(n) \cap failed # {})
  BY <1>1, VarsFrame
<1>3. PICK n \in Nodes :
           /\ InTodo(n) /\ cbResults' = Append(cbResults, Result(n, "skipped"))
           /\ todo' \in Seq(Nodes)
           /\ \A m : (InTodo(m)' => InTodo(m)) /\ (InTodo(m) => m = n \/ InTodo(m)')
  BY <1>1, TodoTail DEF RInv
<1>4. n \in Names /\ "skipped" \in Status
  BY <1>1, NodesAreNames DEF Status
<1>5. Told(n) \in {"none", "skipped"}
  BY <1>1, <1>3, <1>4 DEF RInv, NotYetTold
<1>6. /\ cbResults' \in Seq(ResultRec) /\ Consistent' /\ Told(n)' = "skipped"
      /\ \A m : m # n => Told(m)' = Told(m)
  BY <1>3, <1>4, <1>5, TellAppends DEF RInv, RTypeOK
<1>7. RTypeOK'
  BY <1>1, <1>2, <1>3, <1>6 DEF RInv, RTypeOK
<1>8. NotYetTold'
  BY <1>1, <1>3, <1>6 DEF RInv, NotYetTold
<1>9. Faithful'
  <2> SUFFICES ASSUME ~cancelled, NEW m \in Names, NEW s \in Status, Claimed(m, s)
               PROVE  Agrees(m, s)'
    BY <1>2 DEF Faithful
  <2>1. Agrees(m, s)
    BY DEF RInv, Faithful
  <2>2. CASE m = n
    <3>1. s = "skipped"
      BY <1>1, <1>5, <2>1, <2>2, IdleClaims DEF Agrees, Status
    <3>. QED BY <1>6, <2>2, <3>1 DEF Agrees
  <2>3. CASE m # n
    BY <1>2, <1>6, <2>1, <2>3 DEF Agrees
  <2>. QED BY <2>2, <2>3
<1>10. Collected'
  BY <1>1, <1>2, <1>3, <1>6 DEF RInv, Collected
<1>. QED BY <1>2, <1>6, <1>7, <1>8, <1>9, <1>10 DEF RInv

-----------------------------------------------------------------------------
(* Theorems *)

LEMMA RInvInit == RInit => RInv
<1> SUFFICES ASSUME RInit PROVE RInv
  OBVIOUS
<1> USE DEF RInit, Init
<1>1. CInv
  <2>1. SkipInv /\ StartInv
    BY EmptySeq DEF SkipInv, StartInv, Holding
  <2>. QED BY <2>1, VInvInit DEF CInv
<1>2. cbResults = <<>> /\ todo = <<>> /\ Len(<<>>) = 0 /\ DOMAIN cbResults = {}
  BY EmptySeq
<1>3. RTypeOK
  BY EmptySeq DEF RTypeOK, Returned
<1>4. Consistent /\ \A n : Told(n) = "none"
  BY <1>2 DEF Consistent, Told
<1>5. NotYetTold
  BY <1>4 DEF NotYetTold
<1>6. Faithful
  <2>1. \A n \in Names, s \in Status : ~Claimed(n, s)
    BY <1>2 DEF Claimed, Holding
  <2>. QED BY <2>1 DEF Faithful
<1>7. Collected
  BY DEF Collected
<1>. QED BY <1>1, <1>3, <1>4, <1>5, <1>6, <1>7 DEF RInv

LEMMA RInvStep == RInv /\ [RNext]_rvars => RInv'
<1> SUFFICES ASSUME RInv, [RNext]_rvars PROVE RInv'
  OBVIOUS
<1>1. TypeOK
  BY DEF RInv, CInv, VInv, IInv
<1>. QED
  BY <1>1, RunSteps, QuietKeepsReports, StepRunKeepsReports, SkipConditionKeepsReports,
     CollectKeepsReports, ControlKeepsReports, DoneKeepsReports

\* Whatever the stage, the actions and the interleaving: what the user is told
\* of a finished step is the result the executor recorded for it, as long as
\* the context is not cancelled.
THEOREM ReportsMatchResults == RSpec => []ReportMatchesResult
<1>1. RInv => ReportMatchesResult
  <2> SUFFICES ASSUME RInv, ~cancelled, NEW n \in completed
               PROVE  Told(n) \in {resultMap[n]} \cup (IF go[n] = "idle" THEN {"none"} ELSE {})
    BY DEF ReportMatchesResult
  <2>1. n \in Names /\ resultMap[n] \in Status
    BY CompletedIsClaimed DEF RInv
  <2>2. PICK s \in Status : s = resultMap[n]
    BY <2>1
  <2>3. Agrees(n, s)
    BY <2>1, <2>2 DEF RInv, Faithful, Claimed
  <2>. QED BY <2>2, <2>3 DEF Agrees
<1>. QED BY <1>1, RInvInit, RInvStep, PTL DEF RSpec

-----------------------------------------------------------------------------
(* Nothing is reported twice *)

\* Nothing told, no report.
LEMMA FreshReport ==
  ASSUME cbResults \in Seq(ResultRec), Consistent, NEW n, Told(n) = "none"
  PROVE  \A i \in DOMAIN cbResults : cbResults[i].name # n
<1> SUFFICES ASSUME NEW i \in DOMAIN cbResults, cbResults[i].name = n PROVE FALSE
  OBVIOUS
<1>1. cbResults[i] \in ResultRec
  BY ElementOfSeq, LenProperties
<1>2. Told(n) = cbResults[i].status
  BY ToldIs
<1>. QED BY <1>1, <1>2, RecordFields DEF Status

\* The names in the reports are those of steps, and no name is there twice.
Named     == \A i \in DOMAIN cbResults : cbResults[i].name \in Nodes
NoRepeats == \A i, j \in DOMAIN cbResults : cbResults[i].name = cbResults[j].name => i = j

LEMMA OnceAppend ==
  ASSUME cbResults \in Seq(ResultRec), Consistent, TypeOK, stage' = stage,
         NEW n \in Nodes, NEW s \in Status, cbResults' = Append(cbResults, Result(n, s)), Named
  PROVE  Named' /\ (NoRepeats /\ Told(n) = "none" => NoRepeats')
<1>0. n \in Names
  BY NodesAreNames
<1>1. Result(n, s) \in ResultRec /\ Result(n, s).name = n
  BY <1>0, ResultsAreRecords
<1> DEFINE k == Len(cbResults)
<1>2. /\ k \in Nat /\ DOMAIN cbResults = 1..k /\ DOMAIN cbResults' = 1..(k + 1)
      /\ cbResults'[k + 1] = Result(n, s)
      /\ \A i \in 1..k : cbResults'[i] = cbResults[i]
      /\ cbResults' \in Seq(ResultRec)
  BY <1>1, AppendProperties, LenProperties
<1> HIDE DEF k
<1>3. \A i \in 1..(k + 1) : i \in 1..k \/ i = k + 1
  BY <1>2
<1>4. Named'
  BY <1>1, <1>2, <1>3 DEF Named, Nodes
<1>5. ASSUME NoRepeats, Told(n) = "none" PROVE NoRepeats'
  <2>1. \A i \in 1..k : cbResults[i].name # n
    BY <1>2, <1>5, FreshReport
  <2>. QED BY <1>1, <1>2, <1>3, <1>5, <2>1 DEF NoRepeats
<1>. QED BY <1>4, <1>5

\* Once, in these words.
LEMMA OnceIs ==
  Once <=> /\ Named
           /\ UniqueSteps(stage) =>
                /\ NoRepeats /\ \A i, j \in 1..Len(todo) : todo[i] = todo[j] => i = j
                /\ upc # "run" => \A n \in Names : InTodo(n) => Told(n) = "none"
BY DEF Once, Named, NoRepeats

\* A report made while the executor works is the first one of its step.
LEMMA OnceReport ==
  ASSUME RInv, Once, stage' = stage, NEW n \in Names, NEW s \in Status, n \in executing,
         upc = "run", Pending(n), cbResults' = Append(cbResults, Result(n, s)),
         UNCHANGED <<todo, upc>>
  PROVE  Once'
<1>1. Told(n) = "none"
  BY DEF RInv, NotYetTold
<1>2. TypeOK /\ cbResults \in Seq(ResultRec) /\ Consistent /\ n \in Nodes
  BY DEF RInv, CInv, VInv, IInv, TypeOK, RTypeOK
<1>3. Named' /\ (NoRepeats => NoRepeats')
  BY <1>1, <1>2, OnceAppend, OnceIs
<1>4. \/ ~UniqueSteps(stage')
      \/ NoRepeats' /\ \A i, j \in 1..Len(todo') : todo'[i] = todo'[j] => i = j
  BY <1>3, OnceIs
<1>. QED BY <1>3, <1>4 DEF Once, Named, NoRepeats

LEMMA OnceStep == ASSUME RInv, Once, [RNext]_rvars PROVE Once'
<1>1. /\ TypeOK /\ CInv /\ RTypeOK /\ Consistent /\ [Next]_vars /\ Nodes \subseteq Names
  BY RunsTheExecutor, NodesAreNames DEF RInv, CInv, VInv, IInv
<1>2. stage' = stage
  BY <1>1, OnlyForward DEF CInv, VInv
<1>3. CASE UNCHANGED <<cbResults, todo>> /\ (upc' = "run" <=> upc = "run")
  <2>1. \A n : Told(n)' = Told(n) /\ InTodo(n)' = InTodo(n)
    BY <1>3 DEF Told, InTodo
  <2>. QED BY <1>2, <1>3, <2>1 DEF Once, Nodes
<1>4. ASSUME NEW n \in Names, RStepRun(n) PROVE Once'
  <2>1. PICK o \in Outcomes : StepFinish(n, o) /\ TellComplete(n, CallbackStatus(n, o))
    BY <1>4 DEF RStepRun
  <2>2. PICK s \in Status : s = CallbackStatus(n, o)
    BY OutcomeStatus, ToldAsRecorded
  <2>3. /\ go[n] = "running" /\ cbResults' = Append(cbResults, Result(n, s))
        /\ UNCHANGED <<todo, upc>>
    BY <1>4, <2>1, <2>2 DEF StepFinish, TellComplete, RStepRun
  <2>4. n \in executing /\ upc = "run" /\ Pending(n)
    BY <1>1, <2>3, WorkIsBeforeReturn DEF Alive, CInv, VInv, IInv, StepInv, Pending
  <2>. QED BY <1>2, <2>3, <2>4, OnceReport
<1>5. CASE RSkipCondition
  <2>1. /\ spc = "decide" /\ cbResults' = Append(cbResults, Result(cur, "skipped"))
        /\ UNCHANGED <<todo, upc>>
    BY <1>5 DEF RSkipCondition, SkipCondition, TellComplete
  <2>2. PICK n \in Names : n = cur
    BY <1>1, <2>1 DEF CInv, VInv, IInv, ReadyInv
  <2>3. n \in executing /\ upc = "run" /\ Pending(n)
    BY <1>1, <2>1, <2>2, WorkIsBeforeReturn DEF CInv, VInv, IInv, ReadyInv, Pending
  <2>. QED BY <1>2, <2>1, <2>2, <2>3, OnceReport DEF Status
<1>6. CASE CollectSkipped
  <2>1. UNCHANGED cbResults
    BY <1>6 DEF CollectSkipped, ui
  <2>2. /\ \A n : InTodo(n)' <=> \E i \in 1..Len(stage) : stage[i].action = n /\ Silent(i)
        /\ UniqueSteps(stage) => \A i, j \in 1..Len(todo') : todo'[i] = todo'[j] => i = j
    BY <1>1, <1>6, TodoFound
  <2>3. \A n : Told(n)' = Told(n)
    BY <2>1 DEF Told
  <2>4. \A n : InTodo(n)' => Told(n) = "none"
    BY <2>2 DEF Silent
  <2>. QED BY <1>2, <2>1, <2>2, <2>3, <2>4 DEF Once, Nodes
<1>7. CASE ReportSkippedDone
  <2>1. PICK n \in Nodes :
           /\ InTodo(n) /\ cbResults' = Append(cbResults, Result(n, "skipped"))
           /\ Len(todo) \in Nat \ {0} /\ todo[1] = n
           /\ Len(todo') = Len(todo) - 1 /\ \A i \in 1..Len(todo') : todo'[i] = todo[i + 1]
           /\ \A m : InTodo(m)' => InTodo(m)
    BY <1>1, <1>7, TodoTail
  <2>2. n \in Names /\ "skipped" \in Status /\ upc # "run" /\ Named
    BY <1>1, <1>7, OnceIs DEF ReportSkippedDone, Status
  <2>3. Named' /\ (NoRepeats /\ Told(n) = "none" => NoRepeats')
    BY <1>1, <1>2, <2>1, <2>2, OnceAppend DEF RTypeOK
  <2>4. ASSUME UniqueSteps(stage)
        PROVE  /\ NoRepeats' /\ \A i, j \in 1..Len(todo') : todo'[i] = todo'[j] => i = j
               /\ \A m \in Names : InTodo(m)' => Told(m)' = "none"
    <3>1. /\ NoRepeats /\ \A i, j \in 1..Len(todo) : todo[i] = todo[j] => i = j
          /\ \A m \in Names : InTodo(m) => Told(m) = "none"
      BY <2>2, <2>4, OnceIs
    <3>2. Told(n) = "none"
      BY <2>1, <2>2, <3>1
    <3>3. \A i \in 1..Len(todo') : i + 1 \in 1..Len(todo) /\ i + 1 # 1 /\ 1 \in 1..Len(todo)
      BY <2>1
    <3>4. \A i, j \in 1..Len(todo') : todo'[i] = todo'[j] => i = j
      <4> SUFFICES ASSUME NEW i \in 1..Len(todo'), NEW j \in 1..Len(todo'), todo'[i] = todo'[j]
                   PROVE  i = j
        OBVIOUS
      <4>1. i + 1 = j + 1
        BY <2>1, <3>1, <3>3
      <4>. QED BY <4>1
    <3>5. ~InTodo(n)'
      BY <2>1, <3>1, <3>3 DEF InTodo
    <3>6. \A m : m # n => Told(m)' = Told(m)
      BY <1>1, <2>1, <2>2, <3>2, TellAppends DEF RTypeOK
    <3>. QED BY <2>1, <2>3, <3>1, <3>2, <3>4, <3>5, <3>6
  <2>. QED BY <1>2, <2>3, <2>4 DEF Once, Named, NoRepeats
<1>8. CASE ReportSkippedStart \/ Summarise
  BY <1>3, <1>8 DEF ReportSkippedStart, Summarise, ui
<1>9. CASE QuietStep
  BY <1>3, <1>9 DEF QuietStep
<1>. QED BY <1>1, <1>4, <1>5, <1>6, <1>7, <1>8, <1>9, RunSteps

-----------------------------------------------------------------------------
(* The summary *)

\* After the summary nothing happens any more.
LEMMA AfterEnd ==
  ASSUME RInv, [RNext]_rvars, upc = "end"
  PROVE  UNCHANGED <<vars, cbResults, todo, upc, summary>>
<1>1. \A n \in Names : ~Alive(n)
  BY WorkIsBeforeReturn DEF RInv
<1>2. Nodes \subseteq Names
  BY NodesAreNames DEF RInv, CInv, VInv, IInv
<1>3. ASSUME NEW n \in Nodes PROVE ~RStep(n) /\ ~DeliverLine(n)
  BY <1>1, <1>2, <1>3
     DEF RStep, RStepStart, RStepRun, Quietly, StepStart, StepFinish, StepCheckCtx, StepSend,
         Alive, DeliverLine
<1>. QED BY <1>3 DEF RNext, REnded, rvars, uvars, ui

\* Only Summarise writes the summary.
LEMMA SummaryFrame ==
  ASSUME TypeOK, [RNext]_rvars PROVE UNCHANGED summary \/ Summarise
BY DEF RNext, rvars, uvars, ui, REnded, RCaller, RScheduler, RDecide, RHandler, RStep, Quietly,
       RStepStart, RStepRun, RSkipCondition, DeliverLine, CollectSkipped, ReportSkippedStart,
       ReportSkippedDone

\* The step an error names has a result.
LEMMA NamedStep ==
  ASSUME CInv, [Next]_vars, ret.kind = "step" => ret.name \in completed
  PROVE  (ret.kind = "step" => ret.name \in completed)'
<1>1. CASE MainReturn
  <2>1. completed' = completed
    BY <1>1 DEF MainReturn, maps
  <2>2. \A i \in DOMAIN results : results[i].name \in completed
    BY DEF CInv, VInv, ExactlyOneResult
  <2>. QED BY <1>1, <2>1, <2>2 DEF MainReturn, Returned
<1>2. CASE BuildDAG
  BY <1>2 DEF BuildDAG, Returned, maps
<1>3. CASE UNCHANGED ret /\ completed \subseteq completed'
  BY <1>3
<1>. QED
  BY <1>1, <1>2, <1>3
     DEF Next, vars, maps, Ended, Caller, Scheduler, Decide, Handler, Cancel,
         StepGoroutine, StepRun, SchedulerTop, ScanReady, AllDone,
         AbandonStart, Launch, SkipFailedDep, SkipCondition, Spawn, MapFault,
         CloseChannel, HandlerRecv, HandlerLock, HandlerApply, HandlerExit,
         StepStart, StepFinish, StepCheckCtx, StepSend

LEMMA SummedStep == ASSUME RInv, Summed, [RNext]_rvars PROVE Summed'
<1>1. TypeOK /\ CInv /\ [Next]_vars
  BY RunsTheExecutor DEF RInv, CInv, VInv, IInv
<1>2. (ret.kind = "step" => ret.name \in completed)'
  BY <1>1, NamedStep DEF Summed
<1>3. CASE upc = "end"
  <2>1. UNCHANGED <<vars, cbResults, todo, upc, summary>>
    BY <1>3, AfterEnd
  <2>2. StatusCounts' = StatusCounts /\ UNCHANGED <<ret, cancelled, upc, summary>>
    BY <2>1 DEF StatusCounts, vars
  <2>. QED BY <1>2, <2>2 DEF Summed
<1>4. CASE Summarise
  <2>1. /\ upc' = "end" /\ UNCHANGED <<ret, cancelled>> /\ StatusCounts' = StatusCounts
    BY <1>4 DEF Summarise, ui, vars, StatusCounts
  <2>2. CASE cancelled
    <3>1. summary'.line = "TERMINATED"
      BY <1>4, <2>2 DEF Summarise, PrintTerminatedSummary
    <3>. QED BY <1>2, <2>1, <3>1 DEF Summed
  <2>3. CASE ~cancelled
    <3>1. /\ summary'.counts = StatusCounts
          /\ summary'.line = IF ret.kind = "nil" THEN "SUCCESS" ELSE "FAILED"
      BY <1>4, <2>3 DEF Summarise, PrintSummary
    <3>. QED BY <1>2, <2>1, <2>3, <3>1 DEF Summed
  <2>. QED BY <2>2, <2>3
<1>5. CASE upc # "end" /\ UNCHANGED summary
  BY <1>2, <1>5 DEF Summed
<1>. QED BY <1>1, <1>3, <1>4, <1>5, SummaryFrame

LEMMA SInvInit == RInit => SInv
<1> SUFFICES ASSUME RInit PROVE SInv
  OBVIOUS
<1>1. DOMAIN cbResults = {} /\ Len(todo) = 0 /\ upc = "run"
  BY EmptySeq DEF RInit
<1>2. Once
  BY <1>1 DEF Once
<1>3. Summed
  BY DEF RInit, Init, Returned, NoSummary, Summed
<1>. QED BY <1>2, <1>3, RInvInit DEF SInv

LEMMA SInvStep == SInv /\ [RNext]_rvars => SInv'
BY RInvStep, OnceStep, SummedStep DEF SInv

LEMMA SInvariance == RSpec => []SInv
BY SInvInit, SInvStep, PTL DEF RSpec

\* At the end of a run that nobody cancelled everything has been told.
LEMMA AllTold ==
  ASSUME SInv, upc = "end", ~cancelled, ret.kind # "dag"
  PROVE  /\ completed = Nodes /\ ret.kind \in {"nil", "step"}
         /\ \A n \in Nodes : Told(n) = resultMap[n] /\ Told(n) \in Status
<1> USE DEF SInv, RInv
<1>1. completed = Nodes /\ ret.kind \in {"nil", "step"}
  <2>1. ret.kind \in {"none", "nil", "step", "ctx", "dag"} /\ ret.kind # "none"
    BY DEF CInv, VInv, IInv, TypeOK, RTypeOK
  <2>. QED BY <2>1 DEF CInv, VInv, VerdictSound
<1>2. ASSUME NEW n \in Nodes PROVE Told(n) = resultMap[n] /\ Told(n) \in Status
  <2>1. n \in Names /\ resultMap[n] \in Status /\ n \in completed
    BY <1>1, CompletedIsClaimed
  <2>2. PICK s \in Status : s = resultMap[n]
    BY <2>1
  <2>3. Agrees(n, s)
    BY <2>1, <2>2 DEF Faithful, Claimed
  <2>4. todo = <<>> /\ Len(<<>>) = 0
    BY EmptySeq DEF RTypeOK
  <2>5. Told(n) # "none"
    BY <2>1, <2>4 DEF Collected, InTodo
  <2>. QED BY <2>2, <2>3, <2>5 DEF Agrees
<1>. QED BY <1>1, <1>2

\* In a stage without repetition the reports and the steps correspond.
LEMMA CountsAreSteps ==
  ASSUME SInv, UniqueSteps(stage), \A n \in Nodes : Told(n) \in Status
  PROVE  /\ Len(cbResults) = Cardinality(Nodes)
         /\ \A s \in Status : StatusCounts[s] = Cardinality({n \in Nodes : Told(n) = s})
<1>1. /\ cbResults \in Seq(ResultRec) /\ Consistent /\ Named /\ NoRepeats
  BY OnceIs DEF SInv, RInv, RTypeOK
<1>2. Len(cbResults) \in Nat /\ DOMAIN cbResults = 1..Len(cbResults)
  BY <1>1, LenProperties
<1>3. \A i \in DOMAIN cbResults : /\ cbResults[i].name \in Nodes
                                  /\ Told(cbResults[i].name) = cbResults[i].status
  BY <1>1, ToldIs DEF Named
<1>4. \A n \in Nodes : \E i \in DOMAIN cbResults : cbResults[i].name = n
  BY ToldNone DEF Status
<1>5. IsFiniteSet(Nodes)
  BY NodesAreNames, NamesAssumption, FS_Subset DEF SInv, RInv, CInv, VInv, IInv
<1>6. ASSUME NEW A \in SUBSET DOMAIN cbResults, NEW B \in SUBSET Nodes,
             \A i \in DOMAIN cbResults : i \in A <=> cbResults[i].name \in B
      PROVE  Cardinality(A) = Cardinality(B)
  <2> DEFINE f == [i \in A |-> cbResults[i].name]
  <2>1. f \in [A -> B]
    BY <1>3, <1>6
  <2>2. \A i, j \in A : f[i] = f[j] => i = j
    BY <1>1, <1>6 DEF NoRepeats
  <2>3. \A n \in B : \E i \in A : f[i] = n
    BY <1>4, <1>6
  <2> HIDE DEF f
  <2>4. f \in Bijection(A, B)
    BY <2>1, <2>2, <2>3, Fun_IsBij
  <2>5. ExistsBijection(A, B)
    BY <2>4 DEF ExistsBijection
  <2>6. IsFiniteSet(A)
    <3>1. 1 \in Int /\ Len(cbResults) \in Int
      BY <1>2
    <3>2. IsFiniteSet(1..Len(cbResults))
      BY <3>1, FS_Interval
    <3>. QED BY <1>2, <3>2, FS_Subset
  <2>. QED BY <2>5, <2>6, FS_Bijection
<1>7. Len(cbResults) = Cardinality(Nodes)
  <2>1. Cardinality(DOMAIN cbResults) = Cardinality(Nodes)
    BY <1>3, <1>6
  <2>2. Cardinality(1..Len(cbResults)) = Len(cbResults)
    <3>1. 1 \in Int /\ Len(cbResults) \in Int
      BY <1>2
    <3>2. Cardinality(1..Len(cbResults)) = IF 1 > Len(cbResults) THEN 0
                                           ELSE Len(cbResults) - 1 + 1
      BY <3>1, FS_Interval
    <3>. QED BY <1>2, <3>2
  <2>. QED BY <1>2, <2>1, <2>2
<1>8. ASSUME NEW s \in Status
      PROVE  StatusCounts[s] = Cardinality({n \in Nodes : Told(n) = s})
  <2> DEFINE A == {i \in DOMAIN cbResults : cbResults[i].status = s}
             B == {n \in Nodes : Told(n) = s}
  <2>1. \A i \in DOMAIN cbResults : i \in A <=> cbResults[i].name \in B
    BY <1>3
  <2>2. A \in SUBSET DOMAIN cbResults /\ B \in SUBSET Nodes
    OBVIOUS
  <2>3. StatusCounts[s] = Cardinality(A)
    BY DEF StatusCounts
  <2> HIDE DEF A, B
  <2>4. StatusCounts[s] = Cardinality(B)
    BY <1>6, <2>1, <2>2, <2>3
  <2>. QED BY <2>4 DEF B
<1>. QED BY <1>7, <1>8

\* For stages that name each action once, the summary says what was reported:
\* SUCCESS exactly if every reported error is forgiven, and its counts are the
\* numbers of steps, each counted once and none left out.
THEOREM SummaryIsTrue ==
  ASSUME \A st \in Stages : UniqueSteps(st) PROVE RSpec => []SummaryMatchesReports
<1>1. SInv => SummaryMatchesReports
  <2> SUFFICES ASSUME SInv, summary.line \in {"SUCCESS", "FAILED"}, ret.kind # "dag"
               PROVE  /\ (\E n \in Nodes : Told(n) = "error" /\ ~Waived(stage, n))
                           <=> summary.line = "FAILED"
                      /\ \A s \in Status :
                           summary.counts[s] = Cardinality({n \in Nodes : Told(n) = s})
                      /\ \A n \in Nodes : Told(n) # "none"
    BY DEF SummaryMatchesReports
  <2>1. /\ upc = "end" /\ ~cancelled /\ summary.counts = StatusCounts
        /\ (summary.line = "SUCCESS" <=> ret.kind = "nil")
        /\ (ret.kind = "step" => ret.name \in completed)
    BY DEF SInv, Summed
  <2>2. /\ completed = Nodes /\ ret.kind \in {"nil", "step"}
        /\ \A n \in Nodes : Told(n) = resultMap[n] /\ Told(n) \in Status
    BY <2>1, AllTold
  <2>3. UniqueSteps(stage)
    BY DEF SInv, RInv, CInv, VInv, IInv, TypeOK
  <2>4. \A s \in Status : summary.counts[s] = Cardinality({n \in Nodes : Told(n) = s})
    BY <2>1, <2>2, <2>3, CountsAreSteps
  <2>5. (\E n \in Nodes : resultMap[n] = "error" /\ ~Waived(stage, n)) <=> ret.kind = "step"
    BY <2>1, <2>2 DEF SInv, RInv, CInv, VInv, VerdictSound
  <2>6. (\E n \in Nodes : Told(n) = "error" /\ ~Waived(stage, n)) <=> ret.kind = "step"
    BY <2>2, <2>5
  <2>. QED BY <2>1, <2>2, <2>4, <2>6 DEF Status
<1>. QED BY <1>1, SInvariance, PTL
-----------------------------------------------------------------------------
(* The manager of a stage run is told what the executor does *)

LEMMA StageFits == ASSUME TypeOK PROVE IsStage(stage) /\ Nodes = Node(stage)
<1>1. stage \in Seq(Step(Names))
  BY StagesAssumption DEF TypeOK
<1>2. /\ Len(stage) \in Nat /\ DOMAIN stage = 1..Len(stage)
      /\ stage = [i \in 1..Len(stage) |-> stage[i]]
  BY <1>1, LenProperties
<1>3. stage \in Seq({stage[i] : i \in DOMAIN stage})
  <2> DEFINE T == {stage[i] : i \in DOMAIN stage}
  <2>1. \A i \in 1..Len(stage) : stage[i] \in T
    BY <1>2
  <2> HIDE DEF T
  <2>2. stage \in Seq(T)
    BY <1>2, <2>1
  <2>. QED BY <2>2 DEF T
<1>4. Nodes \subseteq Names
  BY NodesAreNames
<1>. QED BY <1>3, <1>4, NamesAssumption, EmptyName DEF IsStage, Nodes

\* What the lemmas about the manager ask for.
LEMMA KnownFacts ==
  ASSUME TypeOK, ManagerKnows
  PROVE  /\ IsStage(stage) /\ om \in Manager(stage) /\ HasStatus(stage, om)
         /\ lines \in [Node(stage) -> Nat] /\ late \in [Node(stage) -> Nat]
         /\ ManagerInv(stage, om, lines, late) /\ Released(stage, om)
<1>1. IsStage(stage) /\ Nodes = Node(stage)
  BY StageFits
<1>2. \A n \in Nodes : om.data[n] \in StepData
  BY <1>1, ManagerFields DEF ManagerKnows
<1>3. HasStatus(stage, om)
  BY <1>1, <1>2 DEF ManagerKnows, HasStatus, StepData
<1>. QED BY <1>1, <1>3 DEF ManagerKnows

\* A start, told of a step nothing was told of.
LEMMA StartKnown ==
  ASSUME TypeOK, ManagerKnows, NEW n \in Nodes, ~om.data[n].started, Told(n) = "none",
         om' = OnStepStart(stage, om, n), UNCHANGED <<stage, cbResults, lines, late>>
  PROVE  /\ ManagerKnows'
         /\ \A k \in Nodes : om'.data[k].started <=> k = n \/ om.data[k].started
<1>1. PICK r : r = om'
  OBVIOUS
<1>2. Nodes = Node(stage) /\ Nodes' = Nodes /\ \A k : Told(k)' = Told(k)
  BY StageFits DEF Told, Nodes
<1>3. ~om.data[n].completed /\ lines[n] = 0 /\ r = OnStepStart(stage, om, n)
  BY <1>1 DEF ManagerKnows
<1>4. AfterStart(stage, om, n, lines, late, r)
  BY <1>2, <1>3, KnownFacts, OnStartKeeps
<1>5. \A k \in Nodes : /\ r.data[k].completed = om.data[k].completed
                       /\ r.data[k].status = om.data[k].status
                       /\ IF k = n THEN r.data[k].started
                          ELSE r.data[k].started = om.data[k].started
  BY <1>2, <1>4 DEF AfterStart
<1>6. r \in Manager(stage) /\ ManagerInv(stage, r, lines, late) /\ Released(stage, r)
  BY <1>4 DEF AfterStart
<1>7. \A k \in Nodes :
       /\ r.data[k].completed <=> Told(k) # "none"
       /\ r.data[k].status = Told(k)
       /\ ~r.data[k].started => lines[k] = 0
       /\ late[k] <= lines[k] /\ (Told(k) = "none" => late[k] = 0)
  BY <1>3, <1>5 DEF ManagerKnows
<1>8. om' \in Manager(stage') /\ ManagerInv(stage', om', lines', late') /\ Released(stage', om')
  BY <1>1, <1>6
<1>9. ManagerKnows'
  BY <1>1, <1>2, <1>7, <1>8 DEF ManagerKnows
<1>. QED BY <1>1, <1>5, <1>9

\* A result, told of a step nothing was told of.
LEMMA CompleteKnown ==
  ASSUME TypeOK, ManagerKnows, Consistent, cbResults \in Seq(ResultRec),
         NEW n \in Nodes, NEW s \in Status, Told(n) = "none", TellComplete(n, s),
         UNCHANGED <<stage, lines, late>>
  PROVE  /\ ManagerKnows'
         /\ \A k \in Nodes : om'.data[k].started = om.data[k].started
         /\ Told(n)' = s /\ \A k : k # n => Told(k)' = Told(k)
<1>1. PICK r : r = om'
  OBVIOUS
<1>2. Nodes = Node(stage) /\ Nodes' = Nodes /\ n \in Names
  BY StageFits, NodesAreNames DEF Nodes
<1>3. /\ cbResults' = Append(cbResults, Result(n, s)) /\ r = OnStepComplete(stage, om, n, s)
  BY <1>1 DEF TellComplete
<1>4. Told(n)' = s /\ \A k : k # n => Told(k)' = Told(k)
  BY <1>2, <1>3, TellAppends
<1>5. ~om.data[n].completed /\ s \in Statuses /\ s # "none"
  BY DEF ManagerKnows, Status, Statuses
<1>6. AfterComplete(stage, om, n, s, lines, late, r)
  BY <1>2, <1>3, <1>5, KnownFacts, OnCompleteKeeps
<1>7. \A k \in Nodes : /\ r.data[k].started = om.data[k].started
                       /\ IF k = n THEN r.data[k].completed
                          ELSE r.data[k].completed = om.data[k].completed
                       /\ r.data[k].status = IF k = n THEN s ELSE om.data[k].status
  BY <1>2, <1>6 DEF AfterComplete
<1>8. r \in Manager(stage) /\ ManagerInv(stage, r, lines, late) /\ Released(stage, r)
  BY <1>6 DEF AfterComplete
<1>9. ASSUME NEW k \in Nodes
      PROVE  /\ r.data[k].completed <=> Told(k)' # "none"
             /\ r.data[k].status = Told(k)'
             /\ ~r.data[k].started => lines[k] = 0
             /\ late[k] <= lines[k] /\ (Told(k)' = "none" => late[k] = 0)
  <2>1. CASE k = n
    BY <1>4, <1>5, <1>7, <2>1 DEF ManagerKnows
  <2>2. CASE k # n
    BY <1>4, <1>7, <2>2 DEF ManagerKnows
  <2>. QED BY <2>1, <2>2
<1>10. om' \in Manager(stage') /\ ManagerInv(stage', om', lines', late') /\ Released(stage', om')
  BY <1>1, <1>8
<1>11. ManagerKnows'
  BY <1>1, <1>2, <1>9, <1>10 DEF ManagerKnows
<1>. QED BY <1>1, <1>4, <1>7, <1>11

\* A line, delivered for a step that was begun.
LEMMA LineKnown ==
  ASSUME TypeOK, ManagerKnows, NEW n \in Nodes, om.data[n].started, DeliverLine(n)
  PROVE  /\ ManagerKnows'
         /\ \A k \in Nodes : om'.data[k].started = om.data[k].started
<1>1. PICK r, U, V : r = om' /\ U = lines' /\ V = late'
  OBVIOUS
<1>2. /\ stage' = stage /\ UNCHANGED cbResults
      /\ r = OnStepOutput(om, n, lines[n] + 1)
      /\ U = [lines EXCEPT ![n] = lines[n] + 1]
      /\ V = [late EXCEPT ![n] = IF Told(n) = "none" THEN late[n] ELSE late[n] + 1]
  BY <1>1 DEF DeliverLine, vars
<1>3. Nodes = Node(stage) /\ Nodes' = Nodes /\ \A k : Told(k)' = Told(k)
  BY <1>2, StageFits DEF Told, Nodes
<1>4. /\ lines \in [Nodes -> Nat] /\ late \in [Nodes -> Nat]
      /\ late[n] <= lines[n] /\ (~om.data[n].completed => late[n] = 0)
      /\ (om.data[n].completed <=> Told(n) # "none")
  BY DEF ManagerKnows
<1>5. /\ U \in [Nodes -> Nat] /\ V \in [Nodes -> Nat] /\ U[n] = lines[n] + 1
      /\ V[n] = IF om.data[n].completed THEN late[n] + 1 ELSE late[n]
      /\ \A k \in Nodes : k # n => U[k] = lines[k] /\ V[k] = late[k]
  BY <1>2, <1>4
<1>6. AfterOutput(stage, om, U, V, r)
  <2>1. OneMore(stage, om, n, lines, late, U, V)
    BY <1>3, <1>5 DEF OneMore
  <2>. QED BY <1>2, <1>3, <1>4, <1>5, <2>1, KnownFacts, OnOutputKeeps
<1>7. \A k \in Nodes : /\ r.data[k].completed = om.data[k].completed
                       /\ r.data[k].status = om.data[k].status
                       /\ r.data[k].started = om.data[k].started
  BY <1>3, <1>6 DEF AfterOutput
<1>8. r \in Manager(stage) /\ ManagerInv(stage, r, U, V) /\ Released(stage, r)
  BY <1>6 DEF AfterOutput
<1>9. ASSUME NEW k \in Nodes
      PROVE  /\ r.data[k].completed <=> Told(k) # "none"
             /\ r.data[k].status = Told(k)
             /\ ~r.data[k].started => U[k] = 0
             /\ V[k] <= U[k] /\ (Told(k) = "none" => V[k] = 0)
  <2>1. CASE k = n
    BY <1>4, <1>5, <1>7, <2>1 DEF ManagerKnows
  <2>2. CASE k # n
    BY <1>5, <1>7, <2>2 DEF ManagerKnows
  <2>. QED BY <2>1, <2>2
<1>10. om' \in Manager(stage') /\ ManagerInv(stage', om', lines', late') /\ Released(stage', om')
  BY <1>1, <1>2, <1>8
<1>11. ManagerKnows'
  BY <1>1, <1>3, <1>5, <1>9, <1>10 DEF ManagerKnows
<1>. QED BY <1>1, <1>7, <1>11
\* A step the manager and the reports do not hear of.
Unheard ==
  /\ UNCHANGED <<stage, om, cbResults, lines, late, todo>>
  /\ upc' = upc \/ (upc = "skips" /\ upc' = "end")
  /\ \A k \in Names :
       /\ go'[k] \in {"idle", "spawned"} <=> go[k] \in {"idle", "spawned"}
       /\ go'[k] \in {"reported", "checked", "sent"} => go[k] \in {"reported", "checked", "sent"}

LEMMA HeardSteps ==
  ASSUME CInv, [RNext]_rvars
  PROVE  \/ Unheard
         \/ \E n \in Nodes : RStepStart(n) \/ RStepRun(n) \/ DeliverLine(n)
         \/ RSkipCondition \/ CollectSkipped \/ ReportSkippedStart \/ ReportSkippedDone
<1> USE DEF Quietly, uvars, ui
<1>0. /\ TypeOK /\ Nodes \subseteq Names /\ [Next]_vars /\ stage' = stage
  BY NodesAreNames, RunsTheExecutor, OnlyForward DEF CInv, VInv, IInv
<1>1. CASE UNCHANGED uvars /\ UNCHANGED go
  BY <1>0, <1>1 DEF Unheard
<1>2. CASE Quietly(Spawn)
  <2>1. /\ go' = [go EXCEPT ![cur] = "spawned"] /\ cur \in Names /\ go[cur] = "idle"
        /\ go \in [Names -> StepStates]
    BY <1>0, <1>2 DEF Spawn, CInv, VInv, IInv, ReadyInv, TypeOK
  <2>. QED BY <1>0, <1>2, <2>1 DEF Unheard
<1>3. ASSUME NEW n \in Nodes, Quietly(StepCheckCtx(n)) \/ Quietly(StepSend(n)) PROVE Unheard
  <2>1. PICK t \in {"checked", "sent"} : go' = [go EXCEPT ![n] = t]
    BY <1>3 DEF StepCheckCtx, StepSend
  <2>2. go[n] \in {"reported", "checked"} /\ go \in [Names -> StepStates] /\ n \in Names
    BY <1>0, <1>3 DEF StepCheckCtx, StepSend, TypeOK
  <2>. QED BY <1>0, <1>3, <2>1, <2>2 DEF Unheard
<1>4. CASE Summarise
  <2>1. UNCHANGED go
    BY <1>4 DEF Summarise, vars, gvars
  <2>. QED BY <1>0, <1>4, <2>1 DEF Summarise, Unheard
<1>5. CASE UNCHANGED rvars \/ REnded
  BY <1>1, <1>5 DEF REnded, rvars, vars, gvars
<1>6. CASE RScheduler
  <2>1. CASE \/ Quietly(SchedulerTop) \/ Quietly(ScanReady) \/ Quietly(AllDone)
             \/ Quietly(AbandonStart) \/ Quietly(Launch) \/ Quietly(SkipFailedDep)
             \/ Quietly(MapFault) \/ Quietly(CloseChannel)
    BY <1>1, <2>1 DEF SchedulerTop, ScanReady, AllDone, AbandonStart, Launch, SkipFailedDep,
                      MapFault, CloseChannel, gvars
  <2>. QED BY <1>2, <1>6, <2>1 DEF RScheduler, RDecide
<1>7. CASE RHandler \/ Quietly(Cancel) \/ Quietly(Caller)
  BY <1>1, <1>7 DEF RHandler, Handler, HandlerRecv, HandlerLock, HandlerApply, HandlerExit,
                    Cancel, Caller, BuildDAG, MainReturn, gvars
<1>8. CASE RCaller
  BY <1>4, <1>7, <1>8 DEF RCaller
<1>9. ASSUME NEW n \in Nodes, RStep(n) PROVE RStepStart(n) \/ RStepRun(n) \/ Unheard
  BY <1>3, <1>9 DEF RStep
<1>. QED BY <1>5, <1>6, <1>7, <1>8, <1>9 DEF RNext

\* The step that is reported next is one nothing was told of.
LEMMA NextReport ==
  ASSUME SInv, UniqueSteps(stage), StartsKnown, upc = "skipping" \/ (upc = "skips" /\ todo # <<>>)
  PROVE  \E n \in Nodes :
           /\ n = Head(todo) /\ n = todo[1] /\ InTodo(n) /\ Told(n) = "none"
           /\ go[n] \in {"idle", "spawned"}
<1>1. TypeOK /\ RTypeOK /\ todo \in Seq(Nodes) /\ todo # <<>> /\ CInv /\ Nodes \subseteq Names
  BY NodesAreNames DEF SInv, RInv, CInv, VInv, IInv, RTypeOK
<1>2. PICK n \in Nodes : n = Head(todo) /\ n = todo[1] /\ Len(todo) \in Nat \ {0}
  BY <1>1, HeadTailProperties, EmptySeq, ElementOfSeq, LenProperties
<1>3. InTodo(n)
  BY <1>2 DEF InTodo
<1>4. Told(n) = "none" /\ n \in Names
  BY <1>1, <1>2, <1>3 DEF SInv, Once
<1>5. ~Alive(n)
  BY <1>1, <1>4, WorkIsBeforeReturn
<1>6. go[n] \in StepStates
  BY <1>1, <1>4 DEF TypeOK
<1>7. go[n] \in {"idle", "spawned"}
  BY <1>4, <1>5, <1>6 DEF StartsKnown, Alive, StepStates
<1>. QED BY <1>2, <1>3, <1>4, <1>7

\* A step the executor begins is new to the manager.
LEMMA BeginIsNew ==
  ASSUME SInv, StartsKnown, NEW n \in Nodes, go[n] = "spawned" \/ (spc = "decide" /\ cur = n)
  PROVE  upc = "run" /\ Told(n) = "none" /\ ~om.data[n].started /\ go[n] \in {"idle", "spawned"}
<1>1. CInv /\ RTypeOK /\ n \in Names
  BY NodesAreNames DEF SInv, RInv, CInv, VInv, IInv
<1>2. upc = "run"
  BY <1>1, WorkIsBeforeReturn DEF Alive
<1>3. Told(n) = "none"
  BY <1>1, <1>2 DEF SInv, RInv, NotYetTold, Pending
<1>4. go[n] \in {"idle", "spawned"}
  BY <1>1 DEF CInv, VInv, IInv, ReadyInv
<1>. QED BY <1>2, <1>3, <1>4 DEF StartsKnown

\* A running step was begun, and nothing was told of it.
LEMMA RunningIsBegun ==
  ASSUME SInv, StartsKnown, NEW n \in Nodes, go[n] = "running"
  PROVE  upc = "run" /\ Told(n) = "none" /\ om.data[n].started
<1>1. CInv /\ RTypeOK /\ n \in Names
  BY NodesAreNames DEF SInv, RInv, CInv, VInv, IInv
<1>2. upc = "run"
  BY <1>1, WorkIsBeforeReturn DEF Alive
<1>. QED BY <1>1, <1>2 DEF SInv, RInv, NotYetTold, Pending, StartsKnown
\* The manager keeps up with every step of the run.
Tracks == UniqueSteps(stage) /\ ManagerKnows /\ StartsKnown

LEMMA UnheardTracks == ASSUME SInv, Tracks, Unheard PROVE Tracks'
<1>1. Nodes' = Nodes /\ Nodes \subseteq Names /\ \A k : Told(k)' = Told(k) /\ InTodo(k)' = InTodo(k)
  BY NodesAreNames DEF Unheard, Nodes, Told, InTodo, SInv, RInv, CInv, VInv, IInv
<1>2. ManagerKnows'
  <2>1. UNCHANGED <<stage, om, lines, late>>
    BY DEF Unheard
  <2>2. om' \in Manager(stage') /\ ManagerInv(stage', om', lines', late') /\ Released(stage', om')
    BY <2>1 DEF Tracks, ManagerKnows
  <2>. QED BY <1>1, <2>1, <2>2 DEF Tracks, ManagerKnows
<1>3. StartsKnown'
  BY <1>1 DEF Tracks, StartsKnown, Unheard
<1>. QED BY <1>2, <1>3 DEF Tracks, Unheard

LEMMA StartTracks ==
  ASSUME SInv, Tracks, NEW n \in Nodes, RStepStart(n)
  PROVE  /\ Tracks' /\ ~om.data[n].started /\ Told(n) = "none"
         /\ \A k \in Nodes : om'.data[k].started <=> k = n \/ om.data[k].started
<1>1. /\ go[n] = "spawned" /\ go' = [go EXCEPT ![n] = "running"] /\ om' = OnStepStart(stage, om, n)
      /\ UNCHANGED <<stage, cbResults, lines, late, upc, todo>>
  BY DEF RStepStart, StepStart
<1>2. TypeOK /\ Nodes \subseteq Names /\ Nodes' = Nodes
  BY <1>1, NodesAreNames DEF SInv, RInv, CInv, VInv, IInv, Nodes
<1>3. upc = "run" /\ Told(n) = "none" /\ ~om.data[n].started
  BY <1>1, BeginIsNew DEF Tracks
<1>4. /\ ManagerKnows'
      /\ \A k \in Nodes : om'.data[k].started <=> k = n \/ om.data[k].started
  BY <1>1, <1>2, <1>3, StartKnown DEF Tracks
<1>5. \A k \in Nodes : go'[k] = IF k = n THEN "running" ELSE go[k]
  BY <1>1, <1>2 DEF TypeOK
<1>6. \A k : Told(k)' = Told(k)
  BY <1>1 DEF Told
<1>7. StartsKnown'
  BY <1>1, <1>2, <1>3, <1>4, <1>5, <1>6 DEF Tracks, StartsKnown
<1>. QED BY <1>1, <1>3, <1>4, <1>7 DEF Tracks

LEMMA RunTracks ==
  ASSUME SInv, Tracks, NEW n \in Nodes, RStepRun(n)
  PROVE  /\ Tracks' /\ om.data[n].started /\ Told(n) = "none"
         /\ \A k \in Nodes : om'.data[k].started = om.data[k].started
         /\ \E s \in Status : /\ TellComplete(n, s) /\ UNCHANGED <<stage, lines, late>>
                              /\ Told(n)' = s /\ \A k : k # n => Told(k)' = Told(k)
<1>1. PICK o \in Outcomes : StepFinish(n, o) /\ TellComplete(n, CallbackStatus(n, o))
  BY DEF RStepRun
<1>2. TypeOK /\ Nodes \subseteq Names /\ Consistent /\ cbResults \in Seq(ResultRec)
  BY NodesAreNames DEF SInv, RInv, CInv, VInv, IInv, RTypeOK
<1>3. PICK s \in Status : s = CallbackStatus(n, o)
  BY <1>2, OutcomeStatus, ToldAsRecorded
<1>4. /\ go[n] = "running" /\ go' = [go EXCEPT ![n] = "reported"]
      /\ TellComplete(n, s) /\ UNCHANGED <<stage, lines, late, upc, todo>>
  BY <1>1, <1>3 DEF StepFinish, RStepRun
<1>5. upc = "run" /\ Told(n) = "none" /\ om.data[n].started
  BY <1>4, RunningIsBegun DEF Tracks
<1>6. /\ ManagerKnows' /\ \A k \in Nodes : om'.data[k].started = om.data[k].started
      /\ Told(n)' = s /\ \A k : k # n => Told(k)' = Told(k)
  BY <1>2, <1>4, <1>5, CompleteKnown DEF Tracks
<1>7. \A k \in Nodes : go'[k] = IF k = n THEN "reported" ELSE go[k]
  BY <1>2, <1>4 DEF TypeOK
<1>8. s # "none" /\ Nodes' = Nodes
  BY <1>4 DEF Status, Nodes
<1>9. StartsKnown'
  BY <1>4, <1>5, <1>6, <1>7, <1>8 DEF Tracks, StartsKnown
<1>. QED BY <1>4, <1>5, <1>6, <1>9 DEF Tracks

LEMMA SkipTracks ==
  ASSUME SInv, Tracks, RSkipCondition
  PROVE  /\ Tracks' /\ \A k \in Nodes : om'.data[k].started = om.data[k].started
         /\ \E n \in Nodes : /\ TellComplete(n, "skipped") /\ UNCHANGED <<stage, lines, late>>
                             /\ ~om.data[n].started /\ Told(n) = "none"
                             /\ Told(n)' = "skipped" /\ \A k : k # n => Told(k)' = Told(k)
<1>1. TypeOK /\ Nodes \subseteq Names /\ Consistent /\ cbResults \in Seq(ResultRec)
  BY NodesAreNames DEF SInv, RInv, CInv, VInv, IInv, RTypeOK
<1>2. /\ spc = "decide" /\ TellComplete(cur, "skipped")
      /\ UNCHANGED <<go, stage, lines, late, upc, todo>>
  BY DEF RSkipCondition, SkipCondition, gvars
<1>3. PICK n \in Nodes : n = cur
  BY <1>2 DEF SInv, RInv, CInv, VInv, IInv, ReadyInv
<1>4. /\ TellComplete(n, "skipped") /\ "skipped" \in Status /\ Nodes' = Nodes
  BY <1>2, <1>3 DEF Status, Nodes
<1>5. upc = "run" /\ Told(n) = "none" /\ ~om.data[n].started /\ go[n] \in {"idle", "spawned"}
  BY <1>2, <1>3, BeginIsNew DEF Tracks
<1>6. /\ ManagerKnows' /\ \A k \in Nodes : om'.data[k].started = om.data[k].started
      /\ Told(n)' = "skipped" /\ \A k : k # n => Told(k)' = Told(k)
  BY <1>1, <1>2, <1>4, <1>5, CompleteKnown DEF Tracks
<1>7. StartsKnown'
  BY <1>2, <1>4, <1>5, <1>6 DEF Tracks, StartsKnown
<1>. QED BY <1>2, <1>4, <1>5, <1>6, <1>7 DEF Tracks

LEMMA LineTracks ==
  ASSUME SInv, Tracks, NEW n \in Nodes, DeliverLine(n)
  PROVE  /\ Tracks' /\ om.data[n].started
         /\ \A k \in Nodes : om'.data[k].started = om.data[k].started
<1>1. /\ go[n] \notin {"idle", "spawned"} /\ UNCHANGED <<go, stage, cbResults, upc, todo>>
  BY DEF DeliverLine, vars, gvars
<1>2. TypeOK /\ Nodes' = Nodes /\ \A k : Told(k)' = Told(k) /\ InTodo(k)' = InTodo(k)
  BY <1>1 DEF SInv, RInv, CInv, VInv, IInv, Nodes, Told, InTodo
<1>3. om.data[n].started
  BY <1>1 DEF Tracks, StartsKnown
<1>4. ManagerKnows' /\ \A k \in Nodes : om'.data[k].started = om.data[k].started
  BY <1>2, <1>3, LineKnown DEF Tracks
<1>5. StartsKnown'
  BY <1>1, <1>2, <1>4 DEF Tracks, StartsKnown
<1>. QED BY <1>1, <1>3, <1>4, <1>5 DEF Tracks

LEMMA CollectTracks == ASSUME SInv, Tracks, CollectSkipped PROVE Tracks'
<1>1. /\ UNCHANGED <<go, stage, om, cbResults, lines, late>> /\ upc = "run" /\ upc' = "skips"
  BY DEF CollectSkipped, ui, vars, gvars
<1>2. Nodes' = Nodes /\ \A k : Told(k)' = Told(k)
  BY <1>1 DEF Nodes, Told
<1>3. ManagerKnows'
  <2>1. om' \in Manager(stage') /\ ManagerInv(stage', om', lines', late') /\ Released(stage', om')
    BY <1>1 DEF Tracks, ManagerKnows
  <2>. QED BY <1>1, <1>2, <2>1 DEF Tracks, ManagerKnows
<1>4. StartsKnown'
  BY <1>1, <1>2 DEF Tracks, StartsKnown
<1>. QED BY <1>1, <1>3, <1>4 DEF Tracks

LEMMA ReportStartTracks ==
  ASSUME SInv, Tracks, ReportSkippedStart
  PROVE  /\ Tracks'
         /\ \E n \in Nodes :
              /\ om' = OnStepStart(stage, om, n) /\ UNCHANGED <<stage, cbResults, lines, late>>
              /\ ~om.data[n].started /\ Told(n) = "none"
              /\ \A k \in Nodes : om'.data[k].started <=> k = n \/ om.data[k].started
<1>1. /\ UNCHANGED <<go, stage, cbResults, lines, late, todo>> /\ upc = "skips" /\ upc' = "skipping"
      /\ om' = OnStepStart(stage, om, Head(todo)) /\ todo # <<>>
  BY DEF ReportSkippedStart, ui, vars, gvars
<1>2. PICK n \in Nodes :
           /\ n = Head(todo) /\ n = todo[1] /\ InTodo(n) /\ Told(n) = "none"
           /\ go[n] \in {"idle", "spawned"}
  BY <1>1, NextReport DEF Tracks
<1>3. TypeOK /\ Nodes' = Nodes /\ \A k : Told(k)' = Told(k) /\ InTodo(k)' = InTodo(k)
  BY <1>1 DEF SInv, RInv, CInv, VInv, IInv, Nodes, Told, InTodo
<1>4. ~om.data[n].started /\ om' = OnStepStart(stage, om, n)
  BY <1>1, <1>2 DEF Tracks, StartsKnown
<1>5. /\ ManagerKnows'
      /\ \A k \in Nodes : om'.data[k].started <=> k = n \/ om.data[k].started
  BY <1>1, <1>2, <1>3, <1>4, StartKnown DEF Tracks
<1>6. StartsKnown'
  BY <1>1, <1>2, <1>3, <1>5 DEF Tracks, StartsKnown
<1>. QED BY <1>1, <1>2, <1>4, <1>5, <1>6 DEF Tracks

LEMMA ReportDoneTracks ==
  ASSUME SInv, Tracks, ReportSkippedDone
  PROVE  /\ Tracks' /\ \A k \in Nodes : om'.data[k].started = om.data[k].started
         /\ \E n \in Nodes : /\ TellComplete(n, "skipped") /\ UNCHANGED <<stage, lines, late>>
                             /\ om.data[n].started /\ Told(n) = "none"
                             /\ Told(n)' = "skipped" /\ \A k : k # n => Told(k)' = Told(k)
<1>1. /\ UNCHANGED <<go, stage, lines, late>> /\ upc = "skipping" /\ upc' = "skips"
      /\ TellComplete(Head(todo), "skipped")
  BY DEF ReportSkippedDone, vars, gvars
<1>2. PICK n \in Nodes : /\ n = Head(todo) /\ n = todo[1] /\ Told(n) = "none"
  BY <1>1, NextReport DEF Tracks
<1>3. /\ TypeOK /\ Consistent /\ cbResults \in Seq(ResultRec) /\ RTypeOK /\ "skipped" \in Status
      /\ Nodes' = Nodes
  BY <1>1 DEF SInv, RInv, CInv, VInv, IInv, RTypeOK, Status, Nodes
<1>4. TellComplete(n, "skipped")
  BY <1>1, <1>2
<1>5. /\ ManagerKnows' /\ \A k \in Nodes : om'.data[k].started = om.data[k].started
      /\ Told(n)' = "skipped" /\ \A k : k # n => Told(k)' = Told(k)
  BY <1>1, <1>2, <1>3, <1>4, CompleteKnown DEF Tracks
<1>6. /\ \A k : InTodo(k)' => InTodo(k) /\ k # n
  <2>1. PICK m \in Nodes :
           /\ Len(todo) \in Nat \ {0} /\ todo[1] = m /\ todo' \in Seq(Nodes)
           /\ Len(todo') = Len(todo) - 1 /\ \A i \in 1..Len(todo') : todo'[i] = todo[i + 1]
           /\ \A k : InTodo(k)' => InTodo(k)
    BY <1>3, TodoTail
  <2>2. \A i, j \in 1..Len(todo) : todo[i] = todo[j] => i = j
    BY DEF SInv, Once, Tracks
  <2>3. \A i \in 1..Len(todo') : i + 1 \in 1..Len(todo) /\ i + 1 # 1 /\ 1 \in 1..Len(todo)
    BY <2>1
  <2>4. ~InTodo(n)'
    BY <1>2, <2>1, <2>2, <2>3 DEF InTodo
  <2>. QED BY <2>1, <2>4
<1>7. om.data[n].started
  BY <1>1, <1>2 DEF Tracks, StartsKnown
<1>8. StartsKnown'
  <2> SUFFICES ASSUME NEW k \in Nodes
               PROVE  /\ go[k] \notin {"idle", "spawned"} => om'.data[k].started
                      /\ om'.data[k].started /\ go[k] \in {"idle", "spawned"} => ~InTodo(k)'
                      /\ go[k] \in {"reported", "checked", "sent"} => Told(k)' # "none"
    BY <1>1, <1>3 DEF StartsKnown
  <2>1. /\ go[k] \notin {"idle", "spawned"} => om.data[k].started
        /\ om.data[k].started /\ go[k] \in {"idle", "spawned"} => (InTodo(k) => k = n)
        /\ go[k] \in {"reported", "checked", "sent"} => Told(k) # "none"
    BY <1>2 DEF Tracks, StartsKnown
  <2>. QED BY <1>5, <1>6, <2>1
<1>. QED BY <1>1, <1>2, <1>4, <1>5, <1>7, <1>8 DEF Tracks
LEMMA TracksStep == ASSUME SInv, Tracks, [RNext]_rvars PROVE Tracks'
BY HeardSteps, UnheardTracks, StartTracks, RunTracks, SkipTracks, LineTracks, CollectTracks,
   ReportStartTracks, ReportDoneTracks DEF SInv, RInv

LEMMA TracksInit == ASSUME RInit, UniqueSteps(stage) PROVE Tracks
<1>1. TypeOK
  BY RInvInit DEF RInv, CInv, VInv, IInv
<1>2. IsStage(stage) /\ Nodes = Node(stage)
  BY <1>1, StageFits
<1>3. /\ om = NewManager(stage) /\ lines \in [Nodes -> Nat] /\ late \in [Nodes -> Nat]
      /\ \A n \in Nodes : lines[n] = 0 /\ late[n] = 0
      /\ upc = "run" /\ \A n \in Names : go[n] = "idle"
  BY <1>2 DEF RInit, Init
<1>4. \A n : Told(n) = "none"
  BY EmptySeq DEF RInit, Told
<1>5. /\ om \in Manager(stage) /\ ManagerInv(stage, om, lines, late) /\ Released(stage, om)
      /\ \A n \in Nodes : ~om.data[n].started /\ ~om.data[n].completed /\ om.data[n].status = "none"
  BY <1>2, <1>3, NewManagerFits
<1>6. ManagerKnows
  BY <1>3, <1>4, <1>5 DEF ManagerKnows
<1>7. StartsKnown
  BY <1>1, <1>3, <1>5, NodesAreNames DEF StartsKnown
<1>. QED BY <1>6, <1>7 DEF Tracks

LEMMA PInvariance == RSpec => []PInv
<1>1. RInit => PInv
  <2> SUFFICES ASSUME RInit PROVE PInv
    OBVIOUS
  <2>1. SInv
    BY SInvInit
  <2>. QED BY <2>1, TracksInit DEF PInv, Tracks
<1>2. PInv /\ [RNext]_rvars => PInv'
  <2> SUFFICES ASSUME PInv, [RNext]_rvars PROVE PInv'
    OBVIOUS
  <2>1. SInv' /\ stage' = stage
    BY SInvStep, RunsTheExecutor, OnlyForward DEF PInv, SInv, RInv, CInv, VInv, IInv
  <2>2. UniqueSteps(stage) => Tracks'
    BY TracksStep DEF PInv, Tracks
  <2>. QED BY <2>1, <2>2 DEF PInv, Tracks
<1>. QED BY <1>1, <1>2, PTL DEF RSpec

\* For stages that name each action once: when a run that nobody cancelled ends,
\* every step has been reported exactly once and its result is on the screen with
\* the reported status; getSkippedSteps finds the steps the executor kept silent.
THEOREM NothingIsLeftOut ==
  ASSUME \A st \in Stages : UniqueSteps(st) PROVE RSpec => []ReportComplete
<1>1. PInv => ReportComplete
  <2> SUFFICES ASSUME PInv, upc = "end", ~cancelled, ret.kind # "dag"
               PROVE  /\ Len(cbResults) = Cardinality(Nodes)
                      /\ \A n \in Nodes : Told(n) # "none" /\ ResultShown(om, n, Told(n))
    BY DEF ReportComplete
  <2>1. SInv /\ TypeOK /\ UniqueSteps(stage)
    BY DEF PInv, SInv, RInv, CInv, VInv, IInv, TypeOK
  <2>2. \A n \in Nodes : Told(n) \in Status
    BY <2>1, AllTold
  <2>3. Len(cbResults) = Cardinality(Nodes)
    BY <2>1, <2>2, CountsAreSteps
  <2>4. ManagerKnows /\ Nodes = Node(stage)
    BY <2>1, StageFits DEF PInv
  <2>5. \A n \in Nodes : om.data[n].completed /\ om.data[n].status = Told(n)
    BY <2>2, <2>4 DEF ManagerKnows, Status
  <2>6. \A n \in Nodes : om.data[n].shown
    BY <2>4, <2>5 DEF ManagerKnows, Released, Earlier
  <2>7. \A n \in Nodes : ResultShown(om, n, Told(n))
    BY <2>4, <2>5, <2>6 DEF ManagerKnows, ManagerInv, ScreenInv
  <2>. QED BY <2>2, <2>3, <2>7 DEF Status
<1>. QED BY <1>1, PInvariance, PTL

-----------------------------------------------------------------------------
(* The stage run is a client of the manager *)

\* The manager seen from the clients is the same.
LEMMA SameManager ==
  /\ Clients!NewManager(stage) = NewManager(stage) /\ Clients!Node(stage) = Nodes
  /\ \A n : Clients!OnStepStart(stage, om, n) = OnStepStart(stage, om, n)
  /\ \A n, k : Clients!OnStepOutput(om, n, k) = OnStepOutput(om, n, k)
  /\ \A n, s : Clients!OnStepComplete(stage, om, n, s) = OnStepComplete(stage, om, n, s)
<1>1. Clients!NewManager(stage) = NewManager(stage) /\ Clients!Node(stage) = Nodes
  BY DEF Clients!NewManager, Clients!NewStepData, Clients!Node, NewManager, NewStepData, Node, Nodes
<1>2. \A n : Clients!OnStepStart(stage, om, n) = OnStepStart(stage, om, n)
  BY DEF Clients!OnStepStart, Clients!CanShowStepStart, Clients!Position, Clients!ShowStepStart,
         Clients!Message, OnStepStart, CanShowStepStart, Position, ShowStepStart, Message
<1>3. \A n, k : Clients!OnStepOutput(om, n, k) = OnStepOutput(om, n, k)
  BY DEF Clients!OnStepOutput, Clients!ShowStepOutput, Clients!Message,
         OnStepOutput, ShowStepOutput, Message
<1>4. \A n, s : Clients!OnStepComplete(stage, om, n, s) = OnStepComplete(stage, om, n, s)
  <2>1. \A m : Clients!CheckAndShowCompletedSteps(stage, m) = CheckAndShowCompletedSteps(stage, m)
    BY Zenon
       DEF Clients!CheckAndShowCompletedSteps, CheckAndShowCompletedSteps,
           Clients!ShowIfCompleted, ShowIfCompleted, Clients!Position, Position,
           Clients!ShowStepCompletion, Clients!FlushBufferedOutput, Clients!ShowStepStart,
           Clients!Message, ShowStepCompletion, FlushBufferedOutput, ShowStepStart, Message
  <2>2. \A m : Clients!CheckAndShowNextStep(stage, m) = CheckAndShowNextStep(stage, m)
    <3>1. \A m, n : Clients!CanShowStepStart(stage, m, n) = CanShowStepStart(stage, m, n)
      BY DEF Clients!CanShowStepStart, CanShowStepStart, Clients!Position, Position
    <3>2. \A m, n : Clients!FlushBufferedOutput(Clients!ShowStepStart(m, n), n)
                      = FlushBufferedOutput(ShowStepStart(m, n), n)
      BY DEF Clients!FlushBufferedOutput, Clients!ShowStepStart, Clients!Message,
             FlushBufferedOutput, ShowStepStart, Message
    <3> SUFFICES ASSUME NEW m
                 PROVE  Clients!CheckAndShowNextStep(stage, m) = CheckAndShowNextStep(stage, m)
      OBVIOUS
    <3> DEFINE Waits(n) == m.data[n].started /\ ~m.data[n].completed /\ ~m.data[n].shown
               C == {i \in DOMAIN stage : /\ Waits(stage[i].action)
                                          /\ Clients!CanShowStepStart(stage, m, stage[i].action)}
               D == {i \in DOMAIN stage : /\ Waits(stage[i].action)
                                          /\ CanShowStepStart(stage, m, stage[i].action)}
               Then(E) == IF E = {} THEN m
                          ELSE FlushBufferedOutput(ShowStepStart(m,
                                 stage[CHOOSE i \in E : \A j \in E : i <= j].action),
                                 stage[CHOOSE i \in E : \A j \in E : i <= j].action)
    <3>3. C = D
      BY <3>1
    <3>4. Clients!CheckAndShowNextStep(stage, m) = Then(C)
      BY <3>2 DEF Clients!CheckAndShowNextStep
    <3>5. CheckAndShowNextStep(stage, m) = Then(D)
      BY DEF CheckAndShowNextStep
    <3> HIDE DEF C, D
    <3>. QED BY <3>3, <3>4, <3>5
  <2>3. \A m, n : Clients!ShowStepCompletion(m, n) = ShowStepCompletion(m, n)
    BY DEF Clients!ShowStepCompletion, Clients!Message, ShowStepCompletion, Message
  <2>. QED BY <2>1, <2>2, <2>3 DEF Clients!OnStepComplete, OnStepComplete
<1>. QED BY <1>1, <1>2, <1>3, <1>4
\* Life of a step, as the clients count it.
LifeOf(n) == IF Told(n) # "none" THEN "completed"
             ELSE IF om.data[n].started THEN "started" ELSE "new"

LEMMA CallsStart ==
  ASSUME NEW n \in Nodes, ~om.data[n].started, Told(n) = "none",
         om' = OnStepStart(stage, om, n), UNCHANGED <<stage, cbResults, lines, late>>,
         \A k \in Nodes : om'.data[k].started <=> k = n \/ om.data[k].started
  PROVE  Clients!CallStart(n)
<1>1. Nodes' = Nodes /\ \A k : Told(k)' = Told(k)
  BY DEF Nodes, Told
<1>2. \A k \in Nodes : LifeOf(k)' = IF k = n THEN "started" ELSE LifeOf(k)
  BY <1>1 DEF LifeOf
<1>3. [k \in Nodes' |-> LifeOf(k)'] = [[k \in Nodes |-> LifeOf(k)] EXCEPT ![n] = "started"]
  BY <1>1, <1>2
<1>4. [k \in Nodes' |-> Told(k)'] = [k \in Nodes |-> Told(k)]
  BY <1>1
<1>5. [k \in Nodes |-> LifeOf(k)][n] = "new"
  BY DEF LifeOf
<1>6. om' = Clients!OnStepStart(stage, om, n)
  BY SameManager
<1>. QED BY <1>3, <1>4, <1>5, <1>6 DEF Clients!CallStart, LifeOf

LEMMA CallsComplete ==
  ASSUME NEW n \in Nodes, NEW s \in Status, Told(n) = "none", TellComplete(n, s),
         om.data[n].started \/ s = "skipped", UNCHANGED <<stage, lines, late>>,
         Told(n)' = s, \A k : k # n => Told(k)' = Told(k),
         \A k \in Nodes : om'.data[k].started = om.data[k].started
  PROVE  Clients!CallComplete(n, s)
<1>1. Nodes' = Nodes /\ s # "none"
  BY DEF Nodes, Status
<1>2. \A k \in Nodes : LifeOf(k)' = IF k = n THEN "completed" ELSE LifeOf(k)
  BY <1>1 DEF LifeOf
<1>3. [k \in Nodes' |-> LifeOf(k)'] = [[k \in Nodes |-> LifeOf(k)] EXCEPT ![n] = "completed"]
  BY <1>1, <1>2
<1>4. [k \in Nodes' |-> Told(k)'] = [[k \in Nodes |-> Told(k)] EXCEPT ![n] = s]
  BY <1>1
<1>5. [k \in Nodes |-> LifeOf(k)][n] = IF om.data[n].started THEN "started" ELSE "new"
  BY DEF LifeOf
<1>6. om' = Clients!OnStepComplete(stage, om, n, s)
  BY SameManager DEF TellComplete
<1>. QED BY <1>3, <1>4, <1>5, <1>6 DEF Clients!CallComplete, LifeOf

LEMMA CallsOutput ==
  ASSUME NEW n \in Nodes, om.data[n].started, DeliverLine(n),
         \A k \in Nodes : om'.data[k].started = om.data[k].started
  PROVE  Clients!CallOutput(n)
<1>1. /\ UNCHANGED <<stage, cbResults>> /\ om' = OnStepOutput(om, n, lines[n] + 1)
      /\ lines[n] < MaxLines[Len(stage)] /\ lines' = [lines EXCEPT ![n] = lines[n] + 1]
      /\ late' = [late EXCEPT ![n] = IF Told(n) = "none" THEN late[n] ELSE late[n] + 1]
  BY DEF DeliverLine, vars
<1>2. Nodes' = Nodes /\ \A k : Told(k)' = Told(k)
  BY <1>1 DEF Nodes, Told
<1>3. [k \in Nodes' |-> LifeOf(k)'] = [k \in Nodes |-> LifeOf(k)]
  BY <1>2 DEF LifeOf
<1>4. [k \in Nodes' |-> Told(k)'] = [k \in Nodes |-> Told(k)]
  BY <1>2
<1>5. [k \in Nodes |-> LifeOf(k)][n] = "completed" <=> Told(n) # "none"
  BY DEF LifeOf
<1>6. late' = [late EXCEPT ![n] = IF [k \in Nodes |-> LifeOf(k)][n] = "completed"
                                  THEN late[n] + 1 ELSE late[n]]
  BY <1>1, <1>5
<1>7. om' = Clients!OnStepOutput(om, n, lines[n] + 1)
  BY <1>1, SameManager
<1>. QED BY <1>1, <1>3, <1>4, <1>6, <1>7 DEF Clients!CallOutput, LifeOf

LEMMA NoCall ==
  ASSUME UNCHANGED <<stage, om, cbResults, lines, late>> PROVE UNCHANGED Clients!ovars
BY DEF Clients!ovars, Nodes, Told

\* Every step of the run is one call of the manager, in its turn, or none.
LEMMA CallsInTurn ==
  ASSUME PInv, UniqueSteps(stage), [RNext]_rvars PROVE [Clients!ONext]_(Clients!ovars)
<1>1. SInv /\ Tracks /\ CInv
  BY DEF PInv, Tracks, SInv, RInv
<1>2. Clients!Node(stage) = Nodes
  BY SameManager
<1>3. ASSUME NEW n \in Nodes, Clients!CallStart(n) PROVE Clients!ONext
  BY <1>2, <1>3 DEF Clients!ONext
<1>4. ASSUME NEW n \in Nodes, Clients!CallOutput(n) PROVE Clients!ONext
  BY <1>2, <1>4 DEF Clients!ONext
<1>5. ASSUME NEW n \in Nodes, NEW s \in Status, Clients!CallComplete(n, s) PROVE Clients!ONext
  BY <1>2, <1>5 DEF Clients!ONext, Status
<1>6. CASE Unheard \/ CollectSkipped
  BY <1>6, NoCall DEF Unheard, CollectSkipped, ui, vars
<1>7. ASSUME NEW n \in Nodes, RStepStart(n) PROVE Clients!ONext
  <2>1. /\ om' = OnStepStart(stage, om, n) /\ UNCHANGED <<stage, cbResults, lines, late>>
    BY <1>7 DEF RStepStart, StepStart
  <2>. QED BY <1>1, <1>3, <1>7, <2>1, StartTracks, CallsStart
<1>8. ASSUME NEW n \in Nodes, RStepRun(n) PROVE Clients!ONext
  BY <1>1, <1>5, <1>8, RunTracks, CallsComplete
<1>9. ASSUME NEW n \in Nodes, DeliverLine(n) PROVE Clients!ONext
  BY <1>1, <1>4, <1>9, LineTracks, CallsOutput
<1>10. CASE RSkipCondition
  BY <1>1, <1>5, <1>10, SkipTracks, CallsComplete DEF Status
<1>11. CASE ReportSkippedStart
  BY <1>1, <1>3, <1>11, ReportStartTracks, CallsStart
<1>12. CASE ReportSkippedDone
  BY <1>1, <1>5, <1>12, ReportDoneTracks, CallsComplete DEF Status
<1>. QED BY <1>1, <1>6, <1>7, <1>8, <1>9, <1>10, <1>11, <1>12, HeardSteps

\* For stages that name each action once, the executor and the runner call the
\* manager as OutputClients does: one start, one completion, none of them twice,
\* also when the runner reports the skipped steps; so what OutputClientsProofs
\* shows of the screen holds of every stage run.
THEOREM RunFollowsProtocol ==
  ASSUME \A st \in Stages : UniqueSteps(st) PROVE RSpec => FollowsCallbackProtocol
<1>1. RInit => Clients!OInit
  <2> SUFFICES ASSUME RInit PROVE Clients!OInit
    OBVIOUS
  <2>1. stage \in Stages /\ UniqueSteps(stage)
    BY DEF RInit, Init
  <2>2. \A n \in Nodes : ~om.data[n].started /\ Told(n) = "none"
    <3>1. TypeOK
      BY RInvInit DEF RInv, CInv, VInv, IInv
    <3>2. Tracks /\ Nodes \subseteq Names
      BY <2>1, <3>1, TracksInit, NodesAreNames
    <3>. QED BY <3>2, EmptySeq DEF RInit, Init, Tracks, StartsKnown, Told
  <2>3. /\ [n \in Nodes |-> LifeOf(n)] = [n \in Nodes |-> "new"]
        /\ [n \in Nodes |-> Told(n)] = [n \in Nodes |-> "none"]
    BY <2>2 DEF LifeOf
  <2>4. /\ om = Clients!NewManager(stage) /\ Clients!Node(stage) = Nodes /\ Node(stage) = Nodes
    BY SameManager DEF RInit, Nodes
  <2>. QED BY <2>1, <2>3, <2>4 DEF Clients!OInit, RInit, LifeOf
<1>2. PInv /\ [RNext]_rvars => [Clients!ONext]_(Clients!ovars)
  <2>1. PInv => UniqueSteps(stage)
    BY DEF PInv, SInv, RInv, CInv, VInv, IInv, TypeOK
  <2>. QED BY <2>1, CallsInTurn
<1>. QED BY <1>1, <1>2, PInvariance, PTL DEF RSpec, FollowsCallbackProtocol, Clients!OSpec
=============================================================================
