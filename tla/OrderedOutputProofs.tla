------------------------ MODULE OrderedOutputProofs ------------------------
(***************************************************************************)
(* What the methods of the ordered output manager do, for stages of any    *)
(* length and any number of lines.                                         *)
(***************************************************************************)
EXTENDS OrderedOutput, TLAPS, SequenceTheorems, WellFoundedInduction

-----------------------------------------------------------------------------
(* Places of steps *)

\* A set of numbers that is not empty has a least element.
LEMMA LeastNumber ==
  ASSUME NEW S \in SUBSET Nat, S # {}
  PROVE  \E i \in S : \A j \in S : ~(j < i)
<1>1. PICK i \in S : \A j \in S : ~(<<j, i>> \in OpToRel(<, Nat))
  BY NatLessThanWellFounded, WFMin
<1>. QED BY <1>1 DEF OpToRel

LEMMA StagesAreSequences ==
  ASSUME NEW st, IsStage(st)
  PROVE  /\ DOMAIN st = 1..Len(st) /\ Len(st) \in Nat /\ NoStep \notin Node(st)
         /\ \A i \in 1..Len(st) : st[i].action \in Node(st)
<1>1. st \in Seq({st[i] : i \in DOMAIN st}) /\ NoStep \notin Node(st)
  BY DEF IsStage
<1>2. DOMAIN st = 1..Len(st) /\ Len(st) \in Nat
  BY <1>1, LenProperties
<1>. QED BY <1>1, <1>2 DEF Node

\* Position is where a step is declared first.
LEMMA PositionIsFirst ==
  ASSUME NEW st, IsStage(st), NEW n \in Node(st)
  PROVE  /\ Position(st, n) \in 1..Len(st) /\ st[Position(st, n)].action = n
         /\ \A i \in 1..Len(st) : st[i].action = n => Position(st, n) <= i
<1> DEFINE S == {i \in DOMAIN st : st[i].action = n}
<1>1. DOMAIN st = 1..Len(st) /\ Len(st) \in Nat
  BY StagesAreSequences
<1>2. S \in SUBSET Nat /\ S # {}
  BY <1>1 DEF Node
<1>3. PICK i \in S : \A j \in S : ~(j < i)
  BY <1>2, LeastNumber
<1>4. i \in DOMAIN st /\ st[i].action = n /\ \A j \in 1..(i - 1) : st[j].action # n
  BY <1>1, <1>3
<1>5. /\ Position(st, n) \in DOMAIN st /\ st[Position(st, n)].action = n
      /\ \A j \in 1..(Position(st, n) - 1) : st[j].action # n
  BY <1>4 DEF Position
<1>6. \A k \in 1..Len(st) : st[k].action = n => Position(st, n) <= k
  BY <1>1, <1>5
<1>. QED BY <1>1, <1>5, <1>6

\* Two steps with one place are one.
LEMMA PlacesDiffer ==
  ASSUME NEW st, IsStage(st), NEW n \in Node(st), NEW p \in Node(st)
  PROVE  /\ Position(st, n) \in Nat
         /\ n # p => Position(st, p) < Position(st, n) \/ Position(st, n) < Position(st, p)
BY PositionIsFirst, StagesAreSequences

\* What the loops over the steps before n look at.
LEMMA EarlierSteps ==
  ASSUME NEW st, IsStage(st), NEW n \in Node(st)
  PROVE  Earlier(st, n) = {st[i].action : i \in 1..(Position(st, n) - 1)}
<1>1. Len(st) \in Nat /\ Position(st, n) \in 1..Len(st)
  BY PositionIsFirst, StagesAreSequences
<1>2. \A i \in 1..(Position(st, n) - 1) : /\ i \in 1..Len(st) /\ st[i].action \in Node(st)
                                          /\ Position(st, st[i].action) \in Nat
                                          /\ Position(st, st[i].action) <= i
  BY <1>1, StagesAreSequences, PositionIsFirst
<1>3. \A i \in 1..(Position(st, n) - 1) : st[i].action \in Earlier(st, n)
  BY <1>1, <1>2 DEF Earlier
<1>4. \A p \in Earlier(st, n) : /\ Position(st, p) \in 1..(Position(st, n) - 1)
                                /\ st[Position(st, p)].action = p
  BY <1>1, PositionIsFirst DEF Earlier
<1>. QED BY <1>3, <1>4

-----------------------------------------------------------------------------
(* The pass over the completed steps *)

\* The pass can be written down step by step.
LEMMA PassExists ==
  ASSUME NEW st, IsStage(st), NEW m0
  PROVE  \E g : /\ g = [i \in 0..Len(st) |->
                         IF i = 0 THEN m0
                         ELSE ShowIfCompleted(st, g[i - 1], st[i].action)]
                /\ CheckAndShowCompletedSteps(st, m0) = g[Len(st)]
<1> DEFINE F(g, i) == IF i = 0 THEN m0 ELSE ShowIfCompleted(st, g[i - 1], st[i].action)
           P(k) == \E g : g = [i \in 0..k |-> F(g, i)]
           S == {k \in Nat : ~P(k)}
<1>0. Len(st) \in Nat
  BY StagesAreSequences
<1>1. ASSUME S # {} PROVE FALSE
  <2>1. PICK k \in S : \A j \in S : ~(j < k)
    BY <1>1, LeastNumber
  <2>2. CASE k = 0
    <3> DEFINE g == [i \in 0..0 |-> m0]
    <3>1. g = [i \in 0..0 |-> F(g, i)]
      OBVIOUS
    <3>. QED BY <2>1, <2>2, <3>1
  <2>3. CASE k # 0
    <3>1. k - 1 \in Nat /\ P(k - 1)
      <4>1. k \in Nat /\ k - 1 \in Nat /\ k - 1 < k
        BY <2>1, <2>3
      <4>2. k - 1 \notin S
        BY <2>1, <4>1
      <4> HIDE DEF P
      <4>. QED BY <4>1, <4>2
    <3>2. PICK g : g = [i \in 0..(k - 1) |-> F(g, i)]
      BY <3>1
    <3> DEFINE h == [i \in 0..k |-> IF i = k THEN ShowIfCompleted(st, g[k - 1], st[k].action)
                                    ELSE g[i]]
    <3>3. \A i \in 0..k : h[i] = F(h, i)
      <4> SUFFICES ASSUME NEW i \in 0..k PROVE h[i] = F(h, i)
        OBVIOUS
      <4>1. CASE i = k
        BY <2>1, <2>3, <4>1
      <4>2. CASE i # k
        <5>1. i \in 0..(k - 1) /\ h[i] = g[i] /\ (i # 0 => i - 1 \in 0..k /\ i - 1 # k)
          BY <2>1, <4>2
        <5>2. g[i] = F(g, i)
          BY <3>2, <5>1
        <5>. QED BY <5>1, <5>2
      <4>. QED BY <4>1, <4>2
    <3>4. h = [i \in 0..k |-> F(h, i)]
      BY <3>3
    <3>. QED BY <2>1, <3>4
  <2>. QED BY <2>2, <2>3
<1>2. P(Len(st))
  BY <1>0, <1>1
<1>. QED BY <1>2 DEF CheckAndShowCompletedSteps

-----------------------------------------------------------------------------
(* The screen *)

LEMMA MessagesAre ==
  ASSUME NEW st, IsStage(st), NEW n \in Node(st), NEW k \in Nat,
         NEW ev \in {"start", "line"} \cup Statuses
  PROVE  /\ Message(n, ev, k) \in Messages(st)
         /\ Message(n, ev, k).step = n /\ Message(n, ev, k).ev = ev
         /\ Message(n, ev, k).line = k
BY DEF Message, Messages

LEMMA MessageFields ==
  ASSUME NEW st, NEW e \in Messages(st)
  PROVE  /\ e.step \in Node(st) /\ e.ev \in {"start", "line"} \cup Statuses /\ e.line \in Nat
BY DEF Messages

LEMMA OnAppend ==
  ASSUME NEW st, NEW s \in Seq(Messages(st)), NEW e \in Messages(st)
  PROVE  /\ Append(s, e) \in Seq(Messages(st))
         /\ \A x : OnScreen(Append(s, e), x) <=> OnScreen(s, x) \/ x = e
<1> DEFINE t == Append(s, e)
<1>1. /\ t \in Seq(Messages(st)) /\ Len(s) \in Nat /\ DOMAIN s = 1..Len(s)
      /\ DOMAIN t = 1..(Len(s) + 1) /\ t[Len(s) + 1] = e
      /\ \A i \in 1..Len(s) : t[i] = s[i]
  BY AppendProperties, LenProperties
<1> HIDE DEF t
<1>2. \A x : OnScreen(t, x) <=> OnScreen(s, x) \/ x = e
  BY <1>1 DEF OnScreen
<1>. QED BY <1>1, <1>2 DEF t

LEMMA OnConcat ==
  ASSUME NEW st, NEW s \in Seq(Messages(st)), NEW u \in Seq(Messages(st))
  PROVE  /\ s \o u \in Seq(Messages(st))
         /\ \A x : OnScreen(s \o u, x) <=> OnScreen(s, x) \/ OnScreen(u, x)
<1> DEFINE t == s \o u
<1>1. /\ t \in Seq(Messages(st)) /\ Len(s) \in Nat /\ DOMAIN s = 1..Len(s)
      /\ Len(u) \in Nat /\ DOMAIN u = 1..Len(u)
      /\ DOMAIN t = 1..(Len(s) + Len(u))
      /\ \A i \in 1..(Len(s) + Len(u)) : t[i] = IF i <= Len(s) THEN s[i] ELSE u[i - Len(s)]
  BY ConcatProperties, LenProperties
<1> HIDE DEF t
<1>2. ASSUME NEW i \in 1..Len(u) PROVE i + Len(s) \in DOMAIN t /\ t[i + Len(s)] = u[i]
  <2>1. /\ i + Len(s) \in 1..(Len(s) + Len(u)) /\ ~(i + Len(s) <= Len(s))
        /\ (i + Len(s)) - Len(s) = i
    BY <1>1
  <2>. QED BY <1>1, <2>1
<1>3. \A i \in DOMAIN t : \/ i \in DOMAIN s /\ t[i] = s[i]
                          \/ i - Len(s) \in DOMAIN u /\ t[i] = u[i - Len(s)]
  BY <1>1
<1>4. \A i \in DOMAIN s : i \in DOMAIN t /\ t[i] = s[i]
  BY <1>1
<1>5. \A x : OnScreen(t, x) <=> OnScreen(s, x) \/ OnScreen(u, x)
  BY <1>1, <1>2, <1>3, <1>4 DEF OnScreen
<1>. QED BY <1>1, <1>5 DEF t

\* A message that everything on the screen precedes, of a block that has begun.
LEMMA AppendInOrder ==
  ASSUME NEW st, IsStage(st), NEW s \in Seq(Messages(st)), NEW e \in Messages(st), InOrder(st, s),
         \A x : OnScreen(s, x) => Precedes(st, x, e),
         e.ev = "start" \/ OnScreen(s, Message(e.step, "start", 0))
  PROVE  InOrder(st, Append(s, e))
<1> DEFINE t == Append(s, e)
<1>1. /\ Len(s) \in Nat /\ DOMAIN s = 1..Len(s)
      /\ DOMAIN t = 1..(Len(s) + 1) /\ t[Len(s) + 1] = e
      /\ \A i \in 1..Len(s) : t[i] = s[i]
  BY AppendProperties, LenProperties
<1> HIDE DEF t
<1>2. ASSUME NEW i \in DOMAIN t, NEW j \in DOMAIN t, i < j PROVE Precedes(st, t[i], t[j])
  <2>1. i \in 1..Len(s) /\ t[i] = s[i]
    BY <1>1, <1>2
  <2>2. CASE j \in 1..Len(s)
    BY <1>1, <1>2, <2>1, <2>2 DEF InOrder
  <2>3. CASE j = Len(s) + 1
    BY <1>1, <2>1, <2>3 DEF OnScreen
  <2>. QED BY <1>1, <2>2, <2>3
<1>3. ASSUME NEW i \in DOMAIN t, t[i].ev # "start"
      PROVE  \E j \in 1..(i - 1) : t[j].step = t[i].step /\ t[j].ev = "start"
  <2>1. CASE i \in 1..Len(s)
    <3>1. PICK j \in 1..(i - 1) : s[j].step = s[i].step /\ s[j].ev = "start"
      BY <1>1, <1>3, <2>1 DEF InOrder
    <3>2. j \in 1..Len(s)
      BY <1>1, <2>1
    <3>. QED BY <1>1, <2>1, <3>1, <3>2
  <2>2. CASE i = Len(s) + 1
    <3>1. PICK j \in 1..Len(s) : s[j] = Message(e.step, "start", 0)
      BY <1>1, <1>3, <2>2 DEF OnScreen
    <3>2. s[j].step = e.step /\ s[j].ev = "start"
      BY <3>1 DEF Message
    <3>3. j \in 1..(i - 1)
      BY <1>1, <2>2
    <3>. QED BY <1>1, <2>2, <3>2, <3>3
  <2>. QED BY <1>1, <2>1, <2>2
<1>4. InOrder(st, t)
  BY <1>2, <1>3 DEF InOrder
<1>. QED BY <1>4 DEF t

\* The same for a sequence of messages.
LEMMA ConcatInOrder ==
  ASSUME NEW st, IsStage(st), NEW s \in Seq(Messages(st)), NEW u \in Seq(Messages(st)), InOrder(st, s),
         \A x : OnScreen(s, x) => \A j \in 1..Len(u) : Precedes(st, x, u[j]),
         \A i, j \in 1..Len(u) : i < j => Precedes(st, u[i], u[j]),
         \A j \in 1..Len(u) : OnScreen(s, Message(u[j].step, "start", 0))
  PROVE  InOrder(st, s \o u)
<1> DEFINE t == s \o u
<1>1. /\ Len(s) \in Nat /\ DOMAIN s = 1..Len(s) /\ Len(u) \in Nat
      /\ DOMAIN t = 1..(Len(s) + Len(u))
      /\ \A i \in 1..(Len(s) + Len(u)) : t[i] = IF i <= Len(s) THEN s[i] ELSE u[i - Len(s)]
  BY ConcatProperties, LenProperties
<1> HIDE DEF t
<1>2. \A i \in DOMAIN t : \/ i \in 1..Len(s) /\ t[i] = s[i]
                          \/ i > Len(s) /\ i - Len(s) \in 1..Len(u) /\ t[i] = u[i - Len(s)]
  BY <1>1
<1>3. ASSUME NEW i \in DOMAIN t, NEW j \in DOMAIN t, i < j PROVE Precedes(st, t[i], t[j])
  <2>1. CASE j \in 1..Len(s)
    <3>1. i \in 1..Len(s)
      BY <1>1, <1>3, <2>1
    <3>2. t[i] = s[i] /\ t[j] = s[j]
      BY <1>1, <2>1, <3>1
    <3>. QED BY <1>1, <1>3, <2>1, <3>1, <3>2 DEF InOrder
  <2>2. CASE i \in 1..Len(s) /\ j > Len(s)
    <3>1. t[i] = s[i] /\ j - Len(s) \in 1..Len(u) /\ t[j] = u[j - Len(s)]
      BY <1>1, <2>2
    <3>2. OnScreen(s, s[i])
      BY <1>1, <2>2 DEF OnScreen
    <3>. QED BY <3>1, <3>2
  <2>3. CASE i > Len(s)
    <3>1. /\ i - Len(s) \in 1..Len(u) /\ t[i] = u[i - Len(s)]
          /\ j - Len(s) \in 1..Len(u) /\ t[j] = u[j - Len(s)] /\ i - Len(s) < j - Len(s)
      BY <1>1, <1>3, <2>3
    <3>. QED BY <3>1
  <2>. QED BY <1>1, <1>2, <2>1, <2>2, <2>3
<1>4. ASSUME NEW i \in DOMAIN t, t[i].ev # "start"
      PROVE  \E j \in 1..(i - 1) : t[j].step = t[i].step /\ t[j].ev = "start"
  <2>1. CASE i \in 1..Len(s) /\ t[i] = s[i]
    <3>1. PICK j \in 1..(i - 1) : s[j].step = s[i].step /\ s[j].ev = "start"
      BY <1>1, <1>4, <2>1 DEF InOrder
    <3>2. j \in 1..Len(s) /\ t[j] = s[j]
      BY <1>1, <2>1
    <3>. QED BY <2>1, <3>1, <3>2
  <2>2. CASE i > Len(s) /\ i - Len(s) \in 1..Len(u) /\ t[i] = u[i - Len(s)]
    <3>1. PICK j \in 1..Len(s) : s[j] = Message(t[i].step, "start", 0)
      BY <1>1, <2>2 DEF OnScreen
    <3>2. s[j].step = t[i].step /\ s[j].ev = "start"
      BY <3>1 DEF Message
    <3>3. j \in 1..(i - 1) /\ t[j] = s[j]
      BY <1>1, <2>2
    <3>. QED BY <3>2, <3>3
  <2>. QED BY <1>2, <2>1, <2>2
<1>5. InOrder(st, t)
  BY <1>3, <1>4 DEF InOrder
<1>. QED BY <1>5 DEF t

-----------------------------------------------------------------------------
(* What the methods do to the manager *)

LEMMA ManagerFields ==
  ASSUME NEW st, NEW m \in Manager(st)
  PROVE  /\ m.data \in [Node(st) -> StepData] /\ m.screen \in Seq(Messages(st))
         /\ m.currentStep \in Node(st) \cup {NoStep}
         /\ \A n \in Node(st) :
              /\ m.data[n].started \in BOOLEAN /\ m.data[n].completed \in BOOLEAN
              /\ m.data[n].shown \in BOOLEAN /\ m.data[n].status \in Statuses \cup {"none"}
              /\ m.data[n].output \in Seq(Nat)
<1>1. /\ m.data \in [Node(st) -> StepData] /\ m.screen \in Seq(Messages(st))
      /\ m.currentStep \in Node(st) \cup {NoStep}
  BY DEF Manager
<1>2. \A n \in Node(st) : m.data[n] \in StepData
  BY <1>1
<1>. QED BY <1>1, <1>2 DEF StepData

\* The lines 1 to l of step n.
Lines(n, l) == [i \in 1..l |-> Message(n, "line", i)]

LEMMA LinesAre ==
  ASSUME NEW st, IsStage(st), NEW n \in Node(st), NEW l \in Nat
  PROVE  /\ Lines(n, l) \in Seq(Messages(st)) /\ Len(Lines(n, l)) = l
         /\ \A x : OnScreen(Lines(n, l), x) <=> \E k \in 1..l : x = Message(n, "line", k)
<1>1. \A i \in 1..l : Message(n, "line", i) \in Messages(st)
  BY MessagesAre
<1>2. Lines(n, l) \in [1..l -> Messages(st)]
  BY <1>1 DEF Lines
<1>. QED BY <1>2 DEF Lines, OnScreen

\* showStepStart with its assignments.
LEMMA StartShape ==
  ASSUME NEW st, IsStage(st), NEW m \in Manager(st), NEW n \in Node(st)
  PROVE  LET r == ShowStepStart(m, n)
         IN  /\ r \in Manager(st) /\ r.currentStep = n
             /\ r.screen = Append(m.screen, Message(n, "start", 0))
             /\ r.data = [m.data EXCEPT ![n] = [@ EXCEPT !.shown = TRUE]]
<1> DEFINE r == ShowStepStart(m, n)
<1>1. Append(m.screen, Message(n, "start", 0)) \in Seq(Messages(st))
  BY ManagerFields, OnAppend, MessagesAre
<1>2. r = [m EXCEPT !.screen = Append(m.screen, Message(n, "start", 0)),
                    !.data = [m.data EXCEPT ![n] = [m.data[n] EXCEPT !.shown = TRUE]],
                    !.currentStep = n]
  BY DEF ShowStepStart, Manager
<1>3. [m.data[n] EXCEPT !.shown = TRUE] \in StepData
  <2>1. m.data[n] \in StepData
    BY ManagerFields
  <2>. QED BY <2>1 DEF StepData
<1>4. [m.data EXCEPT ![n] = [m.data[n] EXCEPT !.shown = TRUE]] \in [Node(st) -> StepData]
  BY <1>3, ManagerFields
<1>. QED BY <1>1, <1>2, <1>4 DEF Manager

\* flushBufferedOutput, when the buffer holds the lines 1 to l.
LEMMA FlushShape ==
  ASSUME NEW st, IsStage(st), NEW m \in Manager(st), NEW n \in Node(st), NEW l \in Nat,
         m.data[n].output = [k \in 1..l |-> k], NEW r, r = FlushBufferedOutput(m, n)
  PROVE  /\ r \in Manager(st) /\ r.currentStep = m.currentStep
         /\ r.screen = m.screen \o Lines(n, l)
         /\ \A k \in Node(st) : k # n => r.data[k] = m.data[k]
         /\ r.data[n].shown = m.data[n].shown /\ r.data[n].started = m.data[n].started
         /\ r.data[n].completed = m.data[n].completed /\ r.data[n].status = m.data[n].status
<1> DEFINE D == [m.data[n] EXCEPT !.output = <<>>]
<1>1. m.screen \o Lines(n, l) \in Seq(Messages(st))
  BY ManagerFields, OnConcat, LinesAre
<1>2. [i \in DOMAIN m.data[n].output |-> Message(n, "line", m.data[n].output[i])] = Lines(n, l)
  BY DEF Lines
<1>3. r = [m EXCEPT !.screen = m.screen \o Lines(n, l), !.data = [m.data EXCEPT ![n] = D]]
  BY <1>2 DEF FlushBufferedOutput, Manager
<1>4. /\ D \in StepData /\ D.shown = m.data[n].shown /\ D.started = m.data[n].started
      /\ D.completed = m.data[n].completed /\ D.status = m.data[n].status
  <2>1. m.data[n] \in StepData
    BY ManagerFields
  <2>2. <<>> \in Seq(Nat)
    BY EmptySeq
  <2>. QED BY <2>1, <2>2 DEF StepData
<1> HIDE DEF D
<1>5. [m.data EXCEPT ![n] = D] \in [Node(st) -> StepData]
  BY <1>4, ManagerFields
<1>6. /\ r \in Manager(st) /\ r.currentStep = m.currentStep
      /\ r.screen = m.screen \o Lines(n, l) /\ r.data = [m.data EXCEPT ![n] = D]
  BY <1>1, <1>3, <1>5 DEF Manager
<1>7. r.data[n] = D /\ \A k \in Node(st) : k # n => r.data[k] = m.data[k]
  BY <1>6, ManagerFields
<1>. QED BY <1>4, <1>6, <1>7

\* showStepCompletion with the reset.
LEMMA CompletionShape ==
  ASSUME NEW st, IsStage(st), NEW m \in Manager(st), NEW n \in Node(st), m.data[n].status \in Statuses,
         NEW r, r = ShowStepCompletion(m, n)
  PROVE  /\ r \in Manager(st) /\ r.currentStep = NoStep /\ r.data = m.data
         /\ r.screen = Append(m.screen, Message(n, m.data[n].status, 0))
<1>1. Append(m.screen, Message(n, m.data[n].status, 0)) \in Seq(Messages(st))
  <2>1. Message(n, m.data[n].status, 0) \in Messages(st)
    BY MessagesAre
  <2>. QED BY <2>1, ManagerFields, OnAppend
<1>. QED BY <1>1 DEF ShowStepCompletion, Manager

LEMMA PrecedesInBlock ==
  ASSUME NEW st, NEW e \in Messages(st), NEW f \in Messages(st), e.step = f.step,
         \/ e.ev = "start" /\ f.ev # "start"
         \/ e.ev # "start" /\ e.ev = "line" /\ f.ev \in Statuses
         \/ e.ev = "line" /\ f.ev = "line" /\ e.line < f.line
  PROVE  Precedes(st, e, f)
BY MessageFields DEF Precedes, Statuses

\* A step that is not shown comes after everything on the screen.
LEMMA ScreenIsEarlier ==
  ASSUME NEW st, IsStage(st), NEW m \in Manager(st), NEW n \in Node(st), NEW L, NEW T,
         ShownInv(st, m), ScreenInv(st, m, L, T), ~m.data[n].shown
  PROVE  \A x : OnScreen(m.screen, x) =>
           x \in Messages(st) /\ Position(st, x.step) < Position(st, n)
<1> SUFFICES ASSUME NEW i \in DOMAIN m.screen
             PROVE  m.screen[i] \in Messages(st) /\ Position(st, m.screen[i].step) < Position(st, n)
  BY DEF OnScreen
<1>1. m.screen[i] \in Messages(st)
  BY ManagerFields, ElementOfSeq, LenProperties
<1>2. PICK q : q = m.screen[i].step
  OBVIOUS
<1>3. q \in Node(st) /\ m.data[q].shown
  BY <1>1, <1>2, MessageFields DEF ScreenInv
<1>4. q # n
  BY <1>3
<1>5. ~(Position(st, n) < Position(st, q))
  BY <1>3 DEF ShownInv, Earlier
<1>. QED BY <1>1, <1>2, <1>3, <1>4, <1>5, PlacesDiffer

\* r is m with the start message and l lines of step n written.
IsOpened(st, m, n, l, r) ==
  /\ r \in Manager(st) /\ r.currentStep = n /\ InOrder(st, r.screen)
  /\ \A x : OnScreen(r.screen, x) <=>
             \/ OnScreen(m.screen, x) \/ x = Message(n, "start", 0)
             \/ \E k \in 1..l : x = Message(n, "line", k)
  /\ \A k \in Node(st) : k # n => r.data[k] = m.data[k]
  /\ r.data[n].shown /\ r.data[n].started = m.data[n].started
  /\ r.data[n].completed = m.data[n].completed /\ r.data[n].status = m.data[n].status

LEMMA Opened ==
  ASSUME NEW st, IsStage(st), NEW m \in Manager(st), NEW n \in Node(st), NEW l \in Nat,
         m.data[n].output = [k \in 1..l |-> k], InOrder(st, m.screen),
         \A x : OnScreen(m.screen, x) =>
           x \in Messages(st) /\ Position(st, x.step) < Position(st, n),
         NEW r, r = FlushBufferedOutput(ShowStepStart(m, n), n)
  PROVE  IsOpened(st, m, n, l, r)
<1> DEFINE q == ShowStepStart(m, n)
           e == Message(n, "start", 0)
<1>0. r = FlushBufferedOutput(q, n)
  OBVIOUS
<1>1. /\ q \in Manager(st) /\ q.currentStep = n
      /\ q.screen = Append(m.screen, e)
      /\ q.data = [m.data EXCEPT ![n] = [@ EXCEPT !.shown = TRUE]]
  BY StartShape
<1>2. m.data \in [Node(st) -> StepData] /\ m.data[n] \in StepData /\ m.screen \in Seq(Messages(st))
  BY ManagerFields
<1>3. /\ \A k \in Node(st) : k # n => q.data[k] = m.data[k]
      /\ q.data[n] = [m.data[n] EXCEPT !.shown = TRUE]
  BY <1>1, <1>2
<1>4. /\ q.data[n].shown /\ q.data[n].started = m.data[n].started
      /\ q.data[n].completed = m.data[n].completed /\ q.data[n].status = m.data[n].status
      /\ q.data[n].output = m.data[n].output
  BY <1>2, <1>3 DEF StepData
<1>5. e \in Messages(st) /\ e.step = n /\ e.ev = "start"
  BY MessagesAre
<1> HIDE DEF q, e
<1>6. /\ r \in Manager(st) /\ r.currentStep = q.currentStep
      /\ r.screen = q.screen \o Lines(n, l)
      /\ \A k \in Node(st) : k # n => r.data[k] = q.data[k]
      /\ r.data[n].shown = q.data[n].shown /\ r.data[n].started = q.data[n].started
      /\ r.data[n].completed = q.data[n].completed /\ r.data[n].status = q.data[n].status
  <2>1. q \in Manager(st)
    BY <1>1
  <2>2. q.data[n].output = [k \in 1..l |-> k]
    BY <1>4
  <2>. QED BY <1>0, <2>1, <2>2, FlushShape
<1>7. q.screen \in Seq(Messages(st))
  <2>1. q \in Manager(st)
    BY <1>1
  <2>. QED BY <2>1, ManagerFields
<1>10. \A x : OnScreen(q.screen, x) <=> OnScreen(m.screen, x) \/ x = e
  BY <1>1, <1>2, <1>5, OnAppend
<1>11. \A x : OnScreen(r.screen, x) <=> \/ OnScreen(m.screen, x) \/ x = e
                                       \/ \E k \in 1..l : x = Message(n, "line", k)
  BY <1>6, <1>7, <1>10, LinesAre, OnConcat
<1>12. InOrder(st, q.screen)
  <2>1. \A x : OnScreen(m.screen, x) => Precedes(st, x, e)
    BY <1>5 DEF Precedes
  <2>. QED BY <1>1, <1>2, <1>5, <2>1, AppendInOrder
<1>13. InOrder(st, r.screen)
  <2> DEFINE u == Lines(n, l)
  <2>1. /\ u \in Seq(Messages(st)) /\ Len(u) = l
        /\ \A j \in 1..l : u[j] \in Messages(st) /\ u[j].step = n /\ u[j].ev = "line" /\ u[j].line = j
    <3>1. \A j \in 1..l : u[j] = Message(n, "line", j)
      BY DEF Lines
    <3>. QED BY <3>1, LinesAre, MessagesAre
  <2> HIDE DEF u
  <2>2. ASSUME NEW x, OnScreen(q.screen, x), NEW j \in 1..l PROVE Precedes(st, x, u[j])
    <3>1. CASE x = e
      BY <1>5, <2>1, <3>1, PrecedesInBlock
    <3>2. CASE OnScreen(m.screen, x)
      BY <2>1, <3>2 DEF Precedes
    <3>. QED BY <1>10, <2>2, <3>1, <3>2
  <2>3. \A i, j \in 1..l : i < j => Precedes(st, u[i], u[j])
    BY <2>1, PrecedesInBlock
  <2>4. \A j \in 1..l : OnScreen(q.screen, Message(u[j].step, "start", 0))
    BY <1>10, <2>1 DEF e
  <2>5. InOrder(st, q.screen \o u)
    BY <1>7, <1>12, <2>1, <2>2, <2>3, <2>4, ConcatInOrder
  <2>. QED BY <1>6, <2>5 DEF u
<1>14. r.currentStep = n
  BY <1>1, <1>6
<1>15. r \in Manager(st) /\ \A k \in Node(st) : k # n => r.data[k] = m.data[k]
  BY <1>3, <1>6, Zenon
<1>16. /\ r.data[n].shown /\ r.data[n].started = m.data[n].started
       /\ r.data[n].completed = m.data[n].completed /\ r.data[n].status = m.data[n].status
  BY <1>4, <1>6, Zenon
<1>. QED BY <1>11, <1>13, <1>14, <1>15, <1>16 DEF e, IsOpened

\* What a message on the screen says, whatever its place.
Says(m, L, x) ==
  /\ m.data[x.step].shown
  /\ x.ev \in Statuses => m.data[x.step].completed
  /\ x.line <= L[x.step]

LEMMA ScreenSays ==
  ASSUME NEW st, NEW m, NEW L, NEW T
  PROVE  ScreenInv(st, m, L, T) <=>
           /\ InOrder(st, m.screen)
           /\ \A x : OnScreen(m.screen, x) => Says(m, L, x)
           /\ \A n \in Node(st) :
                IF m.data[n].shown
                THEN /\ OnScreen(m.screen, Message(n, "start", 0))
                     /\ m.data[n].completed => OnScreen(m.screen, Message(n, m.data[n].status, 0))
                     /\ \A k \in 1..(L[n] - T[n]) : OnScreen(m.screen, Message(n, "line", k))
                ELSE m.data[n].output = [k \in 1..L[n] |-> k]
<1>1. (\A x : OnScreen(m.screen, x) => Says(m, L, x)) <=>
         (\A i \in DOMAIN m.screen : Says(m, L, m.screen[i]))
  BY DEF OnScreen
<1>. QED BY <1>1, Zenon DEF ScreenInv, Says, ResultShown

LEMMA ResultMessage ==
  ASSUME NEW st, IsStage(st), NEW n \in Node(st), NEW c \in Statuses, NEW e, e = Message(n, c, 0)
  PROVE  e \in Messages(st) /\ e.step = n /\ e.ev \in Statuses /\ e.line = 0
BY DEF Message, Messages

\* Opened, for a step that is not shown.
LEMMA OpenedLate ==
  ASSUME NEW st, IsStage(st), NEW m \in Manager(st), NEW n \in Node(st),
         NEW L \in [Node(st) -> Nat], NEW T,
         ShownInv(st, m), ScreenInv(st, m, L, T), ~m.data[n].shown,
         NEW q, q = FlushBufferedOutput(ShowStepStart(m, n), n)
  PROVE  IsOpened(st, m, n, L[n], q)
<1>1. m.data[n].output = [k \in 1..L[n] |-> k] /\ InOrder(st, m.screen)
  BY ScreenSays
<1>2. \A x : OnScreen(m.screen, x) =>
        x \in Messages(st) /\ Position(st, x.step) < Position(st, n)
  BY ScreenIsEarlier
<1>3. L[n] \in Nat
  OBVIOUS
<1>. QED BY <1>1, <1>2, <1>3, Opened

\* r differs from m in what is shown, and shows more.
Shows(st, m, r) ==
  \A k \in Node(st) :
    /\ r.data[k].started = m.data[k].started /\ r.data[k].completed = m.data[k].completed
    /\ r.data[k].status = m.data[k].status
    /\ m.data[k].shown => r.data[k].shown

\* A completed step has a status.
HasStatus(st, m) == \A k \in Node(st) : m.data[k].completed => m.data[k].status \in Statuses

\* The body of the loop over the completed steps.
LEMMA BlockShown ==
  ASSUME NEW st, IsStage(st), NEW m \in Manager(st), NEW n \in Node(st),
         NEW L \in [Node(st) -> Nat], NEW T \in [Node(st) -> Nat],
         ManagerInv(st, m, L, T), HasStatus(st, m),
         m.data[n].completed, ~m.data[n].shown,
         \A p \in Earlier(st, n) : m.data[p].completed /\ m.data[p].shown,
         NEW r, r = ShowStepCompletion(FlushBufferedOutput(ShowStepStart(m, n), n), n)
  PROVE  r \in Manager(st) /\ ManagerInv(st, r, L, T) /\ Shows(st, m, r) /\ r.data[n].shown
<1> DEFINE q == FlushBufferedOutput(ShowStepStart(m, n), n)
           e == Message(n, m.data[n].status, 0)
<1>1. /\ m.data[n].output = [k \in 1..L[n] |-> k] /\ InOrder(st, m.screen)
      /\ \A x : OnScreen(m.screen, x) => Says(m, L, x)
  BY ScreenSays DEF ManagerInv
<1>2. \A x : OnScreen(m.screen, x) =>
        x \in Messages(st) /\ Position(st, x.step) < Position(st, n)
  BY ScreenIsEarlier DEF ManagerInv
<1> HIDE DEF q, e
<1>3. /\ q \in Manager(st) /\ InOrder(st, q.screen)
      /\ \A x : OnScreen(q.screen, x) <=> \/ OnScreen(m.screen, x) \/ x = Message(n, "start", 0)
                                         \/ \E k \in 1..L[n] : x = Message(n, "line", k)
      /\ \A k \in Node(st) : k # n => q.data[k] = m.data[k]
      /\ q.data[n].shown /\ q.data[n].started = m.data[n].started
      /\ q.data[n].completed = m.data[n].completed /\ q.data[n].status = m.data[n].status
  <2>1. ShownInv(st, m) /\ ScreenInv(st, m, L, T) /\ q = FlushBufferedOutput(ShowStepStart(m, n), n)
    BY DEF ManagerInv, q
  <2>2. IsOpened(st, m, n, L[n], q)
    BY <2>1, OpenedLate
  <2>. QED BY <2>2 DEF IsOpened
<1>4. e \in Messages(st) /\ e.step = n /\ e.ev \in Statuses /\ e.line = 0
  <2>1. m.data[n].status \in Statuses
    BY DEF HasStatus
  <2>. QED BY <2>1, ResultMessage DEF e
<1>5. /\ r \in Manager(st) /\ r.currentStep = NoStep /\ r.data = q.data
      /\ r.screen = Append(q.screen, e)
  <2>1. q.data[n].status \in Statuses /\ r = ShowStepCompletion(q, n)
    BY <1>3 DEF HasStatus, q
  <2>2. q \in Manager(st) /\ Message(n, q.data[n].status, 0) = e
    BY <1>3 DEF e
  <2>. QED BY <2>1, <2>2, CompletionShape
<1>6. \A x : OnScreen(r.screen, x) <=> OnScreen(q.screen, x) \/ x = e
  <2>1. q.screen \in Seq(Messages(st))
    BY <1>3, ManagerFields
  <2>. QED BY <1>4, <1>5, <2>1, OnAppend
<1>7. InOrder(st, r.screen)
  <2>1. ASSUME NEW x, OnScreen(q.screen, x) PROVE Precedes(st, x, e)
    <3>1. CASE OnScreen(m.screen, x)
      BY <1>2, <1>4, <3>1 DEF Precedes
    <3>2. CASE x = Message(n, "start", 0)
      <4>1. x \in Messages(st) /\ x.step = e.step /\ x.ev = "start" /\ e.ev # "start"
        <5>1. x \in Messages(st) /\ x.step = n /\ x.ev = "start"
          BY <3>2, MessagesAre
        <5>. QED BY <1>4, <5>1 DEF Statuses
      <4>. QED BY <1>4, <4>1, PrecedesInBlock
    <3>3. ASSUME NEW k \in 1..L[n], x = Message(n, "line", k) PROVE Precedes(st, x, e)
      <4>1. k \in Nat
        OBVIOUS
      <4>2. x \in Messages(st) /\ x.step = n /\ x.ev = "line"
        BY <3>3, <4>1, MessagesAre
      <4>. QED BY <1>4, <4>2, PrecedesInBlock
    <3>. QED BY <1>3, <2>1, <3>1, <3>2, <3>3
  <2>2. OnScreen(q.screen, Message(e.step, "start", 0)) /\ q.screen \in Seq(Messages(st))
    BY <1>3, <1>4, ManagerFields
  <2>3. InOrder(st, q.screen) /\ \A x : OnScreen(q.screen, x) => Precedes(st, x, e)
    BY <1>3, <2>1
  <2>4. InOrder(st, Append(q.screen, e))
    BY <1>4, <2>2, <2>3, AppendInOrder
  <2>. QED BY <1>5, <2>4
<1>8. Shows(st, m, r) /\ r.data[n].shown
  BY <1>3, <1>5 DEF Shows
<1>9. ShownInv(st, r)
  <2>1. ASSUME NEW k \in Node(st), r.data[k].shown
        PROVE  /\ r.data[k].started \/ r.data[k].completed
               /\ \A p \in Earlier(st, k) : r.data[p].completed /\ r.data[p].shown
    <3>1. Earlier(st, k) \subseteq Node(st)
      BY DEF Earlier
    <3>2. CASE k = n
      BY <1>8, <3>1, <3>2 DEF Shows
    <3>3. CASE k # n
      <4>1. m.data[k].shown
        BY <1>3, <1>5, <2>1, <3>3
      <4>2. /\ m.data[k].started \/ m.data[k].completed
            /\ \A p \in Earlier(st, k) : m.data[p].completed /\ m.data[p].shown
        BY <4>1 DEF ManagerInv, ShownInv
      <4>. QED BY <1>8, <3>1, <4>2 DEF Shows
    <3>. QED BY <3>2, <3>3
  <2>. QED BY <2>1 DEF ShownInv
<1>10. CurrentInv(st, r)
  <2>1. \A k \in Node(st) : r.currentStep # k
    BY <1>5, StagesAreSequences
  <2>2. ASSUME NEW k \in Node(st), r.data[k].shown, ~r.data[k].completed PROVE FALSE
    <3>1. k # n /\ m.data[k].shown /\ ~m.data[k].completed
      BY <1>3, <1>5, <2>2
    <3>2. ~(Position(st, k) < Position(st, n)) /\ ~(Position(st, n) < Position(st, k))
      BY <3>1 DEF Earlier, ManagerInv, ShownInv
    <3>. QED BY <3>1, <3>2, PlacesDiffer
  <2>. QED BY <2>1, <2>2 DEF CurrentInv
<1>11. \A x : OnScreen(r.screen, x) => Says(r, L, x)
  <2> SUFFICES ASSUME NEW x, OnScreen(r.screen, x) PROVE Says(r, L, x)
    OBVIOUS
  <2>1. CASE OnScreen(m.screen, x)
    <3>1. PICK y : y = x.step
      OBVIOUS
    <3>2. y \in Node(st)
      BY <1>2, <2>1, <3>1, MessageFields
    <3>3. Says(m, L, x)
      BY <1>1, <2>1
    <3>. QED BY <1>8, <3>1, <3>2, <3>3 DEF Says, Shows
  <2>2. CASE x = e
    BY <1>4, <1>8, <2>2 DEF Says, Shows
  <2>3. CASE x = Message(n, "start", 0)
    BY <1>8, <2>3, MessagesAre DEF Says, Statuses
  <2>4. ASSUME NEW k \in 1..L[n], x = Message(n, "line", k) PROVE Says(r, L, x)
    <3>1. k \in Nat
      OBVIOUS
    <3>. QED BY <1>8, <2>4, <3>1, MessagesAre DEF Says, Statuses
  <2>. QED BY <1>3, <1>6, <2>1, <2>2, <2>3, <2>4
<1>12. ASSUME NEW k \in Node(st)
       PROVE  IF r.data[k].shown
              THEN /\ OnScreen(r.screen, Message(k, "start", 0))
                   /\ r.data[k].completed => OnScreen(r.screen, Message(k, r.data[k].status, 0))
                   /\ \A j \in 1..(L[k] - T[k]) : OnScreen(r.screen, Message(k, "line", j))
              ELSE r.data[k].output = [j \in 1..L[k] |-> j]
  <2>1. CASE k = n
    <3>1. r.data[n].shown /\ r.data[n].status = m.data[n].status
      BY <1>8 DEF Shows
    <3>2. \A j \in 1..(L[n] - T[n]) : j \in 1..L[n]
      OBVIOUS
    <3>. QED BY <1>3, <1>6, <2>1, <3>1, <3>2 DEF e
  <2>2. CASE k # n
    <3>1. r.data[k] = m.data[k]
      BY <1>3, <1>5, <2>2
    <3>2. \A x : OnScreen(m.screen, x) => OnScreen(r.screen, x)
      BY <1>3, <1>6
    <3>. QED BY <3>1, <3>2, ScreenSays DEF ManagerInv
  <2>. QED BY <2>1, <2>2
<1>13. ScreenInv(st, r, L, T)
  BY <1>7, <1>11, <1>12, ScreenSays
<1>. QED BY <1>5, <1>8, <1>9, <1>10, <1>13 DEF ManagerInv

\* One step of the loop: nothing, or a whole block.
LEMMA VisitKeeps ==
  ASSUME NEW st, IsStage(st), NEW m \in Manager(st), NEW n \in Node(st),
         NEW L \in [Node(st) -> Nat], NEW T \in [Node(st) -> Nat],
         ManagerInv(st, m, L, T), HasStatus(st, m), NEW r, r = ShowIfCompleted(st, m, n)
  PROVE  /\ r \in Manager(st) /\ ManagerInv(st, r, L, T) /\ Shows(st, m, r)
         /\ m.data[n].completed /\ (\A p \in Earlier(st, n) : m.data[p].completed /\ m.data[p].shown)
              => r.data[n].shown
<1> DEFINE can == m.data[n].completed /\ ~m.data[n].shown
                  /\ \A p \in Earlier(st, n) : m.data[p].completed /\ m.data[p].shown
<1>1. (\A i \in 1..(Position(st, n) - 1) : m.data[st[i].action].completed /\ m.data[st[i].action].shown)
        <=> \A p \in Earlier(st, n) : m.data[p].completed /\ m.data[p].shown
  BY EarlierSteps
<1>2. r = IF can THEN ShowStepCompletion(FlushBufferedOutput(ShowStepStart(m, n), n), n) ELSE m
  BY <1>1 DEF ShowIfCompleted
<1>3. CASE can
  BY <1>2, <1>3, BlockShown
<1>4. CASE ~can
  BY <1>2, <1>4 DEF Shows
<1>. QED BY <1>3, <1>4

\* The whole pass shows every completed step that nothing holds back.
LEMMA PassKeeps ==
  ASSUME NEW st, IsStage(st), NEW m \in Manager(st),
         NEW L \in [Node(st) -> Nat], NEW T \in [Node(st) -> Nat],
         ManagerInv(st, m, L, T), HasStatus(st, m),
         NEW r, r = CheckAndShowCompletedSteps(st, m)
  PROVE  /\ r \in Manager(st) /\ ManagerInv(st, r, L, T) /\ Shows(st, m, r)
         /\ CompletedReleased(st, r)
<1>1. PICK g : /\ g = [i \in 0..Len(st) |->
                        IF i = 0 THEN m
                        ELSE ShowIfCompleted(st, g[i - 1], st[i].action)]
               /\ r = g[Len(st)]
  BY PassExists
<1> DEFINE Free(k) == m.data[k].completed /\ \A p \in Earlier(st, k) : m.data[p].completed
           Good(i) == /\ g[i] \in Manager(st) /\ ManagerInv(st, g[i], L, T) /\ Shows(st, m, g[i])
                      /\ \A k \in Node(st) : Position(st, k) <= i /\ Free(k) => g[i].data[k].shown
           Bad == {i \in 0..Len(st) : ~Good(i)}
<1>2. Len(st) \in Nat /\ \A i \in 1..Len(st) : st[i].action \in Node(st)
  BY StagesAreSequences
<1>3. \A k \in Node(st) : Position(st, k) \in 1..Len(st) /\ st[Position(st, k)].action = k
  BY PositionIsFirst
<1>4. g[0] = m /\ \A i \in 1..Len(st) : g[i] = ShowIfCompleted(st, g[i - 1], st[i].action)
  BY <1>1, <1>2
<1>5. ASSUME Bad # {} PROVE FALSE
  <2>1. PICK i \in Bad : \A j \in Bad : ~(j < i)
    <3>1. Bad \in SUBSET Nat
      BY <1>2
    <3> HIDE DEF Bad
    <3>. QED BY <1>5, <3>1, LeastNumber
  <2>2. i # 0
    <3>1. Good(0)
      BY <1>2, <1>3, <1>4 DEF Shows
    <3>. QED BY <2>1, <3>1
  <2>3. i \in 1..Len(st) /\ i - 1 \in 0..Len(st) /\ Good(i - 1)
    BY <1>2, <2>1, <2>2
  <2> DEFINE n == st[i].action
             h == g[i - 1]
             u == g[i]
  <2>4. n \in Node(st) /\ u = ShowIfCompleted(st, h, n)
    BY <1>2, <1>4, <2>3
  <2>5. h \in Manager(st) /\ ManagerInv(st, h, L, T) /\ Shows(st, m, h)
    BY <2>3
  <2>6. \A k \in Node(st) : Position(st, k) <= i - 1 /\ Free(k) => h.data[k].shown
    BY <2>3
  <2>7. HasStatus(st, h)
    BY <2>5 DEF HasStatus, Shows
  <2> HIDE DEF n, h, u
  <2>8. /\ u \in Manager(st) /\ ManagerInv(st, u, L, T) /\ Shows(st, h, u)
        /\ h.data[n].completed /\ (\A p \in Earlier(st, n) : h.data[p].completed /\ h.data[p].shown)
             => u.data[n].shown
    BY <2>4, <2>5, <2>7, VisitKeeps
  <2>9. Shows(st, m, u)
    BY <2>5, <2>8 DEF Shows
  <2>10. ASSUME NEW k \in Node(st), Position(st, k) <= i, Free(k) PROVE u.data[k].shown
    <3>1. CASE Position(st, k) <= i - 1
      BY <2>6, <2>8, <2>10, <3>1 DEF Shows
    <3>2. CASE Position(st, k) = i
      <4>1. k = n
        BY <1>3, <3>2 DEF n
      <4>2. h.data[k].completed
        BY <2>5, <2>10 DEF Shows
      <4>3. ASSUME NEW p \in Earlier(st, k) PROVE h.data[p].completed /\ h.data[p].shown
        <5>1. p \in Node(st) /\ Position(st, p) <= i - 1 /\ Position(st, p) < Position(st, k)
          BY <1>3, <2>3, <3>2 DEF Earlier
        <5>2. Earlier(st, p) \subseteq Earlier(st, k)
          BY <1>3, <5>1 DEF Earlier
        <5>3. Free(p)
          BY <2>10, <5>2
        <5>. QED BY <2>5, <2>6, <5>1, <5>3 DEF Shows
      <4>. QED BY <2>8, <4>1, <4>2, <4>3
    <3>. QED BY <1>3, <2>3, <2>10, <3>1, <3>2
  <2>11. Good(i)
    BY <2>8, <2>9, <2>10 DEF u
  <2>. QED BY <2>1, <2>11
<1>6. Good(Len(st))
  BY <1>2, <1>5
<1>7. /\ r \in Manager(st) /\ ManagerInv(st, r, L, T) /\ Shows(st, m, r)
      /\ \A k \in Node(st) : Free(k) => r.data[k].shown
  BY <1>1, <1>2, <1>3, <1>6
<1>8. CompletedReleased(st, r)
  BY <1>7 DEF CompletedReleased, Shows, Earlier
<1>. QED BY <1>7, <1>8

\* A running step is opened when everything before it is on the screen.
LEMMA OpenKeeps ==
  ASSUME NEW st, IsStage(st), NEW m \in Manager(st), NEW n \in Node(st),
         NEW L \in [Node(st) -> Nat], NEW T \in [Node(st) -> Nat],
         ManagerInv(st, m, L, T), m.data[n].started, ~m.data[n].completed, ~m.data[n].shown,
         \A p \in Earlier(st, n) : m.data[p].completed /\ m.data[p].shown,
         NEW r, IsOpened(st, m, n, L[n], r)
  PROVE  r \in Manager(st) /\ ManagerInv(st, r, L, T) /\ Shows(st, m, r)
<1>1. /\ r \in Manager(st) /\ r.currentStep = n /\ InOrder(st, r.screen)
      /\ \A x : OnScreen(r.screen, x) <=> \/ OnScreen(m.screen, x) \/ x = Message(n, "start", 0)
                                         \/ \E k \in 1..L[n] : x = Message(n, "line", k)
      /\ \A k \in Node(st) : k # n => r.data[k] = m.data[k]
      /\ r.data[n].shown /\ r.data[n].started = m.data[n].started
      /\ r.data[n].completed = m.data[n].completed /\ r.data[n].status = m.data[n].status
  BY DEF IsOpened
<1>2. \A x : OnScreen(m.screen, x) => x \in Messages(st) /\ Says(m, L, x)
  BY ScreenIsEarlier, ScreenSays DEF ManagerInv
<1>3. Shows(st, m, r)
  BY <1>1 DEF Shows
<1>4. ShownInv(st, r)
  BY <1>1, <1>3 DEF ManagerInv, ShownInv, Shows, Earlier
<1>5. CurrentInv(st, r)
  <2>1. ASSUME NEW k \in Node(st), k # n, r.data[k].shown, ~r.data[k].completed PROVE FALSE
    <3>1. m.data[k].shown /\ ~m.data[k].completed
      BY <1>1, <2>1
    <3>2. ~(Position(st, k) < Position(st, n)) /\ ~(Position(st, n) < Position(st, k))
      BY <3>1 DEF Earlier, ManagerInv, ShownInv
    <3>. QED BY <2>1, <3>2, PlacesDiffer
  <2>2. r.data[n].shown /\ ~r.data[n].completed
    BY <1>1
  <2>. QED BY <1>1, <2>1, <2>2 DEF CurrentInv
<1>6. \A x : OnScreen(r.screen, x) => Says(r, L, x)
  <2> SUFFICES ASSUME NEW x, OnScreen(r.screen, x) PROVE Says(r, L, x)
    OBVIOUS
  <2>1. CASE OnScreen(m.screen, x)
    <3>1. PICK y : y = x.step
      OBVIOUS
    <3>2. y \in Node(st)
      BY <1>2, <2>1, <3>1, MessageFields
    <3>3. Says(m, L, x)
      BY <1>2, <2>1
    <3>. QED BY <1>3, <3>1, <3>2, <3>3 DEF Says, Shows
  <2>2. CASE x = Message(n, "start", 0)
    BY <1>1, <2>2, MessagesAre DEF Says, Statuses
  <2>3. ASSUME NEW k \in 1..L[n], x = Message(n, "line", k) PROVE Says(r, L, x)
    <3>1. k \in Nat
      OBVIOUS
    <3>. QED BY <1>1, <2>3, <3>1, MessagesAre DEF Says, Statuses
  <2>. QED BY <1>1, <2>1, <2>2, <2>3
<1>7. ASSUME NEW k \in Node(st)
      PROVE  IF r.data[k].shown
             THEN /\ OnScreen(r.screen, Message(k, "start", 0))
                  /\ r.data[k].completed => OnScreen(r.screen, Message(k, r.data[k].status, 0))
                  /\ \A j \in 1..(L[k] - T[k]) : OnScreen(r.screen, Message(k, "line", j))
             ELSE r.data[k].output = [j \in 1..L[k] |-> j]
  <2>1. CASE k = n
    <3>1. \A j \in 1..(L[n] - T[n]) : j \in 1..L[n]
      OBVIOUS
    <3>. QED BY <1>1, <2>1, <3>1
  <2>2. CASE k # n
    <3>1. r.data[k] = m.data[k]
      BY <1>1, <2>2
    <3>2. \A x : OnScreen(m.screen, x) => OnScreen(r.screen, x)
      BY <1>1
    <3>. QED BY <3>1, <3>2, ScreenSays DEF ManagerInv
  <2>. QED BY <2>1, <2>2
<1>8. ScreenInv(st, r, L, T)
  BY <1>1, <1>6, <1>7, ScreenSays
<1>. QED BY <1>1, <1>3, <1>4, <1>5, <1>8 DEF ManagerInv

LEMMA CanShowMeans ==
  ASSUME NEW st, IsStage(st), NEW m, NEW n \in Node(st)
  PROVE  CanShowStepStart(st, m, n) <=> \A p \in Earlier(st, n) : m.data[p].completed
BY EarlierSteps DEF CanShowStepStart

\* What stands before a step and is completed as a whole is on the screen.
LEMMA EarlierShown ==
  ASSUME NEW st, IsStage(st), NEW m, NEW n \in Node(st), CompletedReleased(st, m),
         \A p \in Earlier(st, n) : m.data[p].completed
  PROVE  \A p \in Earlier(st, n) : m.data[p].completed /\ m.data[p].shown
<1> SUFFICES ASSUME NEW p \in Earlier(st, n) PROVE m.data[p].shown
  OBVIOUS
<1>1. p \in Node(st) /\ Earlier(st, p) \subseteq Earlier(st, n)
  BY PlacesDiffer DEF Earlier
<1>. QED BY <1>1 DEF CompletedReleased

\* checkAndShowNextStep opens the running step that nothing holds back.
LEMMA NextKeeps ==
  ASSUME NEW st, IsStage(st), NEW m \in Manager(st),
         NEW L \in [Node(st) -> Nat], NEW T \in [Node(st) -> Nat],
         ManagerInv(st, m, L, T), CompletedReleased(st, m),
         NEW r, r = CheckAndShowNextStep(st, m)
  PROVE  r \in Manager(st) /\ ManagerInv(st, r, L, T) /\ Shows(st, m, r) /\ Released(st, r)
<1> DEFINE Waits(n) == /\ m.data[n].started /\ ~m.data[n].completed /\ ~m.data[n].shown
                       /\ CanShowStepStart(st, m, n)
           C == {i \in DOMAIN st : Waits(st[i].action)}
           n == st[CHOOSE i \in C : \A j \in C : i <= j].action
<1>1. r = IF C = {} THEN m ELSE FlushBufferedOutput(ShowStepStart(m, n), n)
  BY DEF CheckAndShowNextStep
<1>2. DOMAIN st = 1..Len(st) /\ Len(st) \in Nat /\ \A i \in DOMAIN st : st[i].action \in Node(st)
  BY StagesAreSequences
<1>3. CASE C = {}
  <2>1. ASSUME NEW k \in Node(st) PROVE ~Waits(k)
    <3>1. Position(st, k) \in DOMAIN st /\ st[Position(st, k)].action = k
      BY <1>2, PositionIsFirst
    <3>. QED BY <1>3, <3>1
  <2>2. Released(st, m)
    BY <2>1, CanShowMeans DEF Released, CompletedReleased
  <2>. QED BY <1>1, <1>3, <2>2 DEF Shows
<1>4. CASE C # {}
  <2>1. C \in SUBSET Nat
    BY <1>2
  <2>2. n \in Node(st) /\ Waits(n)
    <3>1. \E i \in C : \A j \in C : i <= j
      <4>1. PICK i \in C : \A j \in C : ~(j < i)
        <5> HIDE DEF C
        <5>. QED BY <1>4, <2>1, LeastNumber
      <4>. QED BY <2>1, <4>1
    <3>2. (CHOOSE i \in C : \A j \in C : i <= j) \in C
      <4> HIDE DEF C
      <4>. QED BY <3>1
    <3>. QED BY <1>2, <3>2
  <2>3. r = FlushBufferedOutput(ShowStepStart(m, n), n)
    BY <1>1, <1>4
  <2> HIDE DEF n, C
  <2>4. /\ m.data[n].started /\ ~m.data[n].completed /\ ~m.data[n].shown
        /\ \A p \in Earlier(st, n) : m.data[p].completed /\ m.data[p].shown
    BY <2>2, CanShowMeans, EarlierShown
  <2>5. ShownInv(st, m) /\ ScreenInv(st, m, L, T)
    BY DEF ManagerInv
  <2>6. IsOpened(st, m, n, L[n], r)
    BY <2>2, <2>3, <2>4, <2>5, OpenedLate
  <2>7. r \in Manager(st) /\ ManagerInv(st, r, L, T) /\ Shows(st, m, r)
    BY <2>2, <2>4, <2>6, OpenKeeps
  <2>8. ASSUME NEW k \in Node(st), r.data[k].started \/ r.data[k].completed,
               \A p \in Earlier(st, k) : r.data[p].completed
        PROVE  r.data[k].shown
    <3>1. /\ m.data[k].started \/ m.data[k].completed
          /\ \A p \in Earlier(st, k) : m.data[p].completed
      BY <2>7, <2>8 DEF Shows, Earlier
    <3>2. CASE k = n
      BY <2>6, <3>2 DEF IsOpened
    <3>3. CASE k # n
      <4>1. ~(Position(st, n) < Position(st, k))
        BY <2>2, <2>4, <3>1 DEF Earlier
      <4>2. Position(st, k) < Position(st, n)
        BY <2>2, <3>3, <4>1, PlacesDiffer
      <4>3. m.data[k].completed
        BY <2>4, <4>2 DEF Earlier
      <4>. QED BY <2>7, <3>1, <4>3 DEF CompletedReleased, Shows
    <3>. QED BY <3>2, <3>3
  <2>. QED BY <2>7, <2>8 DEF Released
<1>. QED BY <1>3, <1>4

-----------------------------------------------------------------------------
(* The three calls *)

\* The data of step n are replaced.
WithData(m, n, d) == [m EXCEPT !.data = [m.data EXCEPT ![n] = d]]

LEMMA DataShape ==
  ASSUME NEW st, IsStage(st), NEW m \in Manager(st), NEW n \in Node(st), NEW d \in StepData,
         NEW r, r = WithData(m, n, d)
  PROVE  /\ r \in Manager(st) /\ r.currentStep = m.currentStep /\ r.screen = m.screen
         /\ r.data[n] = d /\ \A k \in Node(st) : k # n => r.data[k] = m.data[k]
<1>1. [m.data EXCEPT ![n] = d] \in [Node(st) -> StepData]
  BY ManagerFields
<1>2. /\ r \in Manager(st) /\ r.currentStep = m.currentStep /\ r.screen = m.screen
      /\ r.data = [m.data EXCEPT ![n] = d]
  BY <1>1 DEF Manager, WithData
<1>. QED BY <1>2, ManagerFields

\* Started = true changes nothing that is shown.
LEMMA MarkStarted ==
  ASSUME NEW st, IsStage(st), NEW m \in Manager(st), NEW n \in Node(st), NEW L, NEW T,
         ManagerInv(st, m, L, T), NEW d \in StepData, d.started, d.shown = m.data[n].shown,
         d.completed = m.data[n].completed, d.status = m.data[n].status,
         d.output = m.data[n].output, NEW r, r = WithData(m, n, d)
  PROVE  r \in Manager(st) /\ ManagerInv(st, r, L, T)
<1>4. /\ r \in Manager(st) /\ r.currentStep = m.currentStep /\ r.screen = m.screen
      /\ r.data[n] = d /\ \A k \in Node(st) : k # n => r.data[k] = m.data[k]
  BY DataShape
<1>5. ShownInv(st, r)
  BY <1>4 DEF ManagerInv, ShownInv, Earlier
<1>6. CurrentInv(st, r)
  BY <1>4 DEF ManagerInv, CurrentInv
<1>7. \A k \in Node(st) : /\ r.data[k].shown = m.data[k].shown
                          /\ r.data[k].completed = m.data[k].completed
                          /\ r.data[k].status = m.data[k].status
                          /\ r.data[k].output = m.data[k].output
  BY <1>4
<1>8. ScreenInv(st, r, L, T)
  <2>1. ASSUME NEW x, OnScreen(m.screen, x) PROVE Says(r, L, x)
    <3>1. PICK y : y = x.step
      OBVIOUS
    <3>2. x \in Messages(st)
      BY <2>1, ManagerFields, ElementOfSeq, LenProperties DEF OnScreen
    <3>3. y \in Node(st) /\ Says(m, L, x)
      BY <2>1, <3>1, <3>2, MessageFields, ScreenSays DEF ManagerInv
    <3>. QED BY <1>7, <3>1, <3>3 DEF Says
  <2>. QED BY <1>4, <1>7, <2>1, ScreenSays DEF ManagerInv
<1>. QED BY <1>4, <1>5, <1>6, <1>8 DEF ManagerInv

\* The start message of a step without lines.
LEMMA OpenedEmpty ==
  ASSUME NEW st, IsStage(st), NEW m \in Manager(st), NEW n \in Node(st), NEW L, NEW T,
         ShownInv(st, m), ScreenInv(st, m, L, T), ~m.data[n].shown,
         NEW r, r = ShowStepStart(m, n)
  PROVE  IsOpened(st, m, n, 0, r)
<1> DEFINE e == Message(n, "start", 0)
           d == [m.data[n] EXCEPT !.shown = TRUE]
<1>1. /\ r \in Manager(st) /\ r.currentStep = n /\ r.screen = Append(m.screen, e)
      /\ r.data = [m.data EXCEPT ![n] = d]
  BY StartShape
<1>2. m.data \in [Node(st) -> StepData] /\ m.data[n] \in StepData /\ m.screen \in Seq(Messages(st))
  BY ManagerFields
<1>3. /\ d.shown /\ d.started = m.data[n].started
      /\ d.completed = m.data[n].completed /\ d.status = m.data[n].status
  BY <1>2 DEF StepData
<1>4. e \in Messages(st) /\ e.step = n /\ e.ev = "start"
  BY MessagesAre
<1> HIDE DEF e, d
<1>5. r.data[n] = d /\ \A k \in Node(st) : k # n => r.data[k] = m.data[k]
  BY <1>1, <1>2
<1>6. InOrder(st, r.screen)
  <2>1. \A x : OnScreen(m.screen, x) => Precedes(st, x, e)
    BY <1>4, ScreenIsEarlier DEF Precedes
  <2>2. InOrder(st, m.screen)
    BY DEF ScreenInv
  <2>. QED BY <1>1, <1>2, <1>4, <2>1, <2>2, AppendInOrder
<1>7. \A x : OnScreen(r.screen, x) <=> OnScreen(m.screen, x) \/ x = e
  BY <1>1, <1>2, <1>4, OnAppend
<1>8. \A x : ~\E k \in 1..0 : x = Message(n, "line", k)
  OBVIOUS
<1>. QED BY <1>1, <1>3, <1>5, <1>6, <1>7, <1>8 DEF e, IsOpened

\* What holds of the manager r after a call: m is the manager before it.
AfterStart(st, m, n, L, T, r) ==
  /\ r \in Manager(st) /\ ManagerInv(st, r, L, T) /\ Released(st, r)
  /\ \A k \in Node(st) : /\ r.data[k].completed = m.data[k].completed
                         /\ r.data[k].status = m.data[k].status
                         /\ IF k = n THEN r.data[k].started ELSE r.data[k].started = m.data[k].started

AfterOutput(st, m, L, T, r) ==
  /\ r \in Manager(st) /\ ManagerInv(st, r, L, T) /\ Released(st, r)
  /\ \A k \in Node(st) : /\ r.data[k].completed = m.data[k].completed
                         /\ r.data[k].status = m.data[k].status
                         /\ r.data[k].started = m.data[k].started

AfterComplete(st, m, n, s, L, T, r) ==
  /\ r \in Manager(st) /\ ManagerInv(st, r, L, T) /\ Released(st, r)
  /\ \A k \in Node(st) : /\ r.data[k].started = m.data[k].started
                         /\ IF k = n THEN r.data[k].completed ELSE r.data[k].completed = m.data[k].completed
                         /\ r.data[k].status = IF k = n THEN s ELSE m.data[k].status

\* OnStepStart, for a step that is new and has no lines.
LEMMA OnStartKeeps ==
  ASSUME NEW st, IsStage(st), NEW m \in Manager(st), NEW n \in Node(st),
         NEW L \in [Node(st) -> Nat], NEW T \in [Node(st) -> Nat],
         ManagerInv(st, m, L, T), Released(st, m), ~m.data[n].started, ~m.data[n].completed,
         L[n] = 0, NEW r, r = OnStepStart(st, m, n)
  PROVE  AfterStart(st, m, n, L, T, r)
<1> DEFINE q == [m EXCEPT !.data[n].started = TRUE]
           d == [m.data[n] EXCEPT !.started = TRUE]
<1>1. r = IF CanShowStepStart(st, q, n) /\ ~q.data[n].shown THEN ShowStepStart(q, n) ELSE q
  BY DEF OnStepStart
<1>2. q = WithData(m, n, d)
  BY DEF Manager, WithData
<1>3. /\ q \in Manager(st) /\ ManagerInv(st, q, L, T) /\ q.data[n].started
      /\ \A k \in Node(st) : k # n => q.data[k] = m.data[k]
      /\ q.data[n].shown = m.data[n].shown /\ q.data[n].completed = m.data[n].completed
      /\ q.data[n].status = m.data[n].status
  <2>1. m.data[n] \in StepData
    BY ManagerFields
  <2>2. /\ d \in StepData /\ d.started /\ d.shown = m.data[n].shown
        /\ d.completed = m.data[n].completed /\ d.status = m.data[n].status
        /\ d.output = m.data[n].output
    BY <2>1 DEF StepData
  <2> HIDE DEF q, d
  <2>3. q \in Manager(st) /\ ManagerInv(st, q, L, T)
    BY <1>2, <2>2, MarkStarted
  <2>4. q.data[n] = d /\ \A k \in Node(st) : k # n => q.data[k] = m.data[k]
    BY <1>2, <2>2, DataShape
  <2>. QED BY <2>2, <2>3, <2>4
<1> HIDE DEF q, d
<1>4. ~m.data[n].shown
  BY DEF ManagerInv, ShownInv
<1>5. \A k \in Node(st) : /\ q.data[k].completed = m.data[k].completed
                          /\ q.data[k].status = m.data[k].status
                          /\ IF k = n THEN q.data[k].started ELSE q.data[k].started = m.data[k].started
  BY <1>3, ManagerFields
<1>6. CompletedReleased(st, q)
  BY <1>3, <1>5 DEF Released, CompletedReleased, Earlier
<1>7. CASE CanShowStepStart(st, q, n)
  <2>1. r = ShowStepStart(q, n) /\ ~q.data[n].shown /\ ~q.data[n].completed
    BY <1>1, <1>3, <1>4, <1>7
  <2>2. \A p \in Earlier(st, n) : q.data[p].completed /\ q.data[p].shown
    BY <1>6, <1>7, CanShowMeans, EarlierShown
  <2>3. ShownInv(st, q) /\ ScreenInv(st, q, L, T)
    BY <1>3 DEF ManagerInv
  <2>4. IsOpened(st, q, n, L[n], r)
    BY <1>3, <2>1, <2>3, OpenedEmpty
  <2>5. r \in Manager(st) /\ ManagerInv(st, r, L, T) /\ Shows(st, q, r)
    BY <1>3, <2>1, <2>2, <2>4, OpenKeeps
  <2>6. r.data[n].shown
    BY <2>4 DEF IsOpened
  <2>7. Released(st, r)
    <3>1. ASSUME NEW k \in Node(st), k # n, r.data[k].started \/ r.data[k].completed,
                 \A p \in Earlier(st, k) : r.data[p].completed
          PROVE  r.data[k].shown
      <4>1. /\ m.data[k].started \/ m.data[k].completed
            /\ \A p \in Earlier(st, k) : m.data[p].completed
        BY <1>5, <2>5, <3>1 DEF Shows, Earlier
      <4>2. m.data[k].shown /\ q.data[k].shown
        BY <1>3, <3>1, <4>1 DEF Released
      <4>. QED BY <2>5, <4>2 DEF Shows
    <3>. QED BY <2>6, <3>1 DEF Released
  <2>. QED BY <1>5, <2>5, <2>7 DEF Shows, AfterStart
<1>8. CASE ~CanShowStepStart(st, q, n)
  <2>1. r = q
    BY <1>1, <1>8
  <2>2. Released(st, q)
    <3>1. ~\A p \in Earlier(st, n) : q.data[p].completed
      BY <1>8, CanShowMeans
    <3>. QED BY <1>3, <1>5, <3>1 DEF Released, Earlier
  <2>. QED BY <1>3, <1>5, <2>1, <2>2 DEF AfterStart
<1>. QED BY <1>7, <1>8

\* The numbers 1 to l with the next one.
LEMMA NextLine ==
  ASSUME NEW l \in Nat, NEW s, s = [k \in 1..l |-> k]
  PROVE  Append(s, l + 1) = [k \in 1..(l + 1) |-> k]
<1>1. s \in Seq(Nat) /\ Len(s) = l
  OBVIOUS
<1>2. /\ Append(s, l + 1) \in Seq(Nat) /\ DOMAIN Append(s, l + 1) = 1..(l + 1)
      /\ Append(s, l + 1)[l + 1] = l + 1 /\ \A i \in 1..l : Append(s, l + 1)[i] = i
  BY <1>1, AppendProperties
<1> DEFINE a == Append(s, l + 1)
<1>3. a = [k \in DOMAIN a |-> a[k]]
  BY <1>2
<1>. QED BY <1>2, <1>3

\* A line is written after everything on the screen.
LEMMA LineIsLast ==
  ASSUME NEW st, IsStage(st), NEW m \in Manager(st), NEW n \in Node(st),
         NEW L \in [Node(st) -> Nat], NEW T, ManagerInv(st, m, L, T),
         m.data[n].shown, ~m.data[n].completed, NEW e \in Messages(st),
         e.step = n, e.ev = "line", e.line = L[n] + 1, NEW x, OnScreen(m.screen, x)
  PROVE  Precedes(st, x, e)
<1>1. x \in Messages(st)
  BY ManagerFields, ElementOfSeq, LenProperties DEF OnScreen
<1>2. PICK y : y = x.step
  OBVIOUS
<1>3. /\ y \in Node(st) /\ x.ev \in {"start", "line"} \cup Statuses /\ x.line \in Nat
      /\ Says(m, L, x)
  BY <1>1, <1>2, MessageFields, ScreenSays DEF ManagerInv
<1>4. CASE y = n
  <2>1. x.step = e.step /\ x.ev \notin Statuses /\ x.line <= L[n]
    BY <1>2, <1>3, <1>4 DEF Says
  <2>2. x.ev = "start" \/ (x.ev = "line" /\ x.line < e.line)
    BY <1>3, <2>1
  <2>. QED BY <1>1, <2>1, <2>2, PrecedesInBlock
<1>5. CASE y # n
  <2>1. ~(Position(st, n) < Position(st, y))
    BY <1>2, <1>3 DEF Says, ManagerInv, ShownInv, Earlier
  <2>2. Position(st, y) < Position(st, n)
    BY <1>3, <1>5, <2>1, PlacesDiffer
  <2>. QED BY <1>2, <2>2 DEF Precedes
<1>. QED BY <1>4, <1>5

\* The counts of lines and late lines after one more line of step n.
OneMore(st, m, n, L, T, U, V) ==
  /\ U[n] = L[n] + 1 /\ V[n] = IF m.data[n].completed THEN T[n] + 1 ELSE T[n]
  /\ \A k \in Node(st) : k # n => U[k] = L[k] /\ V[k] = T[k]

\* OnStepOutput: the line is buffered, and written if the step is the current one.
LEMMA OnOutputKeeps ==
  ASSUME NEW st, IsStage(st), NEW m \in Manager(st), NEW n \in Node(st),
         NEW L \in [Node(st) -> Nat], NEW T \in [Node(st) -> Nat],
         NEW U \in [Node(st) -> Nat], NEW V \in [Node(st) -> Nat],
         ManagerInv(st, m, L, T), Released(st, m), T[n] <= L[n], ~m.data[n].completed => T[n] = 0,
         OneMore(st, m, n, L, T, U, V), NEW r, r = OnStepOutput(m, n, L[n] + 1)
  PROVE  AfterOutput(st, m, U, V, r)
<1> DEFINE q == [m EXCEPT !.data[n].output = Append(@, L[n] + 1)]
           d == [m.data[n] EXCEPT !.output = Append(m.data[n].output, L[n] + 1)]
           e == Message(n, "line", L[n] + 1)
<1>0. /\ U[n] = L[n] + 1 /\ V[n] = IF m.data[n].completed THEN T[n] + 1 ELSE T[n]
      /\ \A k \in Node(st) : k # n => U[k] = L[k] /\ V[k] = T[k]
  BY DEF OneMore
<1>1. r = IF q.currentStep = n THEN ShowStepOutput(q, n, L[n] + 1) ELSE q
  BY DEF OnStepOutput
<1>2. q = WithData(m, n, d)
  BY DEF Manager, WithData
<1>3. m.data[n] \in StepData /\ m.data[n].output \in Seq(Nat) /\ L[n] + 1 \in Nat
  BY ManagerFields
<1>4. /\ d \in StepData /\ d.started = m.data[n].started /\ d.shown = m.data[n].shown
      /\ d.completed = m.data[n].completed /\ d.status = m.data[n].status
      /\ d.output = Append(m.data[n].output, L[n] + 1)
  <2>1. Append(m.data[n].output, L[n] + 1) \in Seq(Nat)
    BY <1>3, AppendProperties
  <2>. QED BY <1>3, <2>1 DEF StepData
<1>5. e \in Messages(st) /\ e.step = n /\ e.ev = "line" /\ e.line = L[n] + 1
  BY <1>3, MessagesAre
<1>6. r.data = q.data /\ r.currentStep = q.currentStep
      /\ r.screen = IF q.currentStep = n THEN Append(q.screen, e) ELSE q.screen
  <2> HIDE DEF d
  <2>1. q \in Manager(st)
    <3> HIDE DEF q
    <3>. QED BY <1>2, <1>4, DataShape
  <2> HIDE DEF q
  <2>. QED BY <1>1, <2>1 DEF ShowStepOutput, Manager
<1> HIDE DEF q, d, e
<1>7. /\ q \in Manager(st) /\ q.currentStep = m.currentStep /\ q.screen = m.screen
      /\ q.data[n] = d /\ \A k \in Node(st) : k # n => q.data[k] = m.data[k]
  BY <1>2, <1>4, DataShape
<1>8. \A k \in Node(st) : /\ r.data[k].shown = m.data[k].shown
                          /\ r.data[k].completed = m.data[k].completed
                          /\ r.data[k].status = m.data[k].status
                          /\ r.data[k].started = m.data[k].started
                          /\ k # n => r.data[k].output = m.data[k].output
  BY <1>4, <1>6, <1>7
<1>9. m.screen \in Seq(Messages(st)) /\ InOrder(st, m.screen)
  BY ManagerFields DEF ManagerInv, ScreenInv
<1>10. /\ r \in Manager(st) /\ InOrder(st, r.screen)
       /\ \A x : OnScreen(r.screen, x) <=> OnScreen(m.screen, x) \/ (m.currentStep = n /\ x = e)
  <2>1. CASE m.currentStep = n
    <3>1. r.screen = Append(m.screen, e) /\ m.data[n].shown /\ ~m.data[n].completed
      BY <1>6, <1>7, <2>1 DEF ManagerInv, CurrentInv
    <3>2. \A x : OnScreen(m.screen, x) => Precedes(st, x, e)
      BY <1>5, <3>1, LineIsLast
    <3>3. OnScreen(m.screen, Message(e.step, "start", 0))
      BY <1>5, <3>1, ScreenSays DEF ManagerInv
    <3>4. InOrder(st, r.screen)
      BY <1>5, <1>9, <3>1, <3>2, <3>3, AppendInOrder
    <3>5. /\ Append(m.screen, e) \in Seq(Messages(st))
          /\ \A x : OnScreen(Append(m.screen, e), x) <=> OnScreen(m.screen, x) \/ x = e
      BY <1>5, <1>9, OnAppend
    <3>6. r \in Manager(st)
      <4>1. r = [q EXCEPT !.screen = Append(m.screen, e)]
        BY <1>1, <1>7, <2>1 DEF ShowStepOutput, e
      <4>. QED BY <1>7, <3>5, <4>1 DEF Manager
    <3>. QED BY <2>1, <3>1, <3>4, <3>5, <3>6
  <2>2. CASE m.currentStep # n
    BY <1>1, <1>6, <1>7, <1>9, <2>2
  <2>. QED BY <2>1, <2>2
<1>11. ShownInv(st, r) /\ Released(st, r)
  BY <1>8 DEF ManagerInv, ShownInv, Released, Earlier
<1>12. CurrentInv(st, r)
  BY <1>6, <1>7, <1>8 DEF ManagerInv, CurrentInv
<1>13. ASSUME NEW x, OnScreen(r.screen, x) PROVE Says(r, U, x)
  <2>1. CASE OnScreen(m.screen, x)
    <3>1. PICK y : y = x.step
      OBVIOUS
    <3>2. x \in Messages(st)
      BY <1>9, <2>1, ElementOfSeq, LenProperties DEF OnScreen
    <3>3. y \in Node(st) /\ x.line \in Nat /\ Says(m, L, x)
      BY <2>1, <3>1, <3>2, MessageFields, ScreenSays DEF ManagerInv
    <3>4. L[y] \in Nat /\ U[y] \in Nat /\ L[y] <= U[y]
      BY <1>0, <3>3
    <3>. QED BY <1>8, <3>1, <3>3, <3>4 DEF Says
  <2>2. CASE m.currentStep = n /\ x = e
    BY <1>0, <1>5, <1>8, <2>2 DEF Says, ManagerInv, CurrentInv, Statuses
  <2>. QED BY <1>10, <1>13, <2>1, <2>2
<1>14. ASSUME NEW k \in Node(st)
       PROVE  IF r.data[k].shown
              THEN /\ OnScreen(r.screen, Message(k, "start", 0))
                   /\ r.data[k].completed => OnScreen(r.screen, Message(k, r.data[k].status, 0))
                   /\ \A j \in 1..(U[k] - V[k]) : OnScreen(r.screen, Message(k, "line", j))
              ELSE r.data[k].output = [j \in 1..U[k] |-> j]
  <2>0. \A x : OnScreen(m.screen, x) => OnScreen(r.screen, x)
    BY <1>10
  <2>1. CASE k # n
    BY <1>0, <1>8, <2>0, <2>1, ScreenSays DEF ManagerInv
  <2>2. CASE k = n /\ m.data[n].shown
    <3>1. ASSUME NEW j \in 1..(U[n] - V[n]) PROVE OnScreen(r.screen, Message(n, "line", j))
      <4>1. CASE m.data[n].completed
        <5>1. j \in 1..(L[n] - T[n])
          BY <1>0, <4>1
        <5>. QED BY <2>0, <2>2, <5>1, ScreenSays DEF ManagerInv
      <4>2. CASE ~m.data[n].completed
        <5>1. m.currentStep = n
          BY <2>2, <4>2 DEF ManagerInv, CurrentInv
        <5>2. j \in 1..(L[n] - T[n]) \/ j = L[n] + 1
          BY <1>0, <4>2
        <5>3. CASE j = L[n] + 1
          BY <1>10, <5>1, <5>3 DEF e
        <5>4. CASE j \in 1..(L[n] - T[n])
          BY <2>0, <2>2, <5>4, ScreenSays DEF ManagerInv
        <5>. QED BY <5>2, <5>3, <5>4
      <4>. QED BY <4>1, <4>2
    <3>2. /\ OnScreen(r.screen, Message(n, "start", 0))
          /\ m.data[n].completed => OnScreen(r.screen, Message(n, m.data[n].status, 0))
      BY <2>0, <2>2, ScreenSays DEF ManagerInv
    <3>3. /\ r.data[n].shown /\ r.data[n].completed = m.data[n].completed
          /\ r.data[n].status = m.data[n].status
      BY <1>8, <2>2
    <3>. QED BY <2>2, <3>1, <3>2, <3>3
  <2>3. CASE k = n /\ ~m.data[n].shown
    <3>1. m.data[n].output = [j \in 1..L[n] |-> j]
      BY <2>3, ScreenSays DEF ManagerInv
    <3>2. r.data[n].output = Append(m.data[n].output, L[n] + 1)
      BY <1>4, <1>6, <1>7
    <3>3. PICK s : s = m.data[n].output
      OBVIOUS
    <3>4. Append(s, L[n] + 1) = [j \in 1..(L[n] + 1) |-> j]
      BY <3>1, <3>3, NextLine
    <3>5. r.data[n].output = [j \in 1..U[n] |-> j]
      BY <1>0, <3>2, <3>3, <3>4
    <3>. QED BY <1>8, <2>3, <3>5
  <2>. QED BY <2>1, <2>2, <2>3
<1>15. ScreenInv(st, r, U, V)
  BY <1>10, <1>13, <1>14, ScreenSays
<1>. QED BY <1>8, <1>10, <1>11, <1>12, <1>15 DEF ManagerInv, AfterOutput

\* A result is written after everything on the screen.
LEMMA ResultIsLast ==
  ASSUME NEW st, IsStage(st), NEW m \in Manager(st), NEW n \in Node(st),
         NEW L \in [Node(st) -> Nat], NEW T, ManagerInv(st, m, L, T),
         m.data[n].shown, ~m.data[n].completed, NEW e \in Messages(st),
         e.step = n, e.ev \in Statuses, NEW x, OnScreen(m.screen, x)
  PROVE  Precedes(st, x, e)
<1>1. x \in Messages(st)
  BY ManagerFields, ElementOfSeq, LenProperties DEF OnScreen
<1>2. PICK y : y = x.step
  OBVIOUS
<1>3. /\ y \in Node(st) /\ x.ev \in {"start", "line"} \cup Statuses /\ Says(m, L, x)
  BY <1>1, <1>2, MessageFields, ScreenSays DEF ManagerInv
<1>4. CASE y = n
  <2>1. x.step = e.step /\ (x.ev = "start" \/ x.ev = "line") /\ e.ev # "start"
    BY <1>2, <1>3, <1>4 DEF Says, Statuses
  <2>. QED BY <1>1, <2>1, PrecedesInBlock
<1>5. CASE y # n
  <2>1. ~(Position(st, n) < Position(st, y))
    BY <1>2, <1>3 DEF Says, ManagerInv, ShownInv, Earlier
  <2>2. Position(st, y) < Position(st, n)
    BY <1>3, <1>5, <2>1, PlacesDiffer
  <2>. QED BY <1>2, <2>2 DEF Precedes
<1>. QED BY <1>4, <1>5

\* The first half of OnStepComplete: the step is marked, and its result written
\* if it is the current step.
LEMMA MarkCompleted ==
  ASSUME NEW st, IsStage(st), NEW m \in Manager(st), NEW n \in Node(st),
         NEW L \in [Node(st) -> Nat], NEW T \in [Node(st) -> Nat],
         ManagerInv(st, m, L, T), ~m.data[n].completed,
         NEW d \in StepData, d.completed, d.status \in Statuses, d.shown = m.data[n].shown,
         d.started = m.data[n].started, d.output = m.data[n].output,
         NEW q, q = WithData(m, n, d),
         NEW r, r = IF q.currentStep = n THEN ShowStepCompletion(q, n) ELSE q
  PROVE  /\ r \in Manager(st) /\ ManagerInv(st, r, L, T)
         /\ r.data[n] = d /\ \A k \in Node(st) : k # n => r.data[k] = m.data[k]
<1> DEFINE e == Message(n, d.status, 0)
<1>1. /\ q \in Manager(st) /\ q.currentStep = m.currentStep /\ q.screen = m.screen
      /\ q.data[n] = d /\ \A k \in Node(st) : k # n => q.data[k] = m.data[k]
  BY DataShape
<1>2. e \in Messages(st) /\ e.step = n /\ e.ev \in Statuses /\ e.line = 0
  BY ResultMessage
<1>3. m.screen \in Seq(Messages(st)) /\ InOrder(st, m.screen)
  BY ManagerFields DEF ManagerInv, ScreenInv
<1>4. m.data[n].shown <=> m.currentStep = n
  BY DEF ManagerInv, CurrentInv
<1> HIDE DEF e
<1>5. /\ r \in Manager(st) /\ r.data = q.data
      /\ r.currentStep = IF m.currentStep = n THEN NoStep ELSE m.currentStep
      /\ r.screen = IF m.currentStep = n THEN Append(m.screen, e) ELSE m.screen
  <2>1. CASE m.currentStep = n
    <3>1. r = ShowStepCompletion(q, n) /\ q.data[n].status \in Statuses /\ q \in Manager(st)
      BY <1>1, <2>1
    <3>2. /\ r \in Manager(st) /\ r.currentStep = NoStep /\ r.data = q.data
          /\ r.screen = Append(q.screen, Message(n, q.data[n].status, 0))
      BY <3>1, CompletionShape
    <3>. QED BY <1>1, <2>1, <3>2 DEF e
  <2>2. CASE m.currentStep # n
    BY <1>1, <2>2
  <2>. QED BY <2>1, <2>2
<1>6. /\ InOrder(st, r.screen)
      /\ \A x : OnScreen(r.screen, x) <=> OnScreen(m.screen, x) \/ (m.currentStep = n /\ x = e)
  <2>1. CASE m.currentStep = n
    <3>1. \A x : OnScreen(m.screen, x) => Precedes(st, x, e)
      BY <1>2, <1>4, <2>1, ResultIsLast
    <3>2. OnScreen(m.screen, Message(e.step, "start", 0))
      BY <1>2, <1>4, <2>1, ScreenSays DEF ManagerInv
    <3>3. InOrder(st, Append(m.screen, e))
      BY <1>2, <1>3, <3>1, <3>2, AppendInOrder
    <3>4. \A x : OnScreen(Append(m.screen, e), x) <=> OnScreen(m.screen, x) \/ x = e
      BY <1>2, <1>3, OnAppend
    <3>. QED BY <1>5, <2>1, <3>3, <3>4
  <2>2. CASE m.currentStep # n
    BY <1>3, <1>5, <2>2
  <2>. QED BY <2>1, <2>2
<1>7. r.data[n] = d /\ \A k \in Node(st) : k # n => r.data[k] = m.data[k]
  BY <1>1, <1>5
<1>8. \A k \in Node(st) : /\ r.data[k].shown = m.data[k].shown
                          /\ m.data[k].completed => r.data[k].completed
                          /\ r.data[k].started = m.data[k].started
                          /\ r.data[k].output = m.data[k].output
  BY <1>7
<1>9. ShownInv(st, r)
  BY <1>8 DEF ManagerInv, ShownInv, Earlier
<1>10. CurrentInv(st, r)
  <2> SUFFICES ASSUME NEW k \in Node(st)
               PROVE  r.currentStep = k <=> r.data[k].shown /\ ~r.data[k].completed
    BY DEF CurrentInv
  <2>0. m.currentStep = k <=> m.data[k].shown /\ ~m.data[k].completed
    BY DEF ManagerInv, CurrentInv
  <2>1. CASE k = n
    BY <1>5, <1>7, <2>1, StagesAreSequences
  <2>2. CASE k # n
    BY <1>5, <1>7, <2>0, <2>2, StagesAreSequences
  <2>. QED BY <2>1, <2>2
<1>11. ASSUME NEW x, OnScreen(r.screen, x) PROVE Says(r, L, x)
  <2>1. CASE OnScreen(m.screen, x)
    <3>1. PICK y : y = x.step
      OBVIOUS
    <3>2. x \in Messages(st)
      BY <1>3, <2>1, ElementOfSeq, LenProperties DEF OnScreen
    <3>3. y \in Node(st) /\ Says(m, L, x)
      BY <2>1, <3>1, <3>2, MessageFields, ScreenSays DEF ManagerInv
    <3>. QED BY <1>8, <3>1, <3>3 DEF Says
  <2>2. CASE m.currentStep = n /\ x = e
    BY <1>2, <1>4, <1>7, <2>2 DEF Says
  <2>. QED BY <1>6, <1>11, <2>1, <2>2
<1>12. ASSUME NEW k \in Node(st)
       PROVE  IF r.data[k].shown
              THEN /\ OnScreen(r.screen, Message(k, "start", 0))
                   /\ r.data[k].completed => OnScreen(r.screen, Message(k, r.data[k].status, 0))
                   /\ \A j \in 1..(L[k] - T[k]) : OnScreen(r.screen, Message(k, "line", j))
              ELSE r.data[k].output = [j \in 1..L[k] |-> j]
  <2>0. \A x : OnScreen(m.screen, x) => OnScreen(r.screen, x)
    BY <1>6
  <2>1. CASE k # n
    <3>1. r.data[k] = m.data[k]
      BY <1>7, <2>1
    <3>. QED BY <2>0, <3>1, ScreenSays DEF ManagerInv
  <2>2. CASE k = n /\ m.data[n].shown
    <3>1. OnScreen(r.screen, Message(n, d.status, 0))
      BY <1>4, <1>6, <2>2 DEF e
    <3>2. /\ OnScreen(m.screen, Message(n, "start", 0))
          /\ \A j \in 1..(L[n] - T[n]) : OnScreen(m.screen, Message(n, "line", j))
      BY <2>2, ScreenSays DEF ManagerInv
    <3>3. r.data[n] = d /\ d.shown
      BY <1>7, <2>2
    <3>. QED BY <2>0, <2>2, <3>1, <3>2, <3>3
  <2>3. CASE k = n /\ ~m.data[n].shown
    BY <1>7, <2>3, ScreenSays DEF ManagerInv
  <2>. QED BY <2>1, <2>2, <2>3
<1>13. ScreenInv(st, r, L, T)
  BY <1>6, <1>11, <1>12, ScreenSays
<1>. QED BY <1>5, <1>7, <1>9, <1>10, <1>13 DEF ManagerInv

\* OnStepComplete: the completed steps that were waiting follow, then the
\* running step that is first now.
LEMMA OnCompleteKeeps ==
  ASSUME NEW st, IsStage(st), NEW m \in Manager(st), NEW n \in Node(st),
         NEW L \in [Node(st) -> Nat], NEW T \in [Node(st) -> Nat],
         ManagerInv(st, m, L, T), HasStatus(st, m), ~m.data[n].completed,
         NEW s \in Statuses, NEW r, r = OnStepComplete(st, m, n, s)
  PROVE  AfterComplete(st, m, n, s, L, T, r)
<1> DEFINE q == [m EXCEPT !.data[n].completed = TRUE, !.data[n].status = s]
           d == [m.data[n] EXCEPT !.completed = TRUE, !.status = s]
           u == IF q.currentStep = n THEN ShowStepCompletion(q, n) ELSE q
           v == CheckAndShowCompletedSteps(st, u)
<1>1. r = CheckAndShowNextStep(st, v)
  BY DEF OnStepComplete
<1>2. m.data[n] \in StepData
  BY ManagerFields
<1>3. /\ d \in StepData /\ d.started = m.data[n].started /\ d.shown = m.data[n].shown
      /\ d.completed /\ d.status = s /\ d.output = m.data[n].output
  BY <1>2 DEF StepData
<1>4. q = WithData(m, n, d)
  BY DEF Manager, WithData, StepData
<1> HIDE DEF q, d, v
<1>5. /\ u \in Manager(st) /\ ManagerInv(st, u, L, T)
      /\ u.data[n] = d /\ \A k \in Node(st) : k # n => u.data[k] = m.data[k]
  BY <1>3, <1>4, MarkCompleted
<1> HIDE DEF u
<1>6. HasStatus(st, u)
  BY <1>3, <1>5 DEF HasStatus
<1>7. /\ v \in Manager(st) /\ ManagerInv(st, v, L, T) /\ Shows(st, u, v)
      /\ CompletedReleased(st, v)
  <2>1. v = CheckAndShowCompletedSteps(st, u) /\ u \in Manager(st)
    BY <1>5 DEF v
  <2>. QED BY <1>5, <1>6, <2>1, PassKeeps
<1>8. r \in Manager(st) /\ ManagerInv(st, r, L, T) /\ Shows(st, v, r) /\ Released(st, r)
  BY <1>1, <1>7, NextKeeps
<1>9. \A k \in Node(st) : /\ r.data[k].started = u.data[k].started
                          /\ r.data[k].completed = u.data[k].completed
                          /\ r.data[k].status = u.data[k].status
  BY <1>7, <1>8 DEF Shows
<1>10. \A k \in Node(st) :
         /\ u.data[k].started = m.data[k].started
         /\ IF k = n THEN u.data[k].completed ELSE u.data[k].completed = m.data[k].completed
         /\ u.data[k].status = IF k = n THEN s ELSE m.data[k].status
  <2>1. d.completed = TRUE
    BY <1>3 DEF StepData
  <2>. QED BY <1>3, <1>5, <2>1
<1>. QED BY <1>8, <1>9, <1>10 DEF AfterComplete
\* A new manager has an empty screen and nothing to show.
LEMMA NewManagerFits ==
  ASSUME NEW st, IsStage(st), NEW L \in [Node(st) -> Nat], NEW T,
         \A n \in Node(st) : L[n] = 0, NEW m, m = NewManager(st)
  PROVE  /\ m \in Manager(st) /\ ManagerInv(st, m, L, T) /\ Released(st, m)
         /\ \A n \in Node(st) : ~m.data[n].started /\ ~m.data[n].completed /\ m.data[n].status = "none"
<1> DEFINE none == <<>>
           d == [started |-> FALSE, completed |-> FALSE, shown |-> FALSE,
                 status |-> "none", output |-> none]
<1>1. /\ none \in Seq(Nat) /\ none \in Seq(Messages(st)) /\ DOMAIN none = {}
      /\ none = [k \in 1..0 |-> k]
  OBVIOUS
<1>2. m = [data |-> [n \in Node(st) |-> d], currentStep |-> NoStep, screen |-> none]
  BY DEF NewManager, NewStepData
<1> HIDE DEF none
<1>3. d \in StepData
  BY <1>1 DEF StepData
<1>4. /\ ~d.started /\ ~d.completed /\ ~d.shown /\ d.status = "none" /\ d.output = none
  OBVIOUS
<1> HIDE DEF d
<1>5. /\ m.currentStep = NoStep /\ m.screen = none
      /\ m.data = [n \in Node(st) |-> d] /\ m \in Manager(st)
  BY <1>1, <1>2, <1>3 DEF Manager
<1>6. \A n \in Node(st) : m.data[n] = d
  BY <1>5
<1>7. NoStep \notin Node(st)
  BY StagesAreSequences
<1>8. ShownInv(st, m) /\ CurrentInv(st, m) /\ Released(st, m)
  BY <1>4, <1>5, <1>6, <1>7 DEF ShownInv, CurrentInv, Released
<1>9. ScreenInv(st, m, L, T)
  <2>1. InOrder(st, m.screen)
    BY <1>1, <1>5 DEF InOrder
  <2>2. \A n \in Node(st) : ~m.data[n].shown /\ m.data[n].output = [k \in 1..L[n] |-> k]
    BY <1>1, <1>4, <1>6
  <2>. QED BY <1>1, <1>5, <2>1, <2>2 DEF ScreenInv
<1>. QED BY <1>4, <1>5, <1>6, <1>8, <1>9 DEF ManagerInv
=============================================================================
