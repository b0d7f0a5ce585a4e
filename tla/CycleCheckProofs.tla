------------------------- MODULE CycleCheckProofs -------------------------
(***************************************************************************)
(* The search of CycleCheck decides Cyclic, for every set of nodes, every  *)
(* dependency function and every order of visiting them.                   *)
(***************************************************************************)
EXTENDS CycleCheck, SequenceTheorems, TLAPS

-----------------------------------------------------------------------------
(* Facts about Cyclic *)

\* The path closed by a dependency on a node of recStack is a cycle: the
\* nodes of the frames from that node to the innermost one.
LEMMA PathClosesCycle ==
  ASSUME SearchTypeOK, PathInv,
         NEW k \in 1..Len(frames),
         frames[k].node \in deps[frames[Len(frames)].node]
  PROVE  Cyclic(N, deps)
<1> DEFINE S == {frames[i].node : i \in k..Len(frames)}
<1>1. Len(frames) \in Nat /\ k \in Nat /\ k <= Len(frames) /\ 1 <= k
  BY DEF SearchTypeOK
<1>2. S \in SUBSET N
  <2>1. \A i \in 1..Len(frames) : frames[i] \in FrameSet
    BY ElementOfSeq DEF SearchTypeOK
  <2>2. \A i \in k..Len(frames) : frames[i].node \in N
    BY <1>1, <2>1 DEF FrameSet
  <2>. QED BY <2>2
<1>3. frames[k].node \in S
  BY <1>1
<1>4. ASSUME NEW n \in S PROVE deps[n] \cap S # {}
  <2>1. PICK i \in k..Len(frames) : n = frames[i].node
    OBVIOUS
  <2>2. CASE i = Len(frames)
    BY <1>3, <2>1, <2>2
  <2>3. CASE i # Len(frames)
    <3>1. i \in 1..(Len(frames) - 1) /\ i + 1 \in k..Len(frames)
      BY <1>1, <2>1, <2>3
    <3>2. frames[i + 1].node \in deps[n]
      BY <2>1, <3>1 DEF PathInv
    <3>3. frames[i + 1].node \in S
      BY <3>1
    <3>. QED BY <3>2, <3>3
  <2>. QED BY <2>2, <2>3
<1>. QED BY <1>2, <1>3, <1>4 DEF Cyclic

\* Adding a node whose dependencies lie in a closed set without cycle makes
\* no cycle.
LEMMA AddFinished ==
  ASSUME NEW F, NEW n, NEW D,
         n \notin F, D[n] \subseteq F,
         \A x \in F : D[x] \subseteq F,
         ~Cyclic(F, D)
  PROVE  ~Cyclic(F \cup {n}, D)
<1> SUFFICES ASSUME Cyclic(F \cup {n}, D) PROVE FALSE
  OBVIOUS
<1>1. PICK S \in (SUBSET (F \cup {n})) \ {{}} : \A x \in S : D[x] \cap S # {}
  BY DEF Cyclic
<1> DEFINE T == S \ {n}
<1>2. T \in SUBSET F
  OBVIOUS
<1>3. \A x \in T : D[x] \cap T # {}
  BY <1>1
<1>4. T # {}
  BY <1>1
<1>. QED BY <1>2, <1>3, <1>4 DEF Cyclic

-----------------------------------------------------------------------------
(* The invariant is inductive *)

\* The invariant holds when detectCycles starts.
LEMMA SearchInvInit == SInit => SearchInv
<1> SUFFICES ASSUME SInit PROVE SearchInv
  OBVIOUS
<1>1. SearchTypeOK /\ RootsInv
  BY GraphsAssumption DEF SInit, SearchTypeOK, RootsInv
<1>2. FinishedInv
  BY DEF SInit, FinishedInv, Finished, Cyclic
<1>3. PathInv /\ FrameInv
  BY DEF SInit, PathInv, FrameInv
<1>. QED BY <1>1, <1>2, <1>3 DEF SInit, SearchInv, VerdictCorrect

\* The loop over the nodes: nothing is active, so a call opens the first frame.
LEMMA NextRootPreserves ==
  ASSUME SearchInv, NEW n \in N, NextRoot(n) PROVE SearchInv'
<1> USE DEF SearchInv
<1>1. verdict = "searching" /\ frames = <<>> /\ recStack = {} /\ deps' = deps
  BY DEF NextRoot, PathInv
<1>2. CASE n \in visited
  <2>1. UNCHANGED <<visited, recStack, frames, verdict, deps>> /\ roots' = roots \ {n}
    BY <1>2 DEF NextRoot
  <2>. QED
    BY <1>2, <2>1 DEF SearchTypeOK, RootsInv, FinishedInv, Finished, PathInv, FrameInv,
                      VerdictCorrect, Cyclic
<1>3. CASE n \notin visited
  <2>1. /\ visited' = visited \cup {n} /\ recStack' = recStack \cup {n}
        /\ frames' = Append(frames, Frame(n, deps[n])) /\ verdict' = verdict
        /\ roots' = roots \ {n}
    BY <1>1, <1>3 DEF NextRoot, Call
  <2>2. frames' = <<Frame(n, deps[n])>> /\ Len(frames') = 1
        /\ frames'[1] = [node |-> n, todo |-> deps[n]]
    BY <1>1, <2>1 DEF Frame
  <2>3. SearchTypeOK' /\ RootsInv'
    BY <1>1, <2>1, <2>2, EmptySeq, AppendProperties DEF SearchTypeOK, RootsInv, Frame, FrameSet
  <2>4. Finished' = Finished
    BY <1>1, <1>3, <2>1 DEF Finished
  <2>5. FinishedInv'
    BY <1>1, <2>1, <2>4 DEF FinishedInv, Cyclic
  <2>6. PathInv' /\ FrameInv'
    BY <1>1, <2>1, <2>2 DEF PathInv, FrameInv
  <2>. QED BY <1>1, <2>1, <2>3, <2>5, <2>6 DEF VerdictCorrect
<1>. QED BY <1>2, <1>3

\* The loop over the dependencies: the innermost frame closes a cycle, passes
\* over a finished node, or calls a new one.
LEMMA NextDepPreserves ==
  ASSUME SearchInv, NEW d \in N, NextDep(d) PROVE SearchInv'
<1> USE DEF SearchInv
<1> DEFINE L == Len(frames)
           fs == [frames EXCEPT ![L] = Frame(frames[L].node, frames[L].todo \ {d})]
<1>1. /\ verdict = "searching" /\ frames # <<>> /\ d \in frames[L].todo
      /\ deps' = deps /\ roots' = roots /\ Call(d, fs)
  BY DEF NextDep, Top
<1>2. L \in Nat \ {0} /\ frames \in Seq(FrameSet)
  BY <1>1 DEF SearchTypeOK
<1>3. /\ fs \in Seq(FrameSet) /\ Len(fs) = L
      /\ \A i \in 1..L : fs[i].node = frames[i].node
      /\ \A i \in 1..(L - 1) : fs[i] = frames[i]
      /\ fs[L].todo = frames[L].todo \ {d}
  <2>1. frames[L] \in FrameSet /\ L \in 1..L
    BY <1>2, ElementOfSeq
  <2>2. Frame(frames[L].node, frames[L].todo \ {d}) \in FrameSet
    BY <2>1 DEF Frame, FrameSet
  <2>3. /\ fs \in Seq(FrameSet) /\ Len(fs) = L
        /\ \A j \in 1..L : fs[j] = IF j = L THEN Frame(frames[L].node, frames[L].todo \ {d})
                                            ELSE frames[j]
    BY <1>2, <2>1, <2>2, ExceptSeq
  <2> HIDE DEF fs
  <2>. QED BY <1>2, <2>1, <2>3 DEF Frame
<1> HIDE DEF fs
<1>4. PathInv /\ FrameInv /\ SearchTypeOK /\ FinishedInv /\ RootsInv
  BY <1>1
<1>5. d \in deps[frames[L].node] /\ frames[L].node \in recStack
  BY <1>1, <1>2, <1>4 DEF FrameInv, PathInv
<1>6. CASE d \in recStack
  <2>1. verdict' = "cycle" /\ frames' = fs /\ UNCHANGED <<visited, recStack>>
    BY <1>1, <1>6 DEF Call
  <2>2. SearchTypeOK' /\ RootsInv' /\ FinishedInv'
    BY <1>1, <1>3, <1>4, <2>1
       DEF SearchTypeOK, RootsInv, FinishedInv, Finished, Cyclic
  <2>3. PICK k \in 1..L : frames[k].node = d
    BY <1>4, <1>6 DEF PathInv
  <2>4. Cyclic(N, deps)
    BY <1>4, <1>5, <2>3, PathClosesCycle
  <2>. QED BY <1>1, <2>1, <2>2, <2>4 DEF VerdictCorrect, Cyclic
<1>7. CASE d \notin recStack /\ d \in visited
  <2>1. frames' = fs /\ UNCHANGED <<visited, recStack, verdict>>
    BY <1>1, <1>7 DEF Call
  <2>2. SearchTypeOK' /\ RootsInv' /\ FinishedInv'
    BY <1>1, <1>3, <1>4, <2>1
       DEF SearchTypeOK, RootsInv, FinishedInv, Finished, Cyclic
  <2>3. PathInv'
    BY <1>1, <1>2, <1>3, <1>4, <2>1 DEF PathInv
  <2>4. FrameInv'
    <3> SUFFICES ASSUME NEW i \in 1..L
                 PROVE  /\ fs[i].todo \subseteq deps[fs[i].node]
                        /\ \A e \in deps[fs[i].node] \ fs[i].todo :
                             e \in Finished \/ (i < L /\ e = fs[i + 1].node)
      BY <1>1, <1>3, <2>1 DEF FrameInv, Finished
    <3>1. CASE i = L
      <4>1. fs[L].node = frames[L].node /\ d \in Finished
        BY <1>2, <1>3, <1>7 DEF Finished
      <4>. QED BY <1>2, <1>3, <1>4, <3>1, <4>1 DEF FrameInv
    <3>2. CASE i # L
      <4>1. fs[i] = frames[i] /\ i + 1 \in 1..L
        BY <1>2, <1>3, <3>2
      <4>. QED BY <1>3, <1>4, <4>1 DEF FrameInv
    <3>. QED BY <3>1, <3>2
  <2>. QED BY <1>1, <2>1, <2>2, <2>3, <2>4 DEF VerdictCorrect
<1>8. CASE d \notin recStack /\ d \notin visited
  <2> DEFINE gs == Append(fs, Frame(d, deps[d]))
  <2>1. /\ frames' = gs /\ verdict' = verdict
        /\ visited' = visited \cup {d} /\ recStack' = recStack \cup {d}
    BY <1>1, <1>8 DEF Call
  <2>2. Frame(d, deps[d]) \in FrameSet
    BY <1>4 DEF Frame, FrameSet, SearchTypeOK
  <2>3. /\ gs \in Seq(FrameSet) /\ Len(gs) = L + 1
        /\ \A i \in 1..L : gs[i] = fs[i]
        /\ gs[L + 1] = Frame(d, deps[d])
    BY <1>2, <1>3, <2>2, AppendProperties
  <2> HIDE DEF gs
  <2>4. SearchTypeOK' /\ RootsInv'
    BY <1>1, <1>4, <2>1, <2>3 DEF SearchTypeOK, RootsInv
  <2>5. Finished' = Finished
    BY <1>8, <2>1 DEF Finished
  <2>6. FinishedInv'
    BY <1>1, <1>4, <2>1, <2>5 DEF FinishedInv, Cyclic
  <2>7. /\ gs[L + 1].node = d /\ gs[L + 1].todo = deps[d]
        /\ \A i \in 1..L : gs[i].node = frames[i].node
    BY <1>3, <2>3 DEF Frame
  <2>8. PathInv'
    <3>1. recStack' = {gs[i].node : i \in 1..(L + 1)}
      <4>1. recStack' = {frames[i].node : i \in 1..L} \cup {d}
        BY <1>2, <1>4, <2>1 DEF PathInv
      <4>2. {gs[i].node : i \in 1..L} = {frames[i].node : i \in 1..L}
        BY <2>7
      <4>3. {gs[i].node : i \in 1..(L + 1)} = {gs[i].node : i \in 1..L} \cup {gs[L + 1].node}
        BY <1>2
      <4>. QED BY <2>7, <4>1, <4>2, <4>3
    <3>2. \A i, j \in 1..(L + 1) : gs[i].node = gs[j].node => i = j
      BY <1>2, <1>4, <1>8, <2>7 DEF PathInv
    <3>3. \A i \in 1..L : gs[i + 1].node \in deps[gs[i].node]
      BY <1>2, <1>4, <1>5, <2>7 DEF PathInv
    <3>. QED BY <1>1, <1>2, <2>1, <2>3, <3>1, <3>2, <3>3 DEF PathInv
  <2>9. FrameInv'
    <3> SUFFICES ASSUME NEW i \in 1..(L + 1)
                 PROVE  /\ gs[i].todo \subseteq deps[gs[i].node]
                        /\ \A e \in deps[gs[i].node] \ gs[i].todo :
                             e \in Finished \/ (i < L + 1 /\ e = gs[i + 1].node)
      BY <1>1, <2>1, <2>3, <2>5 DEF FrameInv
    <3>1. CASE i = L + 1
      BY <2>7, <3>1
    <3>2. CASE i = L
      BY <1>2, <1>3, <1>4, <2>3, <2>7, <3>2 DEF FrameInv
    <3>3. CASE i \in 1..(L - 1)
      <4>1. gs[i] = frames[i] /\ i + 1 \in 1..L /\ i \in 1..L /\ i < L
        BY <1>2, <1>3, <2>3, <3>3
      <4>. QED BY <1>2, <1>4, <2>7, <4>1 DEF FrameInv
    <3>. QED BY <1>2, <3>1, <3>2, <3>3
  <2>. QED BY <1>1, <2>1, <2>4, <2>6, <2>8, <2>9 DEF VerdictCorrect
<1>. QED BY <1>6, <1>7, <1>8

\* dfs returns: everything the innermost node depends on is finished, so the
\* node is finished and closes no cycle.
LEMMA ReturnNilPreserves ==
  ASSUME SearchInv, ReturnNil PROVE SearchInv'
<1> USE DEF SearchInv
<1> DEFINE L == Len(frames)
           n == frames[L].node
           fs == SubSeq(frames, 1, L - 1)
<1>1. /\ verdict = "searching" /\ frames # <<>> /\ frames[L].todo = {}
      /\ recStack' = recStack \ {n} /\ frames' = fs
      /\ UNCHANGED <<deps, visited, roots, verdict>>
  BY DEF ReturnNil, Top
<1>2. PathInv /\ FrameInv /\ SearchTypeOK /\ FinishedInv /\ RootsInv
  BY <1>1
<1>3. L \in Nat \ {0} /\ frames \in Seq(FrameSet)
  BY <1>1 DEF SearchTypeOK
<1>4. /\ fs \in Seq(FrameSet) /\ Len(fs) = L - 1
      /\ \A i \in 1..(L - 1) : fs[i] = frames[i]
  <2>1. \A i \in 1..(L - 1) : frames[i] \in FrameSet
    BY <1>3, ElementOfSeq
  <2>2. L - 1 \in Int /\ 1 \in Int
    BY <1>3
  <2>3. /\ fs \in Seq(FrameSet)
        /\ Len(fs) = IF 1 <= L - 1 THEN (L - 1) - 1 + 1 ELSE 0
        /\ \A i \in 1..((L - 1) - 1 + 1) : fs[i] = frames[1 + i - 1]
    BY <2>1, <2>2, SubSeqProperties
  <2> HIDE DEF fs
  <2>4. Len(fs) = L - 1
    <3> HIDE DEF L
    <3>1. CASE L = 1
      BY <2>3, <3>1
    <3>2. CASE L # 1
      BY <1>3, <2>3, <3>2
    <3>. QED BY <3>1, <3>2
  <2>5. ASSUME NEW i \in 1..(L - 1) PROVE fs[i] = frames[i]
    <3>1. i \in 1..((L - 1) - 1 + 1) /\ 1 + i - 1 = i
      BY <1>3
    <3>. QED BY <2>3, <3>1
  <2>. QED BY <2>3, <2>4, <2>5
<1> HIDE DEF fs
<1>5. SearchTypeOK' /\ RootsInv'
  BY <1>1, <1>2, <1>4 DEF SearchTypeOK, RootsInv
<1>6. n \in recStack /\ deps[n] \subseteq Finished /\ n \in N
  BY <1>1, <1>2, <1>3 DEF PathInv, FrameInv, SearchTypeOK
<1>7. Finished' = Finished \cup {n} /\ n \notin Finished
  BY <1>1, <1>2, <1>6 DEF Finished, FinishedInv
<1>8. FinishedInv'
  <2>1. ~Cyclic(Finished \cup {n}, deps)
    BY <1>2, <1>6, <1>7, AddFinished DEF FinishedInv
  <2>. QED BY <1>1, <1>2, <1>6, <1>7, <2>1 DEF FinishedInv
<1>9. PathInv'
  <2>1. recStack' = {fs[i].node : i \in 1..(L - 1)}
    BY <1>1, <1>2, <1>3, <1>4 DEF PathInv
  <2>2. \A i \in 1..(L - 1) : i \in 1..L
    BY <1>3
  <2>3. \A i, j \in 1..(L - 1) : fs[i].node = fs[j].node => i = j
    BY <1>2, <1>4, <2>2 DEF PathInv
  <2>4. \A i \in 1..((L - 1) - 1) : i \in 1..(L - 1) /\ i + 1 \in 1..(L - 1)
    BY <1>3
  <2>5. \A i \in 1..((L - 1) - 1) : fs[i + 1].node \in deps[fs[i].node]
    BY <1>2, <1>4, <2>4 DEF PathInv
  <2>6. Len(frames') = L - 1 /\ frames' = fs /\ deps' = deps
    BY <1>1, <1>4
  <2> HIDE DEF L
  <2>7. recStack' = {frames'[i].node : i \in 1..Len(frames')}
    BY <2>1, <2>6
  <2>8. \A i, j \in 1..Len(frames') : frames'[i].node = frames'[j].node => i = j
    BY <2>3, <2>6
  <2>9. \A i \in 1..(Len(frames') - 1) : frames'[i + 1].node \in deps'[frames'[i].node]
    BY <2>5, <2>6
  <2>. QED BY <2>7, <2>8, <2>9 DEF PathInv
<1>10. FrameInv'
  <2> SUFFICES ASSUME NEW i \in 1..(L - 1)
               PROVE  /\ fs[i].todo \subseteq deps[fs[i].node]
                      /\ \A e \in deps[fs[i].node] \ fs[i].todo :
                           e \in Finished' \/ (i < L - 1 /\ e = fs[i + 1].node)
    BY <1>1, <1>4 DEF FrameInv
  <2>1. i \in 1..L /\ i < L /\ fs[i] = frames[i]
    BY <1>3, <1>4
  <2>2. CASE i = L - 1
    BY <1>2, <1>3, <1>7, <2>1, <2>2 DEF FrameInv
  <2>3. CASE i < L - 1
    BY <1>2, <1>3, <1>4, <1>7, <2>1, <2>3 DEF FrameInv
  <2>. QED BY <1>3, <2>2, <2>3
<1>. QED BY <1>1, <1>5, <1>8, <1>9, <1>10 DEF VerdictCorrect

\* The outer loop ends: every node is visited and none is active, so every
\* node is finished.
LEMMA NoCyclePreserves ==
  ASSUME SearchInv, NoCycle PROVE SearchInv'
<1> USE DEF SearchInv
<1>1. /\ verdict = "searching" /\ frames = <<>> /\ roots = {} /\ verdict' = "acyclic"
      /\ UNCHANGED <<deps, visited, recStack, frames, roots>>
  BY DEF NoCycle
<1>2. recStack = {}
  BY <1>1 DEF PathInv
<1>3. Finished = N
  BY <1>1, <1>2 DEF Finished, RootsInv, SearchTypeOK
<1>4. SearchTypeOK' /\ RootsInv' /\ FinishedInv'
  BY <1>1 DEF SearchTypeOK, RootsInv, FinishedInv, Finished, Cyclic
<1>. QED BY <1>1, <1>3, <1>4 DEF VerdictCorrect, FinishedInv, Cyclic

\* Every step of the search preserves the invariant.
LEMMA SearchInvInductive == SearchInv /\ [SNext]_svars => SearchInv'
<1> SUFFICES ASSUME SearchInv, [SNext]_svars PROVE SearchInv'
  OBVIOUS
<1>1. ASSUME NEW n \in N, NextRoot(n) PROVE SearchInv'
  BY <1>1, NextRootPreserves
<1>2. ASSUME NEW n \in N, NextDep(n) PROVE SearchInv'
  BY <1>2, NextDepPreserves
<1>3. CASE ReturnNil
  BY <1>3, ReturnNilPreserves
<1>4. CASE NoCycle
  BY <1>4, NoCyclePreserves
<1>5. CASE UNCHANGED svars
  BY <1>5 DEF svars, SearchInv, SearchTypeOK, RootsInv, FinishedInv, Finished,
              PathInv, FrameInv, VerdictCorrect, Cyclic
<1>. QED BY <1>1, <1>2, <1>3, <1>4, <1>5 DEF SNext, Decided

\* detectCycles answers correctly for every graph: it reports a cycle only if
\* there is one, and finishes without an error only if there is none.
THEOREM SearchDecidesCyclic == SSafety => []VerdictCorrect
<1>1. SearchInv => VerdictCorrect
  BY DEF SearchInv
<1>. QED BY SearchInvInit, SearchInvInductive, <1>1, PTL DEF SSafety
===========================================================================
