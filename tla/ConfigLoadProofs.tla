-------------------------- MODULE ConfigLoadProofs --------------------------
(***************************************************************************)
(* Proofs about ConfigLoad: for every set of files, every content of the   *)
(* file system and every request.                                          *)
(***************************************************************************)
EXTENDS ConfigLoad, SequenceTheorems, FiniteSetTheorems, WellFoundedInduction, TLAPS

-----------------------------------------------------------------------------
(* What the patterns stand for *)

\* A set of numbers that is not empty has a least element.
LEMMA SmallestNumber ==
  ASSUME NEW S \in SUBSET Nat, S # {}
  PROVE  \E i \in S : \A j \in S : ~(j < i)
<1>1. PICK i \in S : \A j \in S : ~(<<j, i>> \in OpToRel(<, Nat))
  BY NatLessThanWellFounded, WFMin
<1>. QED BY <1>1 DEF OpToRel

\* File i of the listing is matched by a glob over the directory d.
Hit(d, i) ==
  Exists(GlobOrder[i]) /\ FileDir[GlobOrder[i]] = d /\ GlobOrder[i] \in YamlFiles

\* The loop of processGlobPattern can be written down step by step.
LEMMA MatchingExists ==
  ASSUME NEW d
  PROVE  \E g : /\ g = [i \in 0..Len(GlobOrder) |->
                         IF i = 0 THEN <<>>
                         ELSE IF Hit(d, i) THEN Append(g[i - 1], GlobOrder[i]) ELSE g[i - 1]]
                /\ Matches(d) = g[Len(GlobOrder)]
<1> DEFINE F(g, i) == IF i = 0 THEN <<>>
                      ELSE IF Hit(d, i) THEN Append(g[i - 1], GlobOrder[i]) ELSE g[i - 1]
           P(k) == \E g : g = [i \in 0..k |-> F(g, i)]
           S == {k \in Nat : ~P(k)}
<1>0. Len(GlobOrder) \in Nat
  BY GlobOrderAssumption, LenProperties
<1>1. ASSUME S # {} PROVE FALSE
  <2>1. PICK k \in S : \A j \in S : ~(j < k)
    BY <1>1, SmallestNumber
  <2>2. CASE k = 0
    <3> DEFINE g == [i \in 0..0 |-> <<>>]
    <3>1. g = [i \in 0..0 |-> F(g, i)]
      OBVIOUS
    <3>. QED BY <2>1, <2>2, <3>1
  <2>3. CASE k # 0
    <3>1. k - 1 \in Nat /\ P(k - 1)
      <4> HIDE DEF P
      <4>1. k \in Nat /\ k - 1 \in Nat /\ k - 1 < k
        BY <2>1, <2>3
      <4>. QED BY <2>1, <4>1
    <3>2. PICK g : g = [i \in 0..(k - 1) |-> F(g, i)]
      BY <3>1
    <3> DEFINE h == [i \in 0..k |-> IF i = k THEN F(g, k) ELSE g[i]]
    <3>3. \A i \in 0..k : h[i] = F(h, i)
      <4> SUFFICES ASSUME NEW i \in 0..k PROVE h[i] = F(h, i)
        OBVIOUS
      <4>1. CASE i = k
        <5>1. k - 1 \in 0..k /\ k - 1 # k /\ k \in 0..k
          BY <2>1, <2>3
        <5>. QED BY <2>3, <4>1, <5>1
      <4>2. CASE i # k
        <5>1. i \in 0..(k - 1) /\ h[i] = g[i] /\ (i # 0 => i - 1 \in 0..k /\ i - 1 # k)
          BY <2>1, <4>2
        <5>2. g[i] = F(g, i)
          BY <3>2, <5>1
        <5>. QED BY <5>1, <5>2
      <4>. QED BY <4>1, <4>2
    <3>4. h = [i \in 0..k |-> F(h, i)]
      BY <3>3
    <3>. QED BY <2>1, <3>4
  <2>. QED BY <2>2, <2>3
<1>2. P(Len(GlobOrder))
  BY <1>0, <1>1
<1>. QED BY <1>2 DEF Matches, Hit

\* A glob finds a sequence of files.
LEMMA MatchesAreFiles ==
  ASSUME NEW d PROVE Matches(d) \in Seq(Files)
<1>0. /\ Len(GlobOrder) \in Nat
      /\ \A i \in 1..Len(GlobOrder) : GlobOrder[i] \in Files
  BY GlobOrderAssumption, LenProperties, ElementOfSeq
<1>1. PICK g : /\ g = [i \in 0..Len(GlobOrder) |->
                         IF i = 0 THEN <<>>
                         ELSE IF Hit(d, i) THEN Append(g[i - 1], GlobOrder[i]) ELSE g[i - 1]]
               /\ Matches(d) = g[Len(GlobOrder)]
  BY MatchingExists
<1>2. g[0] = <<>> /\ \A i \in 1..Len(GlobOrder) :
        g[i] = IF Hit(d, i) THEN Append(g[i - 1], GlobOrder[i]) ELSE g[i - 1]
  <2> DEFINE none == <<>>
             F(i) == IF i = 0 THEN none
                     ELSE IF Hit(d, i) THEN Append(g[i - 1], GlobOrder[i]) ELSE g[i - 1]
  <2>1. g = [i \in 0..Len(GlobOrder) |-> F(i)]
    BY <1>1
  <2> HIDE DEF none, F
  <2>2. \A i \in 0..Len(GlobOrder) : g[i] = F(i)
    BY <2>1
  <2>3. 0 \in 0..Len(GlobOrder) /\ \A i \in 1..Len(GlobOrder) : i \in 0..Len(GlobOrder) /\ i # 0
    BY <1>0
  <2>. QED BY <2>2, <2>3 DEF none, F
<1> DEFINE Bad == {k \in 0..Len(GlobOrder) : g[k] \notin Seq(Files)}
<1>3. ASSUME Bad # {} PROVE FALSE
  <2>0. Bad \in SUBSET Nat
    OBVIOUS
  <2>1. PICK k \in Bad : \A j \in Bad : ~(j < k)
    <3> HIDE DEF Bad
    <3>. QED BY <1>3, <2>0, SmallestNumber
  <2>2. CASE k = 0
    BY <1>2, <2>1, <2>2, EmptySeq
  <2>3. CASE k # 0
    <3>1. k \in 1..Len(GlobOrder) /\ k - 1 \in 0..Len(GlobOrder) /\ k - 1 < k
      BY <1>0, <2>1, <2>3
    <3>2. g[k - 1] \in Seq(Files)
      BY <2>1, <3>1
    <3>3. g[k] \in Seq(Files)
      <4>1. Append(g[k - 1], GlobOrder[k]) \in Seq(Files)
        BY <1>0, <3>1, <3>2, AppendProperties
      <4>. QED BY <1>2, <3>1, <3>2, <4>1
    <3>. QED BY <2>1, <3>3
  <2>. QED BY <2>2, <2>3
<1>4. Len(GlobOrder) \in 0..Len(GlobOrder)
  BY <1>0
<1>. QED BY <1>1, <1>3, <1>4

\* A pattern stands for a sequence of files.
LEMMA FoundAreFiles ==
  ASSUME NEW p \in Patterns PROVE Found(p) \in Seq(Files) /\ Range(Found(p)) \subseteq Files
<1>1. Found(p) \in Seq(Files)
  <2>1. CASE p.glob
    BY <2>1, MatchesAreFiles DEF Found
  <2>2. CASE ~p.glob
    <3>1. p.file \in Files
      BY <2>2, PatternsAssumption
    <3>2. Found(p) = <<p.file>>
      BY <2>2 DEF Found
    <3>. QED BY <3>1, <3>2
  <2>. QED BY <2>1, <2>2
<1>2. Range(Found(p)) \subseteq Files
  BY <1>1, LenProperties, ElementOfSeq DEF Range
<1>. QED BY <1>1, <1>2

\* The content of the file system does not change while it is read.
LEMMA WorldFixed ==
  ASSUME UNCHANGED world
  PROVE  /\ \A f : Exists(f)' = Exists(f) /\ MissingDir(f)' = MissingDir(f)
         /\ \A p : Found(p)' = Found(p)
         /\ Included' = Included /\ Reached' = Reached /\ Loads' = Loads
<1>1. \A f : Exists(f)' = Exists(f)
  BY DEF Exists
<1>2. \A f : MissingDir(f)' = MissingDir(f)
  BY DEF Exists, MissingDir
<1>3. \A d : Matches(d)' = Matches(d)
  BY Zenon DEF Matches, Exists
<1>4. \A p : Found(p)' = Found(p)
  BY <1>3 DEF Found
<1>5. Included' = Included
  BY <1>1, <1>4 DEF Included
<1>6. Reached' = Reached
  BY <1>5 DEF Reached
<1>7. Loads' = Loads
  BY <1>1, <1>2, <1>5, <1>6 DEF Loads, Cyclic
<1>. QED BY <1>1, <1>2, <1>4, <1>5, <1>6, <1>7

-----------------------------------------------------------------------------
(* What is reached through includes *)

\* Every file includes files, and no others.
LEMMA IncludedAreFiles ==
  ASSUME world \in Worlds, NEW f \in Files
  PROVE  /\ Included[f] \subseteq Files
         /\ Exists(f) /\ world[f].parses =>
              Included[f] = UNION {Range(Found(p)) : p \in Range(world[f].include)}
<1>1. Included[f] = IF Exists(f) /\ world[f].parses
                    THEN UNION {Range(Found(p)) : p \in Range(world[f].include)} ELSE {}
  BY DEF Included
<1>2. ASSUME Exists(f), NEW p \in Range(world[f].include) PROVE p \in Patterns
  <2>1. world[f].include \in Seq(Patterns)
    BY <1>2, WorldsAssumption DEF Exists
  <2>. QED BY <1>2, <2>1, LenProperties, ElementOfSeq DEF Range
<1>. QED BY <1>1, <1>2, FoundAreFiles

\* What is reached from a file holds its includes, those of its members, and
\* is part of every set that does.
LEMMA ReachedIsClosure ==
  ASSUME world \in Worlds, NEW f \in Files
  PROVE  /\ Reached[f] \subseteq Files /\ Included[f] \subseteq Reached[f]
         /\ \A g \in Reached[f] : Included[g] \subseteq Reached[f]
         /\ \A S \in SUBSET Files :
              Included[f] \subseteq S /\ (\A x \in S : Included[x] \subseteq S)
                => Reached[f] \subseteq S
<1>1. Reached[f] = {g \in Files : \A S \in SUBSET Files :
                      (Included[f] \subseteq S /\ \A x \in S : Included[x] \subseteq S) => g \in S}
  BY DEF Reached
<1>2. \A g \in Files : Included[g] \subseteq Files
  BY IncludedAreFiles
<1>3. Included[f] \subseteq Reached[f]
  BY <1>1, <1>2
<1>4. ASSUME NEW g \in Reached[f], NEW x \in Included[g] PROVE x \in Reached[f]
  <2>1. g \in Files /\ x \in Files
    BY <1>1, <1>2, <1>4
  <2>2. ASSUME NEW S \in SUBSET Files, Included[f] \subseteq S,
               \A y \in S : Included[y] \subseteq S
        PROVE  x \in S
    BY <1>1, <1>4, <2>2
  <2>. QED BY <1>1, <2>1, <2>2
<1>5. \A S \in SUBSET Files :
        Included[f] \subseteq S /\ (\A x \in S : Included[x] \subseteq S) => Reached[f] \subseteq S
  BY <1>1
<1>. QED BY <1>1, <1>3, <1>4, <1>5

\* What is reached from a file is what it includes and what is reached from
\* that.
LEMMA ReachedThroughIncludes ==
  ASSUME world \in Worlds, NEW f \in Files, NEW x \in Reached[f]
  PROVE  \E g \in Included[f] : x \in {g} \cup Reached[g]
<1> DEFINE S == {y \in Files : \E g \in Included[f] : y \in {g} \cup Reached[g]}
<1>1. Included[f] \subseteq Files
  BY IncludedAreFiles
<1>2. S \in SUBSET Files /\ Included[f] \subseteq S
  BY <1>1
<1>3. ASSUME NEW y \in S, NEW z \in Included[y] PROVE z \in S
  <2>1. PICK g \in Included[f] : y \in {g} \cup Reached[g]
    OBVIOUS
  <2>2. g \in Files /\ y \in Files
    BY <1>1
  <2>3. z \in Reached[g] /\ z \in Files
    BY <1>3, <2>1, <2>2, ReachedIsClosure
  <2>. QED BY <2>1, <2>3
<1>4. Reached[f] \subseteq S
  <2> HIDE DEF S
  <2>. QED BY <1>2, <1>3, ReachedIsClosure
<1>. QED BY <1>4

\* A file whose includes all load reaches nothing that is missing, unreadable
\* or part of a cycle, and is on no cycle itself.
LEMMA IncludesLoad ==
  ASSUME world \in Worlds, NEW f \in Files, Included[f] \subseteq Loads
  PROVE  /\ \A g \in Reached[f] : Exists(g) /\ world[g].parses /\ ~MissingDir(g)
         /\ ~Cyclic({f} \cup Reached[f], Included)
         /\ ~Cyclic(Reached[f], Included)
<1>1. ASSUME NEW g \in Included[f]
      PROVE  /\ g \in Files
             /\ \A x \in {g} \cup Reached[g] : Exists(x) /\ world[x].parses /\ ~MissingDir(x)
             /\ ~Cyclic({g} \cup Reached[g], Included)
  BY <1>1 DEF Loads
<1>2. ASSUME NEW g \in Reached[f] PROVE Exists(g) /\ world[g].parses /\ ~MissingDir(g)
  BY <1>1, ReachedThroughIncludes
<1>3. ASSUME NEW S \in (SUBSET ({f} \cup Reached[f])) \ {{}},
             \A n \in S : Included[n] \cap S # {}
      PROVE  FALSE
  <2>1. PICK n \in S : TRUE
    OBVIOUS
  <2>2. PICK s \in S : s \in Included[n]
    BY <1>3, <2>1
  <2>3. s \in Reached[f]
    BY <2>1, <2>2, ReachedIsClosure
  <2>4. PICK g \in Included[f] : s \in {g} \cup Reached[g]
    BY <2>3, ReachedThroughIncludes
  <2> DEFINE all == {g} \cup Reached[g]
             T == S \cap all
  <2>5. T \in (SUBSET all) \ {{}}
    BY <2>4
  <2>6. ASSUME NEW m \in T PROVE Included[m] \cap T # {}
    <3>1. PICK y \in S : y \in Included[m]
      BY <1>3, <2>6
    <3>2. y \in Reached[g]
      BY <1>1, <2>6, <3>1, ReachedIsClosure
    <3>. QED BY <3>1, <3>2
  <2>7. Cyclic(all, Included)
    <3> HIDE DEF all, T
    <3>. QED BY <2>5, <2>6 DEF Cyclic
  <2>. QED BY <1>1, <2>7
<1>4. ~Cyclic({f} \cup Reached[f], Included)
  BY <1>3 DEF Cyclic
<1>5. ~Cyclic(Reached[f], Included)
  BY <1>3 DEF Cyclic
<1>. QED BY <1>2, <1>4, <1>5

-----------------------------------------------------------------------------
(* The stack of loads *)

\* The invariant holds when LoadConfig is called.
LEMMA LoadInvInit == CInit => LoadInv
<1> SUFFICES ASSUME CInit PROVE LoadInv
  OBVIOUS
<1>1. LoadTypeOK
  BY EmptySeq DEF CInit, LoadTypeOK
<1>. QED BY <1>1 DEF CInit, LoadInv, IncludeVerdict

\* What an existing file holds.
LEMMA FileContent ==
  ASSUME world \in Worlds, NEW f, Exists(f)
  PROVE  /\ f \in Files /\ world[f].include \in Seq(Patterns)
         /\ Range(world[f].include) \subseteq Patterns
<1>1. f \in Files /\ world[f].include \in Seq(Patterns)
  BY WorldsAssumption DEF Exists
<1>. QED BY <1>1, LenProperties, ElementOfSeq DEF Range

\* A frame that has just been opened.
LEMMA NewFrame ==
  ASSUME world \in Worlds, NEW f, Exists(f)
  PROVE  /\ Frame(f, world[f].include) \in FrameSet
         /\ Frame(f, world[f].include).file = f
         /\ Frame(f, world[f].include).patterns = world[f].include
         /\ Frame(f, world[f].include).matches = <<>>
         /\ Range(Frame(f, world[f].include).matches) = {}
<1> DEFINE none == <<>>
<1>1. none \in Seq(Files) /\ Range(none) = {}
  BY EmptySeq DEF Range
<1>2. Frame(f, world[f].include) = [file |-> f, patterns |-> world[f].include, matches |-> none]
  BY DEF Frame
<1> HIDE DEF none
<1>3. f \in Files /\ world[f].include \in Seq(Patterns)
  BY FileContent
<1>4. Frame(f, world[f].include) \in FrameSet
  BY <1>1, <1>2, <1>3 DEF FrameSet
<1>. QED BY <1>1, <1>2, <1>4 DEF none

\* The main file is found and read, or not.
LEMMA LoadMainKeeps ==
  ASSUME LoadInv, LoadMain PROVE LoadInv'
<1>1. /\ world \in Worlds /\ world' = world /\ status = "start"
      /\ frames = <<>> /\ visited = {}
  BY DEF LoadInv, LoadTypeOK, LoadMain
<1>2. PICK m : m = path'
  OBVIOUS
<1>3. CASE m \notin DOMAIN world
  <2>1. status' = "not found" /\ UNCHANGED <<visited, frames>>
    BY <1>2, <1>3 DEF LoadMain, Fail
  <2>2. LoadTypeOK'
    BY <1>1, <2>1 DEF LoadInv, LoadTypeOK
  <2>. QED BY <2>1, <2>2 DEF LoadInv, IncludeVerdict
<1>4. CASE m \in DOMAIN world /\ ~world[m].parses
  <2>1. status' = "parse" /\ UNCHANGED <<visited, frames>>
    BY <1>2, <1>4 DEF LoadMain, Fail
  <2>2. LoadTypeOK'
    BY <1>1, <2>1 DEF LoadInv, LoadTypeOK
  <2>3. IncludeVerdict'
    BY <1>1, <1>2, <1>4, <2>1 DEF IncludeVerdict, Exists
  <2>. QED BY <2>1, <2>2, <2>3 DEF LoadInv
<1>5. CASE m \in DOMAIN world /\ world[m].parses
  <2>1. /\ status' = "including" /\ visited' = visited
        /\ frames' = <<Frame(m, world[m].include)>>
    BY <1>2, <1>5 DEF LoadMain, Fail
  <2>2. Exists(m)
    BY <1>5 DEF Exists
  <2> DEFINE fr == Frame(m, world[m].include)
  <2>3. /\ fr \in FrameSet /\ fr.file = m /\ fr.patterns = world[m].include
        /\ Range(fr.matches) = {}
    BY <1>1, <2>2, NewFrame
  <2>4. frames' = <<fr>>
    BY <2>1
  <2> HIDE DEF fr
  <2>5. /\ frames' \in Seq(FrameSet) /\ Len(frames') = 1 /\ frames'[1] = fr
        /\ frames' # <<>>
    BY <2>3, <2>4
  <2>6. LoadTypeOK'
    BY <1>1, <2>1, <2>5 DEF LoadTypeOK
  <2>7. StackInv'
    BY <1>1, <1>2, <2>1, <2>3, <2>5 DEF StackInv
  <2>8. ActiveInv'
    <3>1. \A i \in 1..Len(frames') : i = 1
      BY <2>5
    <3>2. Exists(m)'
      BY <1>1, <2>2, WorldFixed
    <3>. QED BY <1>1, <1>5, <2>3, <2>5, <3>1, <3>2 DEF ActiveInv
  <2>9. IncludeVerdict'
    BY <2>1 DEF IncludeVerdict
  <2>. QED BY <2>6, <2>7, <2>8, <2>9 DEF LoadInv
<1>. QED BY <1>3, <1>4, <1>5

\* The innermost frame.
LEMMA InnerFrame ==
  ASSUME LoadInv, status = "including"
  PROVE  LET L == Len(frames) IN
         /\ L \in Nat \ {0} /\ frames[L] \in FrameSet /\ Inner = frames[L]
         /\ \A i \in 1..L : frames[i] \in FrameSet
         /\ Exists(frames[L].file) /\ world[frames[L].file].parses
         /\ frames[L].file \in Reached[path] \cup {path}
         /\ path \in Files
         /\ Included[frames[L].file] \subseteq Reached[path]
<1> DEFINE L == Len(frames)
<1>1. /\ LoadTypeOK /\ StackInv /\ ActiveInv /\ world \in Worlds /\ frames \in Seq(FrameSet)
  BY DEF LoadInv, LoadTypeOK
<1>2. L \in Nat \ {0} /\ \A i \in 1..L : frames[i] \in FrameSet
  BY <1>1, EmptySeq, ElementOfSeq DEF StackInv
<1>3. /\ Exists(frames[L].file) /\ world[frames[L].file].parses
      /\ frames[L].file \in Reached[path] \cup {path}
  <2>0. L = Len(frames)
    OBVIOUS
  <2> HIDE DEF L
  <2>1. L \in 1..L /\ (L = 1 \/ L \in 2..L)
    BY <1>2
  <2>. QED BY <1>1, <2>0, <2>1 DEF ActiveInv, StackInv
<1>4. path \in Files
  <2>1. 1 \in 1..L
    BY <1>2
  <2>. QED BY <1>1, <1>2, <2>1 DEF StackInv, FrameSet
<1>5. Included[frames[L].file] \subseteq Reached[path]
  BY <1>1, <1>3, <1>4, ReachedIsClosure
<1>. QED BY <1>2, <1>3, <1>4, <1>5 DEF Inner

\* A sequence holds its head and what its tail holds.
LEMMA HeadAndTail ==
  ASSUME NEW S, NEW s \in Seq(S), s # <<>>
  PROVE  /\ Head(s) \in S /\ Tail(s) \in Seq(S) /\ Head(s) \in Range(s)
         /\ Range(s) = {Head(s)} \cup Range(Tail(s))
<1>1. /\ Head(s) = s[1] /\ Head(s) \in S /\ Tail(s) \in Seq(S)
      /\ Len(Tail(s)) = Len(s) - 1 /\ \A i \in 1..(Len(s) - 1) : Tail(s)[i] = s[i + 1]
      /\ Len(s) \in Nat \ {0}
  BY HeadTailProperties, EmptySeq
<1>2. DOMAIN s = 1..Len(s) /\ DOMAIN Tail(s) = 1..(Len(s) - 1)
  BY <1>1, LenProperties
<1> DEFINE L == Len(s)
           t == Tail(s)
<1> HIDE DEF L, t
<1>3. Range(s) = {s[i] : i \in 1..L} /\ Range(t) = {t[i] : i \in 1..(L - 1)}
  BY <1>2 DEF Range, L, t
<1>4. \A i \in 1..L : i = 1 \/ (i - 1 \in 1..(L - 1) /\ s[i] = t[i - 1])
  BY <1>1 DEF L, t
<1>5. \A i \in 1..(L - 1) : i + 1 \in 1..L /\ t[i] = s[i + 1]
  BY <1>1 DEF L, t
<1>6. 1 \in 1..L
  BY <1>1 DEF L
<1>7. Range(s) = {s[1]} \cup Range(t)
  BY <1>3, <1>4, <1>5, <1>6
<1>. QED BY <1>1, <1>3, <1>6, <1>7 DEF t

\* A pattern of the innermost frame is replaced by what it stands for, or names
\* a directory that does not exist.
LEMMA IncludePatternKeeps ==
  ASSUME LoadInv, ProcessIncludePattern PROVE LoadInv'
<1> DEFINE L == Len(frames)
           fr == frames[L]
           f == fr.file
           p == Head(fr.patterns)
<1>1. /\ status = "including" /\ world' = world /\ path' = path /\ world \in Worlds
      /\ LoadTypeOK /\ StackInv /\ ActiveInv /\ frames \in Seq(FrameSet)
  BY DEF LoadInv, LoadTypeOK, ProcessIncludePattern
<1>2. /\ L \in Nat \ {0} /\ fr \in FrameSet /\ Inner = fr
      /\ Exists(f) /\ world[f].parses /\ f \in Reached[path] \cup {path}
  BY <1>1, InnerFrame
<1>3. fr.matches = <<>> /\ fr.patterns # <<>> /\ fr.patterns \in Seq(Patterns)
  BY <1>2 DEF ProcessIncludePattern, FrameSet
<1>4. /\ p \in Patterns /\ Tail(fr.patterns) \in Seq(Patterns)
      /\ Range(fr.patterns) = {p} \cup Range(Tail(fr.patterns))
      /\ p \in Range(fr.patterns)
  BY <1>3, HeadAndTail
<1>5. /\ Range(fr.patterns) \subseteq Range(world[f].include)
      /\ \A q \in Range(world[f].include) : q \in Range(fr.patterns) \/ Covered(L, q)
  <2>1. L \in 1..L
    BY <1>2
  <2>. QED BY <1>1, <2>1 DEF ActiveInv
<1>6. CASE p.glob /\ p.dir \notin Dirs
  <2>1. status' = "no directory" /\ UNCHANGED <<visited, frames>>
    BY <1>2, <1>6 DEF ProcessIncludePattern, Fail
  <2>2. MissingDir(f)
    BY <1>2, <1>4, <1>5, <1>6 DEF MissingDir
  <2>3. IncludeVerdict'
    <3>1. /\ \A g : MissingDir(g)' = MissingDir(g)
          /\ Reached' = Reached
      BY <1>1, WorldFixed
    <3> HIDE DEF f
    <3>2. \E g \in Reached'[path'] \cup {path'} : MissingDir(g)'
      BY <1>1, <1>2, <2>2, <3>1
    <3>. QED BY <2>1, <3>2 DEF IncludeVerdict
  <2>4. LoadTypeOK'
    BY <1>1, <2>1 DEF LoadTypeOK
  <2>. QED BY <2>1, <2>3, <2>4 DEF LoadInv
<1>7. CASE ~(p.glob /\ p.dir \notin Dirs)
  <2> DEFINE new == [fr EXCEPT !.patterns = Tail(@), !.matches = Found(p)]
             gs == [frames EXCEPT ![L] = new]
  <2>1. /\ status' = status /\ visited' = visited
        /\ frames' = gs
    <3>1. p = Head(Inner.patterns)
      BY <1>2
    <3> HIDE DEF p
    <3>2. ~(p.glob /\ p.dir \notin Dirs)
      BY <1>7
    <3>3. /\ status' = status /\ visited' = visited
          /\ frames' = [frames EXCEPT
               ![Len(frames)] = [Inner EXCEPT !.patterns = Tail(@), !.matches = Found(p)]]
      BY <3>1, <3>2, Zenon DEF ProcessIncludePattern
    <3>. QED BY <1>2, <3>3, Zenon
  <2>2. Found(p) \in Seq(Files) /\ Range(Found(p)) \subseteq Files
    BY <1>4, FoundAreFiles
  <2>3. /\ new \in FrameSet /\ new.file = f /\ new.patterns = Tail(fr.patterns)
        /\ new.matches = Found(p)
    BY <1>2, <1>4, <2>2 DEF FrameSet
  <2> HIDE DEF new, p
  <2>4. /\ gs \in Seq(FrameSet) /\ Len(gs) = L
        /\ \A j \in 1..L : gs[j] = IF j = L THEN new ELSE frames[j]
    <3>1. L \in 1..L
      BY <1>2
    <3>. QED BY <1>1, <2>3, <3>1, ExceptSeq
  <2> HIDE DEF gs
  <2>5. LoadTypeOK'
    BY <1>1, <2>1, <2>4 DEF LoadTypeOK
  <2>6. \A j \in 1..L : gs[j].file = frames[j].file
    BY <2>3, <2>4
  <2>7. Included' = Included /\ Reached' = Reached /\ Loads' = Loads
        /\ (\A g : Exists(g)' = Exists(g)) /\ (\A q : Found(q)' = Found(q))
    BY <1>1, WorldFixed
  <2>8. StackInv'
    <3>0. L = Len(frames) /\ frames' = gs /\ Len(frames') = L
      BY <2>1, <2>4
    <3> HIDE DEF L
    <3>1. 1 \in 1..L /\ (\A i \in 2..L : i \in 1..L /\ i - 1 \in 1..L)
      BY <1>2
    <3>2. gs # <<>>
      <4>1. Len(gs) # 0
        BY <1>2, <2>4
      <4>. QED BY <2>4, <4>1, EmptySeq
    <3>3. {gs[i].file : i \in 2..L} = {frames[i].file : i \in 2..L}
      BY <2>6, <3>1
    <3>4. /\ \A i, j \in 2..L : gs[i].file = gs[j].file => i = j
          /\ \A i \in 2..L : gs[i].file \in Included[gs[i - 1].file]
          /\ \A i \in 2..L : gs[i].file \in Reached[path]
      BY <1>1, <2>6, <3>0, <3>1 DEF StackInv
    <3>5. gs[1].file = path /\ visited = {frames[i].file : i \in 2..L}
      BY <1>1, <2>6, <3>0, <3>1 DEF StackInv
    <3>6. frames' # <<>> /\ frames'[1].file = path'
      BY <1>1, <3>0, <3>2, <3>5
    <3>7. visited' = {frames'[i].file : i \in 2..Len(frames')}
      BY <2>1, <3>0, <3>3, <3>5
    <3>8. /\ \A i, j \in 2..Len(frames') : frames'[i].file = frames'[j].file => i = j
          /\ \A i \in 2..Len(frames') : frames'[i].file \in Included'[frames'[i - 1].file]
          /\ \A i \in 2..Len(frames') : frames'[i].file \in Reached'[path']
      BY <1>1, <2>7, <3>0, <3>4
    <3>. QED BY <3>6, <3>7, <3>8 DEF StackInv
  <2>9. ActiveInv'
    <3>0. L = Len(frames) /\ frames' = gs /\ Len(frames') = L /\ world' = world
      BY <1>1, <2>1, <2>4
    <3> SUFFICES ASSUME NEW i \in 1..L
                 PROVE  LET x == gs[i].file IN
                        /\ Exists(x) /\ world[x].parses
                        /\ Range(gs[i].patterns) \subseteq Range(world[x].include)
                        /\ Range(gs[i].matches) \subseteq Included[x]
                        /\ \A q \in Range(world[x].include) :
                             q \in Range(gs[i].patterns) \/ Covered(i, q)'
      BY <2>7, <3>0 DEF ActiveInv
    <3>1. CASE i = L
      <4>1. gs[i] = new
        BY <2>4, <3>1
      <4>2. Range(Found(p)) \subseteq Included[f]
        <5>1. f \in Files /\ p \in Range(world[f].include)
          BY <1>2, <1>4, <1>5 DEF FrameSet
        <5>. QED BY <1>1, <1>2, <5>1, IncludedAreFiles
      <4>3. Range(Tail(fr.patterns)) \subseteq Range(world[f].include)
        BY <1>4, <1>5
      <4>4. ASSUME NEW q \in Range(world[f].include), q \notin Range(new.patterns)
            PROVE  Covered(i, q)'
        <5>0. gs[i].matches = Found(p)
          BY <2>3, <4>1
        <5>1. CASE q = p
          BY <1>7, <2>7, <3>0, <5>0, <5>1 DEF Covered
        <5>2. CASE q # p
          <6>1. Covered(L, q)
            BY <1>4, <1>5, <2>3, <4>4, <5>2
          <6>2. Range(fr.matches) = {}
            BY <1>3 DEF Range
          <6>3. (q.glob => q.dir \in Dirs) /\ \A g \in Range(Found(q)) : g \in Loads
            BY <1>2, <6>1, <6>2 DEF Covered
          <6>. QED BY <2>7, <3>0, <6>3 DEF Covered
        <5>. QED BY <5>1, <5>2
      <4>. QED BY <1>2, <2>3, <4>1, <4>2, <4>3, <4>4
    <3>2. CASE i # L
      <4>1. gs[i] = frames[i] /\ i < L /\ i \in 1..Len(frames) /\ i + 1 \in 1..L
        BY <1>2, <2>4, <3>2
      <4>2. gs[i + 1].file = frames[i + 1].file
        BY <2>6, <4>1
      <4>3. \A q : Covered(i, q) => Covered(i, q)'
        <5> HIDE DEF L
        <5>. QED BY <2>7, <3>0, <4>1, <4>2 DEF Covered
      <4>. QED BY <1>1, <4>1, <4>3 DEF ActiveInv
    <3>. QED BY <3>1, <3>2
  <2>10. IncludeVerdict'
    BY <1>1, <2>1 DEF IncludeVerdict
  <2>. QED BY <2>5, <2>8, <2>9, <2>10 DEF LoadInv
<1>. QED BY <1>6, <1>7

\* The path closed by an include of an active file is a cycle.
LEMMA ActiveFileClosesCycle ==
  ASSUME LoadInv, status = "including",
         NEW g \in visited, g \in Included[frames[Len(frames)].file]
  PROVE  Cyclic(Reached[path], Included)
<1> DEFINE L == Len(frames)
<1>1. L \in Nat \ {0} /\ StackInv
  BY InnerFrame DEF LoadInv
<1>2. PICK k \in 2..L : frames[k].file = g
  BY <1>1 DEF StackInv
<1> DEFINE S == {frames[i].file : i \in k..L}
<1>0. L = Len(frames)
  OBVIOUS
<1> HIDE DEF L
<1>3. \A i \in k..L : i \in 2..L /\ frames[i].file \in Reached[path]
  <2>1. \A i \in k..L : i \in 2..L
    BY <1>1
  <2>. QED BY <1>0, <1>1, <2>1 DEF StackInv
<1>4. S \in SUBSET Reached[path] /\ g \in S
  <2>1. k \in k..L
    BY <1>1
  <2>. QED BY <1>2, <1>3, <2>1
<1>5. ASSUME NEW n \in S PROVE Included[n] \cap S # {}
  <2>1. PICK i \in k..L : n = frames[i].file
    OBVIOUS
  <2>2. CASE i = L
    BY <1>0, <1>4, <2>1, <2>2
  <2>3. CASE i # L
    <3>1. i + 1 \in 2..L /\ i + 1 \in k..L /\ (i + 1) - 1 = i
      BY <1>1, <2>1, <2>3
    <3>2. frames[i + 1].file \in Included[frames[(i + 1) - 1].file]
      BY <1>0, <1>1, <3>1 DEF StackInv
    <3>. QED BY <2>1, <3>1, <3>2
  <2>. QED BY <2>2, <2>3
<1> HIDE DEF S
<1>. QED BY <1>4, <1>5 DEF Cyclic

\* An included file is refused, or opens a frame.
LEMMA ExactFileKeeps ==
  ASSUME LoadInv, ProcessExactFile PROVE LoadInv'
<1> DEFINE L == Len(frames)
           fr == frames[L]
           g == Head(fr.matches)
           top == [fr EXCEPT !.matches = Tail(@)]
           rest == [frames EXCEPT ![L] = top]
<1>1. /\ status = "including" /\ world' = world /\ path' = path /\ world \in Worlds
      /\ LoadTypeOK /\ StackInv /\ ActiveInv /\ frames \in Seq(FrameSet)
  BY DEF LoadInv, LoadTypeOK, ProcessExactFile
<1>2. /\ L \in Nat \ {0} /\ fr \in FrameSet /\ Inner = fr /\ path \in Files
      /\ Included[fr.file] \subseteq Reached[path]
  BY <1>1, InnerFrame
<1>3. fr.matches # <<>> /\ fr.matches \in Seq(Files)
  BY <1>2 DEF ProcessExactFile, FrameSet
<1>4. /\ g \in Files /\ Tail(fr.matches) \in Seq(Files)
      /\ Range(fr.matches) = {g} \cup Range(Tail(fr.matches))
  BY <1>3, HeadAndTail
<1>5. g \in Included[fr.file]
  <2>1. L \in 1..L
    BY <1>2
  <2>2. Range(fr.matches) \subseteq Included[fr.file]
    BY <1>1, <2>1 DEF ActiveInv
  <2>. QED BY <1>4, <2>2
<1>6. Included' = Included /\ Reached' = Reached /\ Loads' = Loads
      /\ (\A x : Exists(x)' = Exists(x)) /\ (\A q : Found(q)' = Found(q))
  BY <1>1, WorldFixed
<1>7. \/ g \in visited /\ Fail("circular")
      \/ g \notin visited /\ ~Exists(g) /\ Fail("missing")
      \/ g \notin visited /\ Exists(g) /\ ~world[g].parses /\ Fail("parse")
      \/ /\ g \notin visited /\ Exists(g) /\ world[g].parses
         /\ visited' = visited \cup {g}
         /\ frames' = Append(rest, Frame(g, world[g].include))
         /\ status' = status
  <2>1. /\ g = Head(Inner.matches)
        /\ rest = [frames EXCEPT ![Len(frames)] = [Inner EXCEPT !.matches = Tail(@)]]
    BY <1>2, Zenon
  <2> HIDE DEF g, rest
  <2>. QED BY <2>1, Zenon DEF ProcessExactFile
<1>8. CASE g \in visited /\ Fail("circular")
  <2>1. status' = "circular" /\ UNCHANGED <<visited, frames>>
    BY <1>8 DEF Fail
  <2>2. LoadTypeOK'
    BY <1>1, <2>1 DEF LoadTypeOK
  <2>3. Cyclic(Reached[path], Included)
    BY <1>1, <1>5, <1>8, ActiveFileClosesCycle
  <2>4. IncludeVerdict'
    BY <1>1, <1>6, <2>1, <2>3 DEF IncludeVerdict, Cyclic
  <2>. QED BY <2>1, <2>2, <2>4 DEF LoadInv
<1>9. CASE ~Exists(g) /\ Fail("missing")
  <2>1. status' = "missing" /\ UNCHANGED <<visited, frames>>
    BY <1>9 DEF Fail
  <2>2. LoadTypeOK'
    BY <1>1, <2>1 DEF LoadTypeOK
  <2>3. \E x \in Reached'[path'] : ~Exists(x)'
    BY <1>1, <1>2, <1>5, <1>6, <1>9
  <2>4. IncludeVerdict'
    BY <2>1, <2>3 DEF IncludeVerdict
  <2>. QED BY <2>1, <2>2, <2>4 DEF LoadInv
<1>10. CASE Exists(g) /\ ~world[g].parses /\ Fail("parse")
  <2>1. status' = "parse" /\ UNCHANGED <<visited, frames>>
    BY <1>10 DEF Fail
  <2>2. LoadTypeOK'
    BY <1>1, <2>1 DEF LoadTypeOK
  <2>3. \E x \in Reached'[path'] \cup {path'} : Exists(x)' /\ ~world'[x].parses
    BY <1>1, <1>2, <1>5, <1>6, <1>10
  <2>4. IncludeVerdict'
    BY <2>1, <2>3 DEF IncludeVerdict
  <2>. QED BY <2>1, <2>2, <2>4 DEF LoadInv
<1>11. CASE /\ g \notin visited /\ Exists(g) /\ world[g].parses
            /\ visited' = visited \cup {g}
            /\ frames' = Append(rest, Frame(g, world[g].include))
            /\ status' = status
  <2> DEFINE new == Frame(g, world[g].include)
             gs == Append(rest, new)
  <2>1. /\ top \in FrameSet /\ top.file = fr.file /\ top.patterns = fr.patterns
        /\ top.matches = Tail(fr.matches)
    BY <1>2, <1>4 DEF FrameSet
  <2>2. /\ new \in FrameSet /\ new.file = g /\ new.patterns = world[g].include
        /\ Range(new.matches) = {}
    BY <1>1, <1>11, NewFrame
  <2> HIDE DEF top, new, g
  <2>3. /\ rest \in Seq(FrameSet) /\ Len(rest) = L
        /\ \A j \in 1..L : rest[j] = IF j = L THEN top ELSE frames[j]
    <3>1. L \in 1..L
      BY <1>2
    <3>. QED BY <1>1, <2>1, <3>1, ExceptSeq
  <2> HIDE DEF rest
  <2>4. /\ gs \in Seq(FrameSet) /\ Len(gs) = L + 1 /\ gs[L + 1] = new
        /\ \A j \in 1..L : gs[j] = rest[j]
    BY <2>2, <2>3, AppendProperties
  <2>5. frames' = gs
    BY <1>11 DEF new
  <2> HIDE DEF gs
  <2>6. L = Len(frames) /\ Len(frames') = L + 1
    BY <2>4, <2>5
  <2>7. /\ \A j \in 1..L : gs[j].file = frames[j].file
        /\ gs[L + 1].file = g
    BY <2>1, <2>2, <2>3, <2>4
  <2>8. LoadTypeOK'
    BY <1>1, <1>11, <2>4, <2>5 DEF LoadTypeOK
  <2>9. StackInv'
    <3> HIDE DEF L
    <3>1. /\ 1 \in 1..L /\ (\A i \in 2..L : i \in 1..L /\ i - 1 \in 1..L)
          /\ \A i \in 2..(L + 1) : i \in 2..L \/ i = L + 1
          /\ (L + 1) - 1 = L /\ L \in 1..L /\ L + 1 \in 2..(L + 1)
          /\ \A i \in 2..L : i \in 2..(L + 1)
      BY <1>2
    <3>2. frames' # <<>> /\ frames'[1].file = path'
      <4>1. Len(gs) # 0
        BY <1>2, <2>4
      <4>2. gs # <<>>
        BY <2>4, <4>1, EmptySeq
      <4>. QED BY <1>1, <2>5, <2>7, <3>1, <4>2 DEF StackInv
    <3>3. visited' = {frames'[i].file : i \in 2..Len(frames')}
      <4>1. visited = {frames[i].file : i \in 2..L}
        BY <1>1, <2>6 DEF StackInv
      <4>2. {gs[i].file : i \in 2..L} = {frames[i].file : i \in 2..L}
        BY <2>7, <3>1
      <4>3. {gs[i].file : i \in 2..(L + 1)} = {gs[i].file : i \in 2..L} \cup {gs[L + 1].file}
        BY <3>1
      <4>. QED BY <1>11, <2>5, <2>6, <2>7, <4>1, <4>2, <4>3
    <3>4. \A i, j \in 2..(L + 1) : gs[i].file = gs[j].file => i = j
      <4>1. \A i \in 2..L : gs[i].file # g
        BY <1>1, <1>11, <2>6, <2>7, <3>1 DEF StackInv
      <4>2. \A i, j \in 2..L : gs[i].file = gs[j].file => i = j
        BY <1>1, <2>6, <2>7, <3>1 DEF StackInv
      <4>. QED BY <2>7, <3>1, <4>1, <4>2
    <3>5. ASSUME NEW i \in 2..(L + 1)
          PROVE  gs[i].file \in Included[gs[i - 1].file] /\ gs[i].file \in Reached[path]
      <4>1. CASE i = L + 1
        <5>1. gs[i].file = g /\ gs[i - 1].file = fr.file
          BY <2>7, <3>1, <4>1
        <5>. QED BY <1>2, <1>5, <5>1
      <4>2. CASE i \in 2..L
        BY <1>1, <2>6, <2>7, <3>1, <4>2 DEF StackInv
      <4>. QED BY <3>1, <4>1, <4>2
    <3>6. /\ \A i, j \in 2..Len(frames') : frames'[i].file = frames'[j].file => i = j
          /\ \A i \in 2..Len(frames') : frames'[i].file \in Included'[frames'[i - 1].file]
          /\ \A i \in 2..Len(frames') : frames'[i].file \in Reached'[path']
      BY <1>1, <1>6, <2>5, <2>6, <3>4, <3>5
    <3>. QED BY <3>2, <3>3, <3>6 DEF StackInv
  <2>10. ActiveInv'
    <3> SUFFICES ASSUME NEW i \in 1..(L + 1)
                 PROVE  LET x == gs[i].file IN
                        /\ Exists(x) /\ world[x].parses
                        /\ Range(gs[i].patterns) \subseteq Range(world[x].include)
                        /\ Range(gs[i].matches) \subseteq Included[x]
                        /\ \A q \in Range(world[x].include) :
                             q \in Range(gs[i].patterns) \/ Covered(i, q)'
      BY <1>1, <1>6, <2>5, <2>6 DEF ActiveInv
    <3>1. CASE i = L + 1
      BY <1>11, <2>2, <2>4, <3>1
    <3>2. CASE i = L
      <4>0. L \in 1..L /\ L + 1 \in 1..(L + 1) /\ i \in 1..Len(frames) /\ i < L + 1
        BY <1>2, <3>2
      <4>1. gs[i] = top
        BY <2>3, <2>4, <3>2, <4>0
      <4>2. ASSUME NEW q, Covered(L, q) PROVE Covered(i, q)'
        <5>1. (q.glob => q.dir \in Dirs)
              /\ \A x \in Range(Found(q)) : x \in Loads \cup Range(fr.matches)
          BY <1>2, <4>2 DEF Covered
        <5>2. \A x \in Range(Found(q)) :
                x \in Loads \cup Range(gs[i].matches) \/ x = gs[i + 1].file
          BY <1>4, <2>1, <2>7, <3>2, <4>1, <5>1 DEF g
        <5> HIDE DEF L
        <5>. QED BY <1>6, <2>5, <2>6, <4>0, <5>1, <5>2 DEF Covered
      <4>3. /\ Exists(fr.file) /\ world[fr.file].parses
            /\ Range(fr.patterns) \subseteq Range(world[fr.file].include)
            /\ Range(fr.matches) \subseteq Included[fr.file]
            /\ \A q \in Range(world[fr.file].include) :
                 q \in Range(fr.patterns) \/ Covered(L, q)
        BY <1>1, <4>0 DEF ActiveInv
      <4>. QED BY <1>4, <2>1, <4>1, <4>2, <4>3
    <3>3. CASE i \in 1..(L - 1)
      <4>1. gs[i] = frames[i] /\ i < L /\ i < L + 1 /\ i \in 1..Len(frames) /\ i + 1 \in 1..L
        BY <1>2, <2>3, <2>4, <3>3
      <4>2. gs[i + 1].file = frames[i + 1].file
        BY <2>7, <4>1
      <4>3. \A q : Covered(i, q) => Covered(i, q)'
        <5> HIDE DEF L
        <5>. QED BY <1>6, <2>5, <2>6, <4>1, <4>2 DEF Covered
      <4>. QED BY <1>1, <4>1, <4>3 DEF ActiveInv
    <3>. QED BY <1>2, <3>1, <3>2, <3>3
  <2>11. IncludeVerdict'
    BY <1>1, <1>11 DEF IncludeVerdict
  <2>. QED BY <2>8, <2>9, <2>10, <2>11 DEF LoadInv
<1>. QED BY <1>7, <1>8, <1>9, <1>10, <1>11

\* When a frame has nothing left, all its file includes has been loaded.
LEMMA ExhaustedLoads ==
  ASSUME LoadInv, Exhausted
  PROVE  LET f == frames[Len(frames)].file IN
         Included[f] \subseteq Loads /\ ~MissingDir(f)
<1> DEFINE L == Len(frames)
           fr == frames[L]
           f == fr.file
<1>1. /\ status = "including" /\ world \in Worlds /\ ActiveInv
  BY DEF LoadInv, LoadTypeOK, Exhausted
<1>2. L \in Nat \ {0} /\ fr \in FrameSet /\ Inner = fr /\ Exists(f) /\ world[f].parses
  BY <1>1, InnerFrame
<1>3. f \in Files
  BY <1>2 DEF FrameSet
<1>4. Range(fr.patterns) = {} /\ Range(fr.matches) = {}
  BY <1>2 DEF Exhausted, Range
<1>5. \A p \in Range(world[f].include) : Covered(L, p)
  <2>1. L \in 1..L
    BY <1>2
  <2>. QED BY <1>1, <1>4, <2>1 DEF ActiveInv
<1>6. ASSUME NEW p \in Range(world[f].include)
      PROVE  (p.glob => p.dir \in Dirs) /\ Range(Found(p)) \subseteq Loads
  BY <1>2, <1>4, <1>5 DEF Covered
<1>7. ~MissingDir(f)
  BY <1>6 DEF MissingDir
<1>8. Included[f] = UNION {Range(Found(p)) : p \in Range(world[f].include)}
  BY <1>1, <1>2, <1>3, IncludedAreFiles
<1>. QED BY <1>6, <1>7, <1>8

\* The innermost file has been loaded and its frame is closed.
LEMMA MergeFileKeeps ==
  ASSUME LoadInv, LoadAndMergeFile PROVE LoadInv'
<1> DEFINE L == Len(frames)
           fr == frames[L]
           f == fr.file
           gs == SubSeq(frames, 1, L - 1)
<1>1. /\ status = "including" /\ world' = world /\ path' = path /\ world \in Worlds
      /\ LoadTypeOK /\ StackInv /\ ActiveInv /\ frames \in Seq(FrameSet) /\ Exhausted
      /\ status' = status /\ L > 1
  BY DEF LoadInv, LoadTypeOK, LoadAndMergeFile, Exhausted
<1>2. /\ L \in Nat \ {0} /\ fr \in FrameSet /\ Inner = fr
      /\ Exists(f) /\ world[f].parses /\ f \in Files
      /\ \A i \in 1..L : frames[i] \in FrameSet
  BY <1>1, InnerFrame DEF FrameSet
<1>3. f \in Loads
  <2>1. Included[f] \subseteq Loads /\ ~MissingDir(f)
    BY <1>1, ExhaustedLoads
  <2>2. /\ \A g \in Reached[f] : Exists(g) /\ world[g].parses /\ ~MissingDir(g)
        /\ ~Cyclic({f} \cup Reached[f], Included)
    BY <1>1, <1>2, <2>1, IncludesLoad
  <2> HIDE DEF f
  <2>. QED BY <1>2, <2>1, <2>2 DEF Loads
<1>4. visited' = visited \ {f} /\ frames' = gs
  BY <1>2 DEF LoadAndMergeFile, Front
<1>5. /\ gs \in Seq(FrameSet) /\ Len(gs) = L - 1 /\ \A i \in 1..(L - 1) : gs[i] = frames[i]
  <2>1. \A i \in 1..(L - 1) : frames[i] \in FrameSet
    BY <1>2
  <2>2. L - 1 \in Int /\ 1 \in Int
    BY <1>2
  <2>3. /\ gs \in Seq(FrameSet)
        /\ Len(gs) = IF 1 <= L - 1 THEN (L - 1) - 1 + 1 ELSE 0
        /\ \A i \in 1..((L - 1) - 1 + 1) : gs[i] = frames[1 + i - 1]
    BY <2>1, <2>2, SubSeqProperties
  <2> HIDE DEF gs
  <2>4. Len(gs) = L - 1
    BY <1>1, <1>2, <2>3
  <2>5. ASSUME NEW i \in 1..(L - 1) PROVE gs[i] = frames[i]
    <3>1. i \in 1..((L - 1) - 1 + 1) /\ 1 + i - 1 = i
      BY <1>2
    <3>. QED BY <2>3, <3>1
  <2>. QED BY <2>3, <2>4, <2>5
<1> HIDE DEF gs
<1>6. Included' = Included /\ Reached' = Reached /\ Loads' = Loads
      /\ (\A x : Exists(x)' = Exists(x)) /\ (\A q : Found(q)' = Found(q))
  BY <1>1, WorldFixed
<1>7. L = Len(frames) /\ Len(frames') = L - 1
  BY <1>4, <1>5
<1>8. LoadTypeOK'
  BY <1>1, <1>4, <1>5 DEF LoadTypeOK
<1>9. StackInv'
  <2>0. f = frames[L].file
    OBVIOUS
  <2> HIDE DEF L, f
  <2>1. /\ 1 \in 1..(L - 1) /\ (\A i \in 2..(L - 1) : i \in 1..(L - 1) /\ i - 1 \in 1..(L - 1))
        /\ (\A i \in 2..(L - 1) : i \in 2..L /\ i # L)
        /\ \A i \in 2..L : i \in 2..(L - 1) \/ i = L
        /\ L \in 2..L
    BY <1>1, <1>2
  <2>2. frames' # <<>> /\ frames'[1].file = path'
    <3>1. Len(gs) # 0
      BY <1>1, <1>2, <1>5
    <3>2. gs # <<>>
      BY <1>5, <3>1, EmptySeq
    <3>. QED BY <1>1, <1>4, <1>5, <2>1, <3>2 DEF StackInv
  <2>3. visited' = {frames'[i].file : i \in 2..Len(frames')}
    <3>1. visited = {frames[i].file : i \in 2..L} /\ \A i \in 2..(L - 1) : frames[i].file # f
      BY <1>1, <1>7, <2>0, <2>1 DEF StackInv
    <3>2. {frames[i].file : i \in 2..L} \ {f} = {frames[i].file : i \in 2..(L - 1)}
      BY <2>0, <2>1, <3>1
    <3>3. {gs[i].file : i \in 2..(L - 1)} = {frames[i].file : i \in 2..(L - 1)}
      BY <1>5, <2>1
    <3>. QED BY <1>4, <1>7, <3>1, <3>2, <3>3
  <2>4. /\ \A i, j \in 2..(L - 1) : gs[i].file = gs[j].file => i = j
        /\ \A i \in 2..(L - 1) : gs[i].file \in Included[gs[i - 1].file]
        /\ \A i \in 2..(L - 1) : gs[i].file \in Reached[path]
    BY <1>1, <1>5, <1>7, <2>1 DEF StackInv
  <2>5. /\ \A i, j \in 2..Len(frames') : frames'[i].file = frames'[j].file => i = j
        /\ \A i \in 2..Len(frames') : frames'[i].file \in Included'[frames'[i - 1].file]
        /\ \A i \in 2..Len(frames') : frames'[i].file \in Reached'[path']
    BY <1>1, <1>4, <1>6, <1>7, <2>4
  <2>. QED BY <2>2, <2>3, <2>5 DEF StackInv
<1>10. ActiveInv'
  <2> SUFFICES ASSUME NEW i \in 1..(L - 1)
               PROVE  LET x == gs[i].file IN
                      /\ Exists(x) /\ world[x].parses
                      /\ Range(gs[i].patterns) \subseteq Range(world[x].include)
                      /\ Range(gs[i].matches) \subseteq Included[x]
                      /\ \A q \in Range(world[x].include) :
                           q \in Range(gs[i].patterns) \/ Covered(i, q)'
    BY <1>1, <1>4, <1>6, <1>7 DEF ActiveInv
  <2>1. gs[i] = frames[i] /\ i < L /\ i \in 1..Len(frames) /\ i + 1 \in 1..L
    BY <1>2, <1>5
  <2>2. ASSUME NEW q, Covered(i, q) PROVE Covered(i, q)'
    <3>1. (q.glob => q.dir \in Dirs)
          /\ \A x \in Range(Found(q)) : x \in Loads \cup Range(frames[i].matches)
                                        \/ x = frames[i + 1].file
      BY <2>2 DEF Covered
    <3>2. CASE i = L - 1
      <4>1. frames[i + 1].file = f
        BY <1>2, <3>2
      <4>. QED BY <1>3, <1>4, <1>6, <2>1, <3>1, <4>1 DEF Covered
    <3>3. CASE i # L - 1
      <4>1. i < L - 1 /\ gs[i + 1] = frames[i + 1]
        BY <1>2, <1>5, <3>3
      <4> HIDE DEF L
      <4>. QED BY <1>4, <1>6, <1>7, <2>1, <3>1, <4>1 DEF Covered
    <3>. QED BY <3>2, <3>3
  <2>. QED BY <1>1, <2>1, <2>2 DEF ActiveInv
<1>11. IncludeVerdict'
  BY <1>1 DEF IncludeVerdict
<1>. QED BY <1>8, <1>9, <1>10, <1>11 DEF LoadInv

\* Everything has been loaded.
LEMMA ValidateKeeps ==
  ASSUME LoadInv, Validate PROVE LoadInv'
<1>1. /\ status = "including" /\ world' = world /\ path' = path /\ world \in Worlds
      /\ LoadTypeOK /\ StackInv /\ Exhausted /\ Len(frames) = 1
      /\ status' \in {"loaded", "invalid"} /\ UNCHANGED <<visited, frames>>
  BY DEF LoadInv, LoadTypeOK, Validate, Exhausted
<1>2. frames[Len(frames)].file = path /\ path \in Files
  BY <1>1, InnerFrame DEF StackInv
<1>3. Included[path] \subseteq Loads /\ ~MissingDir(path)
  BY <1>1, <1>2, ExhaustedLoads
<1>4. /\ \A g \in Reached[path] : Exists(g) /\ world[g].parses /\ ~MissingDir(g)
      /\ ~Cyclic(Reached[path], Included)
  BY <1>1, <1>2, <1>3, IncludesLoad
<1>5. /\ Included' = Included /\ Reached' = Reached
      /\ \A x : Exists(x)' = Exists(x) /\ MissingDir(x)' = MissingDir(x)
  BY <1>1, WorldFixed
<1>6. /\ \A g \in Reached'[path'] : Exists(g)' /\ world'[g].parses
      /\ \A g \in Reached'[path'] \cup {path'} : ~MissingDir(g)'
  BY <1>1, <1>3, <1>4, <1>5
<1>7. ~Cyclic(Reached[path], Included)'
  BY <1>1, <1>4, <1>5 DEF Cyclic
<1>8. IncludeVerdict'
  BY <1>1, <1>6, <1>7 DEF IncludeVerdict
<1>9. LoadTypeOK'
  BY <1>1 DEF LoadTypeOK
<1>. QED BY <1>1, <1>8, <1>9 DEF LoadInv

\* Every step of the loader preserves the invariant.
LEMMA LoadInvInductive == LoadInv /\ [CNext]_cvars => LoadInv'
<1> SUFFICES ASSUME LoadInv, [CNext]_cvars PROVE LoadInv'
  OBVIOUS
<1>1. CASE LoadMain
  BY <1>1, LoadMainKeeps
<1>2. CASE ProcessIncludePattern
  BY <1>2, IncludePatternKeeps
<1>3. CASE ProcessExactFile
  BY <1>3, ExactFileKeeps
<1>4. CASE LoadAndMergeFile
  BY <1>4, MergeFileKeeps
<1>5. CASE Validate
  BY <1>5, ValidateKeeps
<1>6. CASE UNCHANGED cvars
  <2>1. UNCHANGED <<world, path, visited, frames, status>>
    BY <1>6 DEF cvars
  <2>2. /\ Included' = Included /\ Reached' = Reached /\ Loads' = Loads
        /\ \A x : Exists(x)' = Exists(x) /\ MissingDir(x)' = MissingDir(x)
        /\ \A q : Found(q)' = Found(q)
    BY <2>1, WorldFixed
  <2>3. LoadTypeOK' = LoadTypeOK /\ StackInv' = StackInv
    BY <2>1, <2>2 DEF LoadTypeOK, StackInv
  <2>4. \A i, q : Covered(i, q)' = Covered(i, q)
    BY <2>1, <2>2 DEF Covered
  <2>5. ActiveInv => ActiveInv'
    BY <2>1, <2>2, <2>4 DEF ActiveInv
  <2>6. IncludeVerdict => IncludeVerdict'
    BY <2>1, <2>2 DEF IncludeVerdict, Cyclic
  <2>. QED BY <2>1, <2>3, <2>5, <2>6 DEF LoadInv
<1>. QED BY <1>1, <1>2, <1>3, <1>4, <1>5, <1>6 DEF CNext

\* LoadConfig processes the includes to the end only if they are sound, and
\* every error names a defect that is there: for every set of files, every
\* content of them and every order of the listing.
THEOREM IncludesJudged == CSpec => []IncludeVerdict
<1>1. LoadInv => IncludeVerdict
  BY DEF LoadInv
<1>. QED BY LoadInvInit, LoadInvInductive, <1>1, PTL DEF CSpec

-----------------------------------------------------------------------------
(* Sequences of sequences joined together *)

\* Concatenation under a name of its own.
Join(a, b) == a \o b

\* Joining is associative.
LEMMA JoinAssociative ==
  ASSUME NEW S, NEW a \in Seq(S), NEW b \in Seq(S), NEW c \in Seq(S)
  PROVE  Join(Join(a, b), c) = Join(a, Join(b, c))
  BY ConcatAssociative, SMT DEF Join

\* It gives a sequence, and the empty sequence adds nothing.
LEMMA JoinType ==
  ASSUME NEW S, NEW a \in Seq(S), NEW b \in Seq(S)
  PROVE  Join(a, b) \in Seq(S) /\ Join(a, <<>>) = a /\ Join(<<>>, a) = a
<1>1. Join(a, b) \in Seq(S)
  BY ConcatProperties, SMT DEF Join
<1>2. Join(a, <<>>) = a /\ Join(<<>>, a) = a
  BY ConcatEmptySeq, SMT DEF Join
<1>. QED BY <1>1, <1>2

\* The sequences of s joined one after the other: g[i] is what the first i of
\* them amount to.
Joins(g, s) ==
  /\ DOMAIN g = 1..Len(s)
  /\ g[1] = s[1]
  /\ \A i \in 2..Len(s) : g[i] = Join(g[i - 1], s[i])

\* The loop of FlattenSeq can be written down step by step.
LEMMA JoiningExists ==
  ASSUME NEW S, NEW s \in Seq(Seq(S)), s # <<>>
  PROVE  \E g : Joins(g, s) /\ FlattenSeq(s) = g[Len(s)]
<1> DEFINE F(g, i) == IF i = 1 THEN s[i] ELSE Join(g[i - 1], s[i])
           P(k) == \E g : g = [i \in 1..k |-> F(g, i)]
           B == {k \in Nat : ~P(k)}
<1>0. Len(s) \in Nat \ {0}
  BY EmptySeq
<1>1. ASSUME B # {} PROVE FALSE
  <2>1. PICK k \in B : \A j \in B : ~(j < k)
    BY <1>1, SmallestNumber
  <2>2. CASE k = 0
    <3> DEFINE g == [i \in 1..0 |-> s]
    <3>1. g = [i \in 1..0 |-> F(g, i)]
      OBVIOUS
    <3>. QED BY <2>1, <2>2, <3>1
  <2>3. CASE k # 0
    <3>1. k - 1 \in Nat /\ P(k - 1)
      <4> HIDE DEF P
      <4>1. k \in Nat /\ k - 1 \in Nat /\ k - 1 < k
        BY <2>1, <2>3
      <4>. QED BY <2>1, <4>1
    <3>2. PICK g : g = [i \in 1..(k - 1) |-> F(g, i)]
      BY <3>1
    <3> DEFINE h == [i \in 1..k |-> IF i = k THEN F(g, k) ELSE g[i]]
    <3>3. \A i \in 1..k : h[i] = F(h, i)
      <4> SUFFICES ASSUME NEW i \in 1..k PROVE h[i] = F(h, i)
        OBVIOUS
      <4>1. CASE i = k
        <5>1. k \in 1..k /\ (k # 1 => k - 1 \in 1..k /\ k - 1 # k)
          BY <2>1, <2>3
        <5>. QED BY <4>1, <5>1
      <4>2. CASE i # k
        <5>1. i \in 1..(k - 1) /\ h[i] = g[i] /\ (i # 1 => i - 1 \in 1..k /\ i - 1 # k)
          BY <2>1, <4>2
        <5>2. g[i] = F(g, i)
          BY <3>2, <5>1
        <5>. QED BY <5>1, <5>2
      <4>. QED BY <4>1, <4>2
    <3>4. h = [i \in 1..k |-> F(h, i)]
      BY <3>3
    <3>. QED BY <2>1, <3>4
  <2>. QED BY <2>2, <2>3
<1>2. P(Len(s))
  BY <1>0, <1>1
<1>3. PICK g : /\ g = [i \in 1..Len(s) |-> IF i = 1 THEN s[i] ELSE Join(g[i - 1], s[i])]
               /\ FlattenSeq(s) = g[Len(s)]
  <2>1. Len(s) # 0
    BY <1>0
  <2>. QED BY <1>2, <2>1 DEF FlattenSeq, Join
<1>4. Joins(g, s)
  <2> DEFINE G(i) == IF i = 1 THEN s[i] ELSE Join(g[i - 1], s[i])
  <2>1. g = [i \in 1..Len(s) |-> G(i)]
    BY <1>3
  <2> HIDE DEF G
  <2>2. DOMAIN g = 1..Len(s) /\ \A i \in 1..Len(s) : g[i] = G(i)
    BY <2>1
  <2>3. 1 \in 1..Len(s) /\ \A i \in 2..Len(s) : i \in 1..Len(s) /\ i # 1
    BY <1>0
  <2>4. G(1) = s[1] /\ \A i \in 2..Len(s) : G(i) = Join(g[i - 1], s[i])
    BY <2>3 DEF G
  <2>. QED BY <2>2, <2>3, <2>4 DEF Joins
<1>. QED BY <1>3, <1>4

\* Joined sequences are a sequence of the same elements.
LEMMA JoinedType ==
  ASSUME NEW S, NEW s \in Seq(Seq(S))
  PROVE  FlattenSeq(s) \in Seq(S) /\ (s = <<>> => FlattenSeq(s) = <<>>)
<1>1. CASE s = <<>>
  <2>1. FlattenSeq(s) = s
    BY <1>1 DEF FlattenSeq
  <2>. QED BY <1>1, <2>1, EmptySeq
<1>2. CASE s # <<>>
  <2>1. PICK g : Joins(g, s) /\ FlattenSeq(s) = g[Len(s)]
    BY <1>2, JoiningExists
  <2>2. Len(s) \in Nat \ {0} /\ \A i \in 1..Len(s) : s[i] \in Seq(S)
    BY <1>2, EmptySeq, ElementOfSeq
  <2> DEFINE B == {i \in 1..Len(s) : g[i] \notin Seq(S)}
  <2>3. ASSUME B # {} PROVE FALSE
    <3>0. B \in SUBSET Nat
      OBVIOUS
    <3>1. PICK k \in B : \A j \in B : ~(j < k)
      <4> HIDE DEF B
      <4>. QED BY <2>3, <3>0, SmallestNumber
    <3>2. CASE k = 1
      BY <2>1, <2>2, <3>1, <3>2 DEF Joins
    <3>3. CASE k # 1
      <4>1. k \in 2..Len(s) /\ k \in 1..Len(s) /\ k - 1 \in 1..Len(s) /\ k - 1 < k
        BY <2>2, <3>1, <3>3
      <4>2. g[k - 1] \in Seq(S) /\ s[k] \in Seq(S)
        BY <2>2, <3>1, <4>1
      <4>3. g[k] = Join(g[k - 1], s[k])
        BY <2>1, <4>1 DEF Joins
      <4>4. g[k] \in Seq(S)
        BY <4>2, <4>3, JoinType
      <4>. QED BY <3>1, <4>4
    <3>. QED BY <3>2, <3>3
  <2>4. Len(s) \in 1..Len(s)
    BY <2>2
  <2>. QED BY <1>2, <2>1, <2>3, <2>4
<1>. QED BY <1>1, <1>2

\* The first sequence can be split off.
LEMMA JoinedHead ==
  ASSUME NEW S, NEW s \in Seq(Seq(S)), s # <<>>
  PROVE  FlattenSeq(s) = Join(Head(s), FlattenSeq(Tail(s)))
<1> DEFINE t == Tail(s)
           n == Len(s)
<1>1. /\ n \in Nat \ {0} /\ Head(s) = s[1] /\ t \in Seq(Seq(S)) /\ Len(t) = n - 1
      /\ \A i \in 1..(n - 1) : t[i] = s[i + 1]
  BY HeadTailProperties, EmptySeq
<1>2. \A i \in 1..n : s[i] \in Seq(S)
  BY ElementOfSeq
<1>3. PICK g : Joins(g, s) /\ FlattenSeq(s) = g[n]
  BY JoiningExists
<1>4. s[1] \in Seq(S)
  <2>1. 1 \in 1..n
    BY <1>1
  <2>. QED BY <1>2, <2>1
<1>5. CASE n = 1
  <2>1. FlattenSeq(s) = s[1]
    BY <1>3, <1>5 DEF Joins
  <2>2. t = <<>>
    <3> HIDE DEF t, n
    <3>1. Len(t) = 0
      BY <1>1, <1>5
    <3>. QED BY <1>1, <3>1, EmptySeq
  <2>3. FlattenSeq(t) = <<>>
    BY <1>1, <2>2, JoinedType
  <2>. QED BY <1>1, <1>4, <2>1, <2>3, JoinType
<1>6. CASE n # 1
  <2> HIDE DEF t, n
  <2>0. Len(t) # 0
    BY <1>1, <1>6
  <2>1. t # <<>>
    BY <1>1, <2>0, EmptySeq
  <2>2. PICK h : Joins(h, t) /\ FlattenSeq(t) = h[Len(t)]
    BY <1>1, <2>1, JoiningExists
  <2>3. \A i \in 1..(n - 1) : t[i] \in Seq(S)
    BY <1>1, ElementOfSeq
  <2>4. /\ h[1] = t[1] /\ \A i \in 2..(n - 1) : h[i] = Join(h[i - 1], t[i])
    BY <1>1, <2>2 DEF Joins
  <2>5. /\ g[1] = s[1] /\ \A i \in 2..n : g[i] = Join(g[i - 1], s[i])
    BY <1>3 DEF Joins, n
  <2> DEFINE Same(i) == h[i] \in Seq(S) /\ g[i + 1] = Join(s[1], h[i])
             B == {i \in 1..(n - 1) : ~Same(i)}
  <2>6. ASSUME B # {} PROVE FALSE
    <3>0. B \in SUBSET Nat
      <4> HIDE DEF Same
      <4>. QED BY <1>1
    <3>1. PICK k \in B : \A j \in B : ~(j < k)
      <4> HIDE DEF B
      <4>. QED BY <2>6, <3>0, SmallestNumber
    <3>2. CASE k = 1
      <4>1. 1 \in 1..(n - 1) /\ 2 \in 2..n /\ 2 - 1 = 1
        BY <1>1, <1>6
      <4>2. h[1] \in Seq(S) /\ h[1] = s[2]
        BY <1>1, <2>3, <2>4, <4>1
      <4>3. g[2] = Join(g[1], s[2])
        BY <2>5, <4>1
      <4>4. h[1] \in Seq(S) /\ g[2] = Join(s[1], h[1]) /\ 1 + 1 = 2
        <5>1. 1 + 1 = 2
          OBVIOUS
        <5>. QED BY <2>5, <4>2, <4>3, <5>1, Zenon
      <4>5. Same(1)
        BY <4>4, Zenon
      <4> HIDE DEF Same
      <4>. QED BY <3>1, <3>2, <4>5
    <3>3. CASE k # 1
      <4>1. /\ k \in 2..(n - 1) /\ k - 1 \in 1..(n - 1) /\ k - 1 < k /\ k + 1 \in 2..n
            /\ (k + 1) - 1 = k /\ (k - 1) + 1 = k
        BY <1>1, <3>1, <3>3
      <4>2. h[k - 1] \in Seq(S) /\ g[k] = Join(s[1], h[k - 1])
        <5>1. Same(k - 1)
          <6> HIDE DEF Same
          <6>. QED BY <3>1, <4>1
        <5>. QED BY <4>1, <5>1, Zenon
      <4>3. h[k] = Join(h[k - 1], t[k]) /\ t[k] \in Seq(S) /\ t[k] = s[k + 1]
        BY <1>1, <2>3, <2>4, <4>1
      <4>4. g[k + 1] = Join(g[k], t[k])
        BY <2>5, <4>1, <4>3
      <4>5. Join(Join(s[1], h[k - 1]), t[k]) = Join(s[1], Join(h[k - 1], t[k]))
        BY <1>4, <4>2, <4>3, JoinAssociative
      <4>6. h[k] \in Seq(S)
        BY <4>2, <4>3, JoinType
      <4>7. g[k + 1] = Join(s[1], h[k])
        BY <4>2, <4>3, <4>4, <4>5
      <4>8. Same(k)
        BY <4>6, <4>7, Zenon
      <4> HIDE DEF Same
      <4>. QED BY <3>1, <4>8
    <3>. QED BY <3>2, <3>3
  <2>7. n - 1 \in 1..(n - 1) /\ (n - 1) + 1 = n
    BY <1>1, <1>6
  <2>8. g[n] = Join(s[1], h[n - 1])
    <3>1. Same(n - 1)
      <4> HIDE DEF Same
      <4>. QED BY <2>6, <2>7
    <3>. QED BY <2>7, <3>1, Zenon
  <2>. QED BY <1>1, <1>3, <2>2, <2>8 DEF t, n
<1>. QED BY <1>5, <1>6

-----------------------------------------------------------------------------
(* The order of the includes *)

\* A function on sequences is applied to the head and to the tail.
LEMMA AppliedToTail ==
  ASSUME NEW S, NEW T, NEW F(_), NEW s \in Seq(S), \A x \in S : F(x) \in T
  PROVE  /\ [i \in DOMAIN s |-> F(s[i])] \in Seq(T)
         /\ s = <<>> => [i \in DOMAIN s |-> F(s[i])] = <<>>
         /\ s # <<>> =>
              /\ [i \in DOMAIN s |-> F(s[i])] # <<>>
              /\ Head([i \in DOMAIN s |-> F(s[i])]) = F(Head(s))
              /\ Tail([i \in DOMAIN s |-> F(s[i])]) = [i \in DOMAIN Tail(s) |-> F(Tail(s)[i])]
<1> DEFINE m == [i \in DOMAIN s |-> F(s[i])]
<1>1. Len(s) \in Nat /\ DOMAIN s = 1..Len(s) /\ \A i \in 1..Len(s) : s[i] \in S
  BY LenProperties, ElementOfSeq
<1>2. m \in [1..Len(s) -> T] /\ \A i \in 1..Len(s) : m[i] = F(s[i])
  BY <1>1
<1>3. m \in Seq(T) /\ Len(m) = Len(s)
  <2> HIDE DEF m
  <2>1. m \in Seq(T)
    BY <1>1, <1>2, SeqDef
  <2>2. DOMAIN m = 1..Len(s) /\ DOMAIN m = 1..Len(m) /\ Len(m) \in Nat
    BY <1>2, <2>1, LenProperties
  <2>. QED BY <1>1, <2>1, <2>2
<1>4. ASSUME s = <<>> PROVE m = <<>>
  <2> HIDE DEF m
  <2>1. Len(m) = 0
    BY <1>3, <1>4
  <2>. QED BY <1>3, <2>1, EmptySeq
<1>5. ASSUME s # <<>>
      PROVE  m # <<>> /\ Head(m) = F(Head(s)) /\ Tail(m) = [i \in DOMAIN Tail(s) |-> F(Tail(s)[i])]
  <2> HIDE DEF m
  <2>1. Len(s) \in Nat \ {0}
    BY <1>5, EmptySeq
  <2>2. m # <<>>
    BY <1>3, <2>1
  <2>3. /\ Head(s) = s[1] /\ Tail(s) \in Seq(S) /\ Len(Tail(s)) = Len(s) - 1
        /\ \A i \in 1..(Len(s) - 1) : Tail(s)[i] = s[i + 1]
    BY <1>5, HeadTailProperties
  <2>4. /\ Head(m) = m[1] /\ Tail(m) \in Seq(T) /\ Len(Tail(m)) = Len(m) - 1
        /\ \A i \in 1..(Len(m) - 1) : Tail(m)[i] = m[i + 1]
    BY <1>3, <2>2, HeadTailProperties
  <2>5. DOMAIN Tail(s) = 1..(Len(s) - 1) /\ DOMAIN Tail(m) = 1..(Len(s) - 1)
    BY <1>3, <2>3, <2>4, LenProperties
  <2>6. ASSUME NEW i \in 1..(Len(s) - 1) PROVE Tail(m)[i] = F(Tail(s)[i])
    <3>1. i + 1 \in 1..Len(s)
      BY <1>1
    <3>. QED BY <1>2, <1>3, <2>3, <2>4, <3>1
  <2>7. Tail(m) = [i \in DOMAIN Tail(s) |-> F(Tail(s)[i])]
    <3> DEFINE t == Tail(m)
               u == Tail(s)
    <3>1. t = [i \in DOMAIN t |-> t[i]]
      BY <2>4, LenProperties
    <3> HIDE DEF t, u
    <3>. QED BY <2>5, <2>6, <3>1 DEF t, u
  <2>8. 1 \in 1..Len(s)
    BY <2>1
  <2>. QED BY <1>2, <2>2, <2>3, <2>4, <2>7, <2>8
<1>. QED BY <1>3, <1>4, <1>5

\* The files patterns stand for.
LEMMA FilesOfPatterns ==
  ASSUME NEW ps \in Seq(Patterns)
  PROVE  /\ FilesOf(ps) \in Seq(Files)
         /\ ps = <<>> => FilesOf(ps) = <<>>
         /\ ps # <<>> => FilesOf(ps) = Join(Found(Head(ps)), FilesOf(Tail(ps)))
<1> DEFINE m == [i \in DOMAIN ps |-> Found(ps[i])]
<1>1. /\ m \in Seq(Seq(Files))
      /\ ps = <<>> => m = <<>>
      /\ ps # <<>> => /\ m # <<>> /\ Head(m) = Found(Head(ps))
                      /\ Tail(m) = [i \in DOMAIN Tail(ps) |-> Found(Tail(ps)[i])]
  BY FoundAreFiles, AppliedToTail
<1>2. FilesOf(ps) = FlattenSeq(m)
  BY DEF FilesOf
<1>3. FlattenSeq(Tail(m)) = FilesOf(Tail(ps)) \/ ps = <<>>
  BY <1>1 DEF FilesOf
<1> HIDE DEF m
<1>. QED BY <1>1, <1>2, <1>3, JoinedType, JoinedHead

\* The files of a sequence, each after what it includes.
LEMMA OrderedFiles ==
  ASSUME NEW order \in [Files -> Seq(Files)], NEW fs \in Seq(Files)
  PROVE  /\ Ordered(order, fs) \in Seq(Files)
         /\ fs = <<>> => Ordered(order, fs) = <<>>
         /\ fs # <<>> => Ordered(order, fs) = Join(order[Head(fs)], Ordered(order, Tail(fs)))
<1> DEFINE m == [i \in DOMAIN fs |-> order[fs[i]]]
<1>0. \A f \in Files : order[f] \in Seq(Files)
  OBVIOUS
<1>1. /\ m \in Seq(Seq(Files))
      /\ fs = <<>> => m = <<>>
      /\ fs # <<>> => /\ m # <<>> /\ Head(m) = order[Head(fs)]
                      /\ Tail(m) = [i \in DOMAIN Tail(fs) |-> order[Tail(fs)[i]]]
  BY <1>0, AppliedToTail, SMTT(30)
<1>2. Ordered(order, fs) = FlattenSeq(m)
  BY DEF Ordered
<1>3. FlattenSeq(Tail(m)) = Ordered(order, Tail(fs)) \/ fs = <<>>
  BY <1>1 DEF Ordered
<1> HIDE DEF m
<1>. QED BY <1>1, <1>2, <1>3, JoinedType, JoinedHead

\* The number of files bounds the recursion.
FileCount == Cardinality(Files)

\* It is a number.
LEMMA FileCountType == FileCount \in Nat
  BY FilesFinite, FS_CardinalityType DEF FileCount

\* The order of the includes can be written down depth by depth.
LEMMA MergeOrderExists ==
  ASSUME world \in Worlds
  PROVE  \A d \in 0..FileCount : \A f \in Files :
           /\ MergeOrder[d] \in [Files -> Seq(Files)]
           /\ d # 0 /\ Exists(f) =>
                MergeOrder[d][f] = Append(Ordered(MergeOrder[d - 1], FilesOf(world[f].include)), f)
<1> DEFINE E(o, f) == Append(Ordered(o, FilesOf(world[f].include)), f)
           F(g, d) == [f \in Files |-> IF d = 0 \/ ~Exists(f) THEN <<>> ELSE E(g[d - 1], f)]
           P(k) == \E g : g = [d \in 0..k |-> F(g, d)]
           S == {k \in Nat : ~P(k)}
<1>1. ASSUME S # {} PROVE FALSE
  <2> HIDE DEF E
  <2>1. PICK k \in S : \A j \in S : ~(j < k)
    BY <1>1, SmallestNumber
  <2>2. CASE k = 0
    <3> DEFINE g == [d \in 0..0 |-> [f \in Files |-> <<>>]]
    <3>1. g = [d \in 0..0 |-> F(g, d)]
      OBVIOUS
    <3>. QED BY <2>1, <2>2, <3>1
  <2>3. CASE k # 0
    <3>1. k - 1 \in Nat /\ P(k - 1)
      <4> HIDE DEF P
      <4>1. k \in Nat /\ k - 1 \in Nat /\ k - 1 < k
        BY <2>1, <2>3
      <4>. QED BY <2>1, <4>1
    <3>2. PICK g : g = [i \in 0..(k - 1) |-> F(g, i)]
      BY <3>1
    <3> DEFINE h == [i \in 0..k |-> IF i = k THEN F(g, k) ELSE g[i]]
    <3>3. \A i \in 0..k : h[i] = F(h, i)
      <4> SUFFICES ASSUME NEW i \in 0..k PROVE h[i] = F(h, i)
        OBVIOUS
      <4>1. CASE i = k
        <5>1. k - 1 \in 0..k /\ k - 1 # k /\ k \in 0..k
          BY <2>1, <2>3
        <5>. QED BY <2>3, <4>1, <5>1
      <4>2. CASE i # k
        <5>1. i \in 0..(k - 1) /\ h[i] = g[i] /\ (i # 0 => i - 1 \in 0..k /\ i - 1 # k)
          BY <2>1, <4>2
        <5>2. g[i] = F(g, i)
          BY <3>2, <5>1
        <5>. QED BY <5>1, <5>2
      <4>. QED BY <4>1, <4>2
    <3>4. h = [i \in 0..k |-> F(h, i)]
      BY <3>3
    <3>. QED BY <2>1, <3>4
  <2>. QED BY <2>2, <2>3
<1>2. P(FileCount)
  BY <1>1, FileCountType
<1>3. MergeOrder = [d \in 0..FileCount |-> F(MergeOrder, d)]
  BY <1>2, Zenon DEF MergeOrder, FileCount
<1> DEFINE M == MergeOrder
<1> HIDE DEF E, M
<1>4. \A d \in 0..FileCount : M[d] = F(M, d)
  BY <1>3 DEF M
<1> DEFINE Bad == {d \in 0..FileCount : M[d] \notin [Files -> Seq(Files)]}
<1>5. ASSUME Bad # {} PROVE FALSE
  <2>0. Bad \in SUBSET Nat
    OBVIOUS
  <2>1. PICK d \in Bad : \A j \in Bad : ~(j < d)
    <3> HIDE DEF Bad
    <3>. QED BY <1>5, <2>0, SmallestNumber
  <2>2. ASSUME NEW f \in Files, d # 0, Exists(f) PROVE E(M[d - 1], f) \in Seq(Files)
    <3>1. d - 1 \in 0..FileCount /\ d - 1 < d
      BY <2>1, <2>2, FileCountType
    <3>2. M[d - 1] \in [Files -> Seq(Files)]
      BY <2>1, <3>1
    <3>3. FilesOf(world[f].include) \in Seq(Files)
      BY <2>2, FileContent, FilesOfPatterns
    <3>4. Ordered(M[d - 1], FilesOf(world[f].include)) \in Seq(Files)
      BY <3>2, <3>3, OrderedFiles
    <3>. QED BY <3>4, AppendProperties DEF E
  <2>3. M[d] = [f \in Files |-> IF d = 0 \/ ~Exists(f) THEN <<>> ELSE E(M[d - 1], f)]
    BY <1>4, <2>1
  <2>4. M[d] \in [Files -> Seq(Files)]
    <3> DEFINE none == <<>>
    <3>1. none \in Seq(Files)
      BY EmptySeq
    <3>2. M[d] = [f \in Files |-> IF d = 0 \/ ~Exists(f) THEN none ELSE E(M[d - 1], f)]
      BY <2>3
    <3> HIDE DEF none
    <3>. QED BY <2>2, <3>1, <3>2
  <2>. QED BY <2>1, <2>4
<1>6. ASSUME NEW d \in 0..FileCount, NEW f \in Files, d # 0, Exists(f)
      PROVE  M[d][f] = E(M[d - 1], f)
  BY <1>4, <1>6
<1>. QED BY <1>5, <1>6 DEF M, E

-----------------------------------------------------------------------------
(* Where the loader is in the order of the includes *)

\* No file is active twice, so the active calls are bounded.
LEMMA StackBounded ==
  ASSUME LoadInv, status = "including"
  PROVE  Len(frames) - 1 <= FileCount
<1> DEFINE L == Len(frames)
           S == 1..(L - 1)
           h == [i \in S |-> frames[i + 1].file]
<1>1. L \in Nat \ {0} /\ \A i \in 1..L : frames[i] \in FrameSet
  BY InnerFrame
<1>2. \A i, j \in 2..L : frames[i].file = frames[j].file => i = j
  BY DEF LoadInv, StackInv
<1> HIDE DEF L
<1>3. h \in Injection(S, Files)
  <2>1. \A i \in S : i + 1 \in 2..L /\ i + 1 \in 1..L
    BY <1>1
  <2>2. h \in [S -> Files]
    BY <1>1, <2>1 DEF FrameSet
  <2>3. ASSUME NEW i \in S, NEW j \in S, h[i] = h[j] PROVE i = j
    <3>1. i + 1 = j + 1
      BY <1>2, <2>1, <2>3
    <3>. QED BY <1>1, <3>1
  <2> HIDE DEF h
  <2>. QED BY <2>2, <2>3 DEF Injection, IsInjective
<1>4. IsFiniteSet(S) /\ Cardinality(S) = L - 1
  <2>1. Cardinality(S) = IF 1 > L - 1 THEN 0 ELSE (L - 1) - 1 + 1
    BY <1>1, FS_Interval
  <2>2. IsFiniteSet(S)
    BY <1>1, FS_Interval
  <2>. QED BY <1>1, <2>1, <2>2
<1>5. Cardinality(S) <= Cardinality(Files)
  BY <1>3, FilesFinite, FS_Injection
<1>. QED BY <1>4, <1>5 DEF L, FileCount

\* No two actions have the same name.
Unique(actions) ==
  \A i, j \in DOMAIN actions : actions[i].name = actions[j].name => i = j

\* The configuration c is what merging the files one after the other gives.
Content(c, files) ==
  /\ c.actions \in Seq(Range(c.actions))
  /\ Unique(c.actions) => Range(c.actions) = LastActions(files)
  /\ LastStages(files, c.stages)

\* What frame i still has to merge above its own file, in order.
Ahead(i, fr) ==
  Ordered(MergeOrder[FileCount + 1 - i], Join(fr.matches, FilesOf(fr.patterns)))

\* What remains to be merged when the frames up to i are left: the files of
\* frame i, then its own file, then what the frame below has left.
Below(rest, fs, i) == IF i = 1 THEN <<>> ELSE Join(<<fs[i].file>>, rest[i - 1])

Remains(rest, fs) ==
  /\ rest \in [1..Len(fs) -> Seq(Files)]
  /\ \A i \in 1..Len(fs) : rest[i] = Join(Ahead(i, fs[i]), Below(rest, fs, i))

\* The order of the includes of the main file m.
Whole(m) == Join(<<m>>, Ordered(MergeOrder[FileCount], FilesOf(world[m].include)))

\* The files merged so far and what the frames have left are that order.
Progress(c, fs, m) ==
  \E done, rest :
    /\ done \in Seq(Files) /\ Remains(rest, fs)
    /\ Whole(m) = Join(done, rest[Len(fs)]) /\ Content(c, done)

\* The frames of a stack.
Stack(fs) ==
  /\ Len(fs) \in Nat \ {0} /\ Len(fs) - 1 <= FileCount
  /\ \A i \in 1..Len(fs) : fs[i] \in FrameSet

\* What a frame has left is a sequence of files.
LEMMA AheadType ==
  ASSUME world \in Worlds, NEW i \in 1..(FileCount + 1), NEW fr \in FrameSet
  PROVE  /\ Ahead(i, fr) \in Seq(Files)
         /\ FileCount + 1 - i \in 0..FileCount
         /\ MergeOrder[FileCount + 1 - i] \in [Files -> Seq(Files)]
         /\ Join(fr.matches, FilesOf(fr.patterns)) \in Seq(Files)
<1>1. FileCount + 1 - i \in 0..FileCount
  BY FileCountType
<1>2. MergeOrder[FileCount + 1 - i] \in [Files -> Seq(Files)]
  <2>1. CASE Files = {}
    <3>1. fr.file \in Files
      BY DEF FrameSet
    <3>. QED BY <2>1, <3>1
  <2>2. CASE Files # {}
    BY <1>1, <2>2, MergeOrderExists
  <2>. QED BY <2>1, <2>2
<1>3. Join(fr.matches, FilesOf(fr.patterns)) \in Seq(Files)
  <2>1. fr.matches \in Seq(Files) /\ fr.patterns \in Seq(Patterns)
    BY DEF FrameSet
  <2>. QED BY <2>1, FilesOfPatterns, JoinType
<1>. QED BY <1>1, <1>2, <1>3, OrderedFiles DEF Ahead

\* So is what the frames below it have left.
LEMMA BelowType ==
  ASSUME NEW fs, Stack(fs), NEW rest \in [1..Len(fs) -> Seq(Files)], NEW i \in 1..Len(fs)
  PROVE  Below(rest, fs, i) \in Seq(Files)
<1>1. CASE i = 1
  BY <1>1, EmptySeq DEF Below
<1>2. CASE i # 1
  <2>1. i - 1 \in 1..Len(fs) /\ fs[i].file \in Files
    BY <1>2 DEF Stack, FrameSet
  <2>2. rest[i - 1] \in Seq(Files) /\ <<fs[i].file>> \in Seq(Files)
    BY <2>1
  <2>3. Below(rest, fs, i) = Join(<<fs[i].file>>, rest[i - 1])
    BY <1>2 DEF Below
  <2>. QED BY <2>2, <2>3, JoinType
<1>. QED BY <1>1, <1>2

\* The main file has been read.
LEMMA ProgressStarts ==
  ASSUME world \in Worlds, NEW m, Exists(m), NEW c, Content(c, <<m>>), NEW fs,
         Stack(fs), Len(fs) = 1, fs[1] = Frame(m, world[m].include)
  PROVE  Progress(c, fs, m)
<1> DEFINE fr == fs[1]
           rest == [i \in 1..1 |-> Ahead(1, fr)]
<1>1. m \in Files /\ world[m].include \in Seq(Patterns)
  BY FileContent
<1>2. 1 \in 1..(FileCount + 1) /\ fr \in FrameSet /\ FileCount + 1 - 1 = FileCount
  BY FileCountType DEF Stack
<1>3. Ahead(1, fr) \in Seq(Files)
  BY <1>2, AheadType
<1>4. Ahead(1, fr) = Ordered(MergeOrder[FileCount], FilesOf(world[m].include))
  <2>1. fr.matches = <<>> /\ fr.patterns = world[m].include
    BY DEF Frame
  <2>2. Join(<<>>, FilesOf(world[m].include)) = FilesOf(world[m].include)
    BY <1>1, FilesOfPatterns, JoinType
  <2>. QED BY <1>2, <2>1, <2>2 DEF Ahead
<1> HIDE DEF fr
<1>5. Remains(rest, fs)
  <2>1. Join(Ahead(1, fr), <<>>) = Ahead(1, fr)
    BY <1>3, JoinType
  <2>2. rest \in [1..Len(fs) -> Seq(Files)] /\ rest[1] = Ahead(1, fr)
    BY <1>3
  <2> HIDE DEF rest
  <2>3. Below(rest, fs, 1) = <<>>
    BY DEF Below
  <2>4. \A i \in 1..Len(fs) : i = 1
    OBVIOUS
  <2>. QED BY <2>1, <2>2, <2>3, <2>4 DEF Remains, fr
<1>6. Whole(m) = Join(<<m>>, rest[Len(fs)])
  BY <1>4 DEF Whole
<1>7. <<m>> \in Seq(Files)
  BY <1>1
<1>. QED BY <1>5, <1>6, <1>7 DEF Progress

\* A pattern is replaced by what it stands for.
LEMMA ProgressPattern ==
  ASSUME world \in Worlds, NEW c, NEW fs, NEW m, Progress(c, fs, m), Stack(fs),
         NEW gs, Stack(gs), Len(gs) = Len(fs),
         \A i \in 1..(Len(fs) - 1) : gs[i] = fs[i],
         gs[Len(fs)].file = fs[Len(fs)].file,
         fs[Len(fs)].matches = <<>>, fs[Len(fs)].patterns # <<>>,
         gs[Len(fs)].matches = Found(Head(fs[Len(fs)].patterns)),
         gs[Len(fs)].patterns = Tail(fs[Len(fs)].patterns)
  PROVE  Progress(c, gs, m)
<1> DEFINE L == Len(fs)
<1>1. L \in Nat \ {0} /\ L \in 1..L /\ fs[L] \in FrameSet
  BY DEF Stack
<1>2. Ahead(L, gs[L]) = Ahead(L, fs[L])
  <2> DEFINE ps == fs[L].patterns
  <2>1. ps \in Seq(Patterns) /\ ps # <<>> 
    BY <1>1 DEF FrameSet
  <2>2. FilesOf(ps) \in Seq(Files) /\ FilesOf(ps) = Join(Found(Head(ps)), FilesOf(Tail(ps)))
    <3> HIDE DEF ps
    <3>. QED BY <2>1, FilesOfPatterns
  <2>3. Join(<<>>, FilesOf(ps)) = FilesOf(ps)
    <3> HIDE DEF ps
    <3>. QED BY <2>2, JoinType
  <2>4. Join(gs[L].matches, FilesOf(gs[L].patterns)) = Join(fs[L].matches, FilesOf(fs[L].patterns))
    BY <2>2, <2>3, Zenon
  <2>. QED BY <2>4 DEF Ahead
<1>3. PICK done, rest :
        /\ done \in Seq(Files) /\ Remains(rest, fs)
        /\ Whole(m) = Join(done, rest[L]) /\ Content(c, done)
  BY DEF Progress
<1>4. Remains(rest, gs)
  <2>1. ASSUME NEW i \in 1..L
        PROVE  Ahead(i, gs[i]) = Ahead(i, fs[i]) /\ Below(rest, gs, i) = Below(rest, fs, i)
    <3>1. i = L \/ i \in 1..(L - 1)
      BY <1>1
    <3>2. gs[i].file = fs[i].file
      BY <3>1
    <3>3. Ahead(i, gs[i]) = Ahead(i, fs[i])
      BY <1>2, <3>1
    <3>4. Below(rest, gs, i) = Below(rest, fs, i)
      BY <3>2 DEF Below
    <3>. QED BY <3>3, <3>4
  <2> HIDE DEF L
  <2>2. Len(gs) = L /\ Len(fs) = L
    BY DEF L
  <2>. QED BY <1>3, <2>1, <2>2 DEF Remains
<1>. QED BY <1>3, <1>4 DEF Progress

\* The head and the tail of joined sequences.
LEMMA JoinHeadTail ==
  ASSUME NEW S, NEW a \in Seq(S), NEW b \in Seq(S), a # <<>>
  PROVE  /\ Join(a, b) # <<>> /\ Head(Join(a, b)) = Head(a)
         /\ Tail(Join(a, b)) = Join(Tail(a), b)
<1> DEFINE j == Join(a, b)
           u == Tail(j)
           v == Join(Tail(a), b)
<1>1. /\ Len(a) \in Nat \ {0} /\ Len(b) \in Nat /\ Head(a) = a[1] /\ Tail(a) \in Seq(S)
      /\ Len(Tail(a)) = Len(a) - 1 /\ \A i \in 1..(Len(a) - 1) : Tail(a)[i] = a[i + 1]
  BY HeadTailProperties, EmptySeq, LenProperties
<1>2. /\ j \in Seq(S) /\ Len(j) = Len(a) + Len(b)
      /\ \A i \in 1..(Len(a) + Len(b)) : j[i] = IF i <= Len(a) THEN a[i] ELSE b[i - Len(a)]
  BY ConcatProperties DEF Join
<1>3. /\ v \in Seq(S) /\ Len(v) = Len(Tail(a)) + Len(b)
      /\ \A i \in 1..(Len(Tail(a)) + Len(b)) :
           v[i] = IF i <= Len(Tail(a)) THEN Tail(a)[i] ELSE b[i - Len(Tail(a))]
  <2> DEFINE t == Tail(a)
  <2>1. t \in Seq(S)
    BY <1>1
  <2> HIDE DEF t
  <2>2. /\ Join(t, b) \in Seq(S) /\ Len(Join(t, b)) = Len(t) + Len(b)
        /\ \A i \in 1..(Len(t) + Len(b)) : Join(t, b)[i] = IF i <= Len(t) THEN t[i] ELSE b[i - Len(t)]
    BY <2>1, ConcatProperties DEF Join
  <2>. QED BY <2>2 DEF t
<1> HIDE DEF j, v
<1>4. j # <<>>
  BY <1>1, <1>2
<1>5. /\ Head(j) = j[1] /\ u \in Seq(S) /\ Len(u) = Len(j) - 1
      /\ \A i \in 1..(Len(j) - 1) : u[i] = j[i + 1]
  BY <1>2, <1>4, HeadTailProperties
<1> HIDE DEF u
<1>6. Len(u) = Len(v) /\ \A i \in 1..Len(u) : u[i] = v[i]
  <2>1. Len(u) = Len(v) /\ Len(u) = Len(a) - 1 + Len(b)
    BY <1>1, <1>2, <1>3, <1>5
  <2>2. ASSUME NEW i \in 1..Len(u) PROVE u[i] = v[i]
    <3>1. u[i] = j[i + 1] /\ i + 1 \in 1..(Len(a) + Len(b)) /\ i \in 1..(Len(Tail(a)) + Len(b))
      BY <1>1, <1>2, <1>5, <2>1
    <3>2. CASE i <= Len(a) - 1
      <4>1. i \in 1..(Len(a) - 1) /\ i + 1 <= Len(a) /\ i <= Len(Tail(a))
        BY <1>1, <2>1, <3>2
      <4>. QED BY <1>1, <1>2, <1>3, <3>1, <4>1
    <3>3. CASE ~(i <= Len(a) - 1)
      <4>1. ~(i + 1 <= Len(a)) /\ ~(i <= Len(Tail(a))) /\ (i + 1) - Len(a) = i - Len(Tail(a))
        BY <1>1, <2>1, <3>3
      <4>. QED BY <1>2, <1>3, <3>1, <4>1
    <3>. QED BY <3>2, <3>3
  <2>. QED BY <2>1, <2>2
<1>7. u = v
  BY <1>3, <1>5, <1>6, SeqEqual
<1>8. Head(j) = Head(a)
  <2>1. 1 \in 1..(Len(a) + Len(b)) /\ 1 <= Len(a)
    BY <1>1
  <2>. QED BY <1>1, <1>2, <1>5, <2>1
<1>. QED BY <1>4, <1>7, <1>8 DEF j, u, v

\* A file that is entered brings what it includes before itself.
LEMMA AheadOfFile ==
  ASSUME world \in Worlds, NEW i \in 1..FileCount, NEW fr \in FrameSet, fr.matches # <<>>,
         NEW new \in FrameSet, new.matches = Tail(fr.matches), new.patterns = fr.patterns,
         NEW f, f = Head(fr.matches), Exists(f),
         NEW top \in FrameSet, top = Frame(f, world[f].include)
  PROVE  Ahead(i, fr) = Join(Ahead(i + 1, top), Join(<<f>>, Ahead(i, new)))
<1> DEFINE d == FileCount + 1 - i
           order == MergeOrder[d]
           ms == fr.matches
           ps == FilesOf(fr.patterns)
           inner == Ahead(i + 1, top)
<1>1. /\ i \in 1..(FileCount + 1) /\ i + 1 \in 1..(FileCount + 1)
      /\ d \in 1..FileCount /\ d \in 0..FileCount /\ d # 0 /\ d - 1 = FileCount + 1 - (i + 1)
  BY FileCountType
<1>2. order \in [Files -> Seq(Files)] /\ inner \in Seq(Files) /\ Ahead(i, new) \in Seq(Files)
  BY <1>1, AheadType
<1>3. /\ ms \in Seq(Files) /\ ms # <<>> /\ f \in Files /\ Tail(ms) \in Seq(Files)
      /\ fr.patterns \in Seq(Patterns)
  BY HeadAndTail DEF FrameSet
<1>4. ps \in Seq(Files)
  BY <1>3, FilesOfPatterns
<1>5. inner = Ordered(MergeOrder[d - 1], FilesOf(world[f].include))
  <2>1. top.matches = <<>> /\ top.patterns = world[f].include
    BY DEF Frame
  <2>2. FilesOf(world[f].include) \in Seq(Files)
    BY FileContent, FilesOfPatterns
  <2>3. Join(<<>>, FilesOf(world[f].include)) = FilesOf(world[f].include)
    BY <2>2, JoinType
  <2>4. inner = Ordered(MergeOrder[FileCount + 1 - (i + 1)], Join(top.matches, FilesOf(top.patterns)))
    BY DEF Ahead
  <2>. QED BY <1>1, <2>1, <2>3, <2>4
<1>6. order[f] = Join(inner, <<f>>)
  <2>1. order[f] = Append(inner, f)
    BY <1>1, <1>3, <1>5, MergeOrderExists
  <2> HIDE DEF order, inner
  <2>2. Append(inner, f) = Join(inner, <<f>>)
    BY <1>2, <1>3, AppendIsConcat DEF Join
  <2>. QED BY <2>1, <2>2
<1>7. /\ Join(ms, ps) \in Seq(Files) /\ Join(ms, ps) # <<>> /\ Head(Join(ms, ps)) = f
      /\ Tail(Join(ms, ps)) = Join(Tail(ms), ps)
  <2> HIDE DEF ms, ps
  <2>1. Join(ms, ps) \in Seq(Files)
    BY <1>3, <1>4, JoinType
  <2>2. Join(ms, ps) # <<>> /\ Head(Join(ms, ps)) = f /\ Tail(Join(ms, ps)) = Join(Tail(ms), ps)
    <3>1. f = Head(ms)
      BY DEF ms
    <3>. QED BY <1>3, <1>4, <3>1, JoinHeadTail
  <2>. QED BY <2>1, <2>2
<1>8. Ahead(i, fr) = Join(order[f], Ordered(order, Join(Tail(ms), ps)))
  <2>1. Ahead(i, fr) = Ordered(order, Join(ms, ps))
    BY DEF Ahead
  <2> HIDE DEF order, ms, ps
  <2>. QED BY <1>2, <1>7, <2>1, OrderedFiles
<1>9. Ahead(i, new) = Ordered(order, Join(Tail(ms), ps))
  BY DEF Ahead
<1>10. Join(Join(inner, <<f>>), Ahead(i, new)) = Join(inner, Join(<<f>>, Ahead(i, new)))
  <2> DEFINE one == <<f>>
             after == Ahead(i, new)
  <2>1. one \in Seq(Files) /\ after \in Seq(Files)
    BY <1>2, <1>3
  <2> HIDE DEF inner, one, after
  <2>2. Join(Join(inner, one), after) = Join(inner, Join(one, after))
    BY <1>2, <2>1, JoinAssociative
  <2>. QED BY <2>2 DEF one, after
<1>. QED BY <1>6, <1>8, <1>9, <1>10, Zenon

\* An included file is entered.
LEMMA ProgressEnter ==
  ASSUME world \in Worlds, NEW c, NEW fs, NEW m, Progress(c, fs, m), Stack(fs),
         fs[Len(fs)].matches # <<>>,
         NEW f, f = Head(fs[Len(fs)].matches), Exists(f),
         NEW gs, Stack(gs), Len(gs) = Len(fs) + 1,
         \A i \in 1..(Len(fs) - 1) : gs[i] = fs[i],
         gs[Len(fs)].file = fs[Len(fs)].file,
         gs[Len(fs)].patterns = fs[Len(fs)].patterns,
         gs[Len(fs)].matches = Tail(fs[Len(fs)].matches),
         gs[Len(fs) + 1] = Frame(f, world[f].include)
  PROVE  Progress(c, gs, m)
<1> DEFINE L == Len(fs)
           fr == fs[L]
           new == gs[L]
           top == gs[L + 1]
           A == Ahead(L, new)
           I == Ahead(L + 1, top)
<1>1. /\ L \in Nat \ {0} /\ L \in 1..L /\ L \in 1..(L + 1) /\ L + 1 \in 1..(L + 1)
      /\ fr \in FrameSet /\ new \in FrameSet /\ top \in FrameSet
      /\ L \in 1..FileCount /\ L \in 1..(FileCount + 1) /\ L + 1 \in 1..(FileCount + 1)
      /\ f \in Files
  <2>1. L \in Nat \ {0} /\ L - 1 <= FileCount /\ (L + 1) - 1 <= FileCount
    BY DEF Stack
  <2>2. L \in 1..L /\ L \in 1..(L + 1) /\ L + 1 \in 1..(L + 1)
    BY <2>1
  <2>3. fr \in FrameSet /\ new \in FrameSet /\ top \in FrameSet
    BY <2>2 DEF Stack
  <2>4. L \in 1..FileCount /\ L \in 1..(FileCount + 1) /\ L + 1 \in 1..(FileCount + 1)
    BY <2>1, FileCountType
  <2>. QED BY <2>1, <2>2, <2>3, <2>4, FileContent
<1>2. PICK done, rest :
        /\ done \in Seq(Files) /\ Remains(rest, fs)
        /\ Whole(m) = Join(done, rest[L]) /\ Content(c, done)
  BY DEF Progress
<1>3. rest \in [1..L -> Seq(Files)]
  BY <1>2 DEF Remains
<1> DEFINE B == Below(rest, fs, L)
           one == <<f>>
           below == Join(A, B)
           rest2 == [i \in 1..(L + 1) |->
                      IF i = L + 1 THEN rest[L] ELSE IF i = L THEN below ELSE rest[i]]
<1>4. A \in Seq(Files) /\ I \in Seq(Files) /\ B \in Seq(Files) /\ one \in Seq(Files)
  <2>1. A \in Seq(Files)
    BY <1>1, AheadType
  <2>2. I \in Seq(Files)
    BY <1>1, AheadType
  <2>3. B \in Seq(Files)
    BY <1>1, <1>3, BelowType
  <2>4. one \in Seq(Files)
    BY <1>1
  <2>. QED BY <2>1, <2>2, <2>3, <2>4
<1>5. rest[L] = Join(Ahead(L, fr), B)
  BY <1>1, <1>2 DEF Remains
<1>6. Ahead(L, fr) = Join(I, Join(one, A))
  BY <1>1, AheadOfFile
<1> HIDE DEF A, I, B, one
<1>7. below \in Seq(Files) /\ Join(one, A) \in Seq(Files)
  BY <1>4, JoinType
<1>8. rest[L] = Join(I, Join(one, below))
  <2>1. rest[L] = Join(Join(I, Join(one, A)), B)
    BY <1>5, <1>6
  <2>2. Join(Join(I, Join(one, A)), B) = Join(I, Join(Join(one, A), B))
    <3> DEFINE x == Join(one, A)
    <3>1. x \in Seq(Files)
      BY <1>7
    <3> HIDE DEF x
    <3>2. Join(Join(I, x), B) = Join(I, Join(x, B))
      BY <1>4, <3>1, JoinAssociative
    <3>. QED BY <3>2 DEF x
  <2>3. Join(Join(one, A), B) = Join(one, Join(A, B))
    BY <1>4, JoinAssociative
  <2>. QED BY <2>1, <2>2, <2>3
<1> HIDE DEF below
<1>9. /\ rest2 \in [1..(L + 1) -> Seq(Files)]
      /\ rest2[L + 1] = rest[L] /\ rest2[L] = below
      /\ \A i \in 1..(L - 1) : rest2[i] = rest[i]
  <2> HIDE DEF L
  <2>. QED BY <1>1, <1>3, <1>7
<1> HIDE DEF rest2
<1>10. ASSUME NEW i \in 1..(L + 1) PROVE rest2[i] = Join(Ahead(i, gs[i]), Below(rest2, gs, i))
  <2>1. CASE i = L + 1
    <3>1. Below(rest2, gs, L + 1) = Join(<<top.file>>, rest2[L])
      <4>1. L + 1 # 1 /\ (L + 1) - 1 = L
        BY <1>1
      <4>. QED BY <4>1 DEF Below
    <3>2. top.file = f
      BY DEF Frame
    <3>3. Below(rest2, gs, L + 1) = Join(one, below)
      BY <1>9, <3>1, <3>2 DEF one
    <3>. QED BY <1>8, <1>9, <2>1, <3>3 DEF I
  <2>2. CASE i = L
    <3>1. Below(rest2, gs, L) = B
      <4>1. CASE L = 1
        BY <4>1 DEF Below, B
      <4>2. CASE L # 1
        <5>1. L - 1 \in 1..(L - 1)
          <6> HIDE DEF L
          <6>. QED BY <1>1, <4>2
        <5>2. rest2[L - 1] = rest[L - 1]
          BY <1>9, <5>1
        <5>. QED BY <4>2, <5>2 DEF Below, B
      <4>. QED BY <4>1, <4>2
    <3>. QED BY <1>9, <2>2, <3>1 DEF below, A
  <2>3. CASE i \in 1..(L - 1)
    <3>1. gs[i] = fs[i] /\ rest2[i] = rest[i] /\ i \in 1..L
      BY <1>1, <1>9, <2>3
    <3>2. rest[i] = Join(Ahead(i, fs[i]), Below(rest, fs, i))
      BY <1>2, <3>1 DEF Remains
    <3>3. Below(rest2, gs, i) = Below(rest, fs, i)
      <4>1. CASE i = 1
        BY <4>1 DEF Below
      <4>2. CASE i # 1
        <5>1. i - 1 \in 1..(L - 1)
          BY <1>1, <2>3, <4>2
        <5>2. rest2[i - 1] = rest[i - 1]
          BY <1>9, <5>1
        <5>. QED BY <3>1, <4>2, <5>2 DEF Below
      <4>. QED BY <4>1, <4>2
    <3>. QED BY <3>1, <3>2, <3>3
  <2>. QED BY <1>1, <2>1, <2>2, <2>3
<1>11. Remains(rest2, gs)
  <2> HIDE DEF L
  <2>1. Len(gs) = L + 1
    BY DEF L
  <2>. QED BY <1>9, <1>10, <2>1 DEF Remains
<1>12. Whole(m) = Join(done, rest2[Len(gs)])
  BY <1>2, <1>9
<1>. QED BY <1>2, <1>11, <1>12 DEF Progress

\* The innermost file has been merged.
LEMMA ProgressLeave ==
  ASSUME world \in Worlds, NEW c, NEW fs, NEW m, Progress(c, fs, m), Stack(fs), Len(fs) # 1,
         fs[Len(fs)].matches = <<>>, fs[Len(fs)].patterns = <<>>,
         NEW f, f = fs[Len(fs)].file,
         NEW gs, Len(gs) = Len(fs) - 1, \A i \in 1..Len(gs) : gs[i] = fs[i],
         NEW d, \A files \in Seq(Files) : Content(c, files) => Content(d, Append(files, f))
  PROVE  Progress(d, gs, m)
<1> DEFINE L == Len(fs)
<1>1. L \in Nat \ {0, 1} /\ L \in 1..L /\ L - 1 \in 1..L /\ L - 1 \in 1..(L - 1) /\ f \in Files
      /\ L \in 1..(FileCount + 1) /\ fs[L] \in FrameSet
  BY FileCountType DEF Stack, FrameSet
<1>2. PICK done, rest :
        /\ done \in Seq(Files) /\ Remains(rest, fs)
        /\ Whole(m) = Join(done, rest[L]) /\ Content(c, done)
  BY DEF Progress
<1>3. rest \in [1..L -> Seq(Files)] /\ rest[L] = Join(Ahead(L, fs[L]), Below(rest, fs, L))
  BY <1>1, <1>2 DEF Remains
<1>4. Ahead(L, fs[L]) = <<>>
  <2>1. FilesOf(<<>>) = <<>>
    <3>1. <<>> \in Seq(Patterns)
      BY EmptySeq
    <3>. QED BY <3>1, FilesOfPatterns
  <2>2. Join(<<>>, <<>>) = <<>>
    <3>1. <<>> \in Seq(Files)
      BY EmptySeq
    <3>. QED BY <3>1, JoinType
  <2>3. Join(fs[L].matches, FilesOf(fs[L].patterns)) = <<>>
    BY <2>1, <2>2
  <2>4. MergeOrder[FileCount + 1 - L] \in [Files -> Seq(Files)]
    BY <1>1, AheadType
  <2>5. Ahead(L, fs[L]) = Ordered(MergeOrder[FileCount + 1 - L], <<>>)
    BY <2>3 DEF Ahead
  <2>6. <<>> \in Seq(Files)
    BY EmptySeq
  <2>. QED BY <2>4, <2>5, <2>6, OrderedFiles
<1> DEFINE one == <<f>>
           B == rest[L - 1]
<1>5. one \in Seq(Files) /\ B \in Seq(Files)
  <2>1. one \in Seq(Files)
    BY <1>1
  <2>2. B \in Seq(Files)
    BY <1>1, <1>3
  <2>. QED BY <2>1, <2>2
<1>6. Below(rest, fs, L) = Join(one, B)
  BY <1>1 DEF Below
<1> HIDE DEF one, B
<1>7. rest[L] = Join(one, B)
  <2> DEFINE x == Join(one, B)
  <2>1. x \in Seq(Files)
    BY <1>5, JoinType
  <2> HIDE DEF x
  <2>2. Join(<<>>, x) = x
    BY <2>1, JoinType
  <2>3. rest[L] = Join(<<>>, x)
    BY <1>3, <1>4, <1>6 DEF x
  <2>. QED BY <2>2, <2>3 DEF x
<1>8. Whole(m) = Join(Append(done, f), B)
  <2>1. Append(done, f) = Join(done, one)
    BY <1>1, <1>2, AppendIsConcat DEF Join, one
  <2>2. Join(Join(done, one), B) = Join(done, Join(one, B))
    BY <1>2, <1>5, JoinAssociative
  <2>. QED BY <1>2, <1>7, <2>1, <2>2
<1>9. Append(done, f) \in Seq(Files) /\ Content(d, Append(done, f))
  BY <1>1, <1>2, AppendProperties
<1> DEFINE rest2 == [i \in 1..(L - 1) |-> rest[i]]
<1>10. /\ rest2 \in [1..(L - 1) -> Seq(Files)] /\ rest2[L - 1] = B
       /\ \A i \in 1..(L - 1) : rest2[i] = rest[i]
  <2>. HIDE DEF L
  <2>1. \A i \in 1..(L - 1) : i \in 1..L
    BY <1>1
  <2>. QED BY <1>1, <1>3, <2>1 DEF B
<1> HIDE DEF rest2
<1>11. ASSUME NEW i \in 1..(L - 1) PROVE rest2[i] = Join(Ahead(i, gs[i]), Below(rest2, gs, i))
  <2>1. gs[i] = fs[i] /\ rest2[i] = rest[i] /\ i \in 1..L
    BY <1>1, <1>10
  <2>2. rest[i] = Join(Ahead(i, fs[i]), Below(rest, fs, i))
    BY <1>2, <2>1 DEF Remains
  <2>3. Below(rest2, gs, i) = Below(rest, fs, i)
    <3>1. CASE i = 1
      BY <3>1 DEF Below
    <3>2. CASE i # 1
      <4>1. i - 1 \in 1..(L - 1)
        BY <1>1, <3>2
      <4>2. rest2[i - 1] = rest[i - 1]
        BY <1>10, <4>1
      <4>. QED BY <2>1, <3>2, <4>2 DEF Below
    <3>. QED BY <3>1, <3>2
  <2>. QED BY <2>1, <2>2, <2>3
<1>12. Remains(rest2, gs)
  <2> HIDE DEF L
  <2>1. Len(gs) = L - 1
    BY DEF L
  <2>. QED BY <1>10, <1>11, <2>1 DEF Remains
<1>13. Whole(m) = Join(Append(done, f), rest2[Len(gs)])
  BY <1>8, <1>10
<1>. QED BY <1>9, <1>12, <1>13 DEF Progress

-----------------------------------------------------------------------------
(* What merging a file does *)

\* A function on the first numbers is a sequence.
LEMMA FunctionIsSeq ==
  ASSUME NEW S, NEW n \in Nat, NEW s \in [1..n -> S]
  PROVE  s \in Seq(S)
  BY SeqDef

\* The place of the action that is replaced.
LEMMA ReplacedAction ==
  ASSUME NEW T, NEW as \in Seq(T), NEW a, NEW k \in DOMAIN as, as[k].name = a.name
  PROVE  \E i \in DOMAIN as : as[i].name = a.name /\ MergeAction(as, a) = [as EXCEPT ![i] = a]
<1> DEFINE S == {i \in 1..Len(as) : as[i].name = a.name}
<1>0. DOMAIN as = 1..Len(as) /\ Len(as) \in Nat
  BY LenProperties
<1>1. DOMAIN as = 1..Len(as) /\ k \in S /\ \A i \in S : i \in Nat
  <2>1. k \in 1..Len(as)
    BY <1>0
  <2>2. \A i \in 1..Len(as) : i \in Nat
    BY <1>0
  <2>. QED BY <1>0, <2>1, <2>2
<1>2. S \in SUBSET Nat /\ S # {}
  <2> HIDE DEF S
  <2>. QED BY <1>1
<1>3. PICK i \in S : \A j \in S : ~(j < i)
  <2> HIDE DEF S
  <2>. QED BY <1>2, SmallestNumber
<1>4. \E i2 \in S : \A j \in S : i2 <= j
  <2> HIDE DEF S
  <2>. QED BY <1>2, <1>3
<1>5. Min(S) \in S
  <2> HIDE DEF S
  <2>. QED BY <1>4 DEF Min
<1>6. SelectInSeq(as, LAMBDA x : x.name = a.name) = Min(S)
  BY <1>2 DEF SelectInSeq
<1>. QED BY <1>1, <1>5, <1>6 DEF MergeAction

\* A merged action takes the place of the one of its name, if there is one.
LEMMA MergedAction ==
  ASSUME NEW T, NEW as \in Seq(T), NEW a
  PROVE  LET r == MergeAction(as, a) IN
         /\ r \in Seq(T \cup {a})
         /\ Unique(r) => /\ Unique(as)
                         /\ \A x : x \in Range(r) <=> x = a \/ (x \in Range(as) /\ x.name # a.name)
<1> DEFINE r == MergeAction(as, a)
           n == Len(as)
           U == T \cup {a}
<1>0. DOMAIN as = 1..n /\ n \in Nat /\ as \in [1..n -> T]
  BY LenProperties
<1>1. CASE \E k \in DOMAIN as : as[k].name = a.name
  <2>1. PICK i \in DOMAIN as : as[i].name = a.name /\ r = [as EXCEPT ![i] = a]
    BY <1>1, ReplacedAction
  <2> HIDE DEF r, n
  <2>2. /\ r \in [1..n -> U] /\ DOMAIN r = DOMAIN as
        /\ r[i] = a /\ \A j \in DOMAIN as : j # i => r[j] = as[j]
    BY <1>0, <2>1
  <2>3. r \in Seq(U)
    <3> HIDE DEF U
    <3>. QED BY <1>0, <2>2, SeqDef
  <2>4. \A j \in DOMAIN as : r[j].name = as[j].name
    BY <2>1, <2>2
  <2>5. Unique(r) => Unique(as)
    BY <2>2, <2>4 DEF Unique
  <2>6. ASSUME Unique(as), NEW x
        PROVE  x \in Range(r) <=> x = a \/ (x \in Range(as) /\ x.name # a.name)
    <3>1. ASSUME x \in Range(r) PROVE x = a \/ (x \in Range(as) /\ x.name # a.name)
      <4>1. PICK j \in DOMAIN as : x = r[j]
        BY <2>2, <3>1 DEF Range
      <4>2. CASE j = i
        BY <2>2, <4>1, <4>2
      <4>3. CASE j # i
        <5>1. x = as[j] /\ as[j].name # as[i].name
          BY <2>2, <2>6, <4>1, <4>3 DEF Unique
        <5>. QED BY <2>1, <4>1, <5>1 DEF Range
      <4>. QED BY <4>2, <4>3
    <3>2. a \in Range(r)
      BY <2>1, <2>2 DEF Range
    <3>3. ASSUME x \in Range(as), x.name # a.name PROVE x \in Range(r)
      <4>1. PICK j \in DOMAIN as : x = as[j]
        BY <3>3 DEF Range
      <4>2. j # i
        BY <2>1, <3>3, <4>1
      <4>. QED BY <2>2, <4>1, <4>2 DEF Range
    <3>. QED BY <3>1, <3>2, <3>3
  <2>. QED BY <2>3, <2>5, <2>6 DEF r
<1>2. CASE ~\E k \in DOMAIN as : as[k].name = a.name
  <2>1. r = Append(as, a)
    BY <1>2 DEF MergeAction
  <2>2. as \in Seq(U) /\ a \in U
    <3>1. as \in [1..n -> U]
      <4> HIDE DEF n
      <4>. QED BY <1>0
    <3> HIDE DEF U, n
    <3>2. as \in Seq(U)
      BY <1>0, <3>1, FunctionIsSeq
    <3>. QED BY <3>2 DEF U
  <2> HIDE DEF r, U
  <2>3. /\ r \in Seq(U) /\ Len(r) = n + 1 /\ r[n + 1] = a
        /\ \A i \in 1..n : r[i] = as[i]
    <3>1. r \in Seq(U)
      BY <2>1, <2>2, AppendProperties
    <3>2. Len(r) = n + 1
      BY <2>1, <2>2, AppendProperties
    <3>3. r[n + 1] = a
      BY <2>1, <2>2, AppendProperties
    <3>4. \A i \in 1..n : r[i] = as[i]
      BY <2>1, <2>2, AppendProperties
    <3>. QED BY <3>1, <3>2, <3>3, <3>4
  <2>4. DOMAIN r = 1..(n + 1)
    BY <2>3, LenProperties
  <2> HIDE DEF n
  <2>5. \A i \in 1..n : i \in 1..(n + 1)
    BY <1>0
  <2>6. ASSUME Unique(r) PROVE Unique(as)
    <3>1. ASSUME NEW i \in DOMAIN as, NEW j \in DOMAIN as, as[i].name = as[j].name PROVE i = j
      <4>1. i \in 1..n /\ j \in 1..n
        BY <1>0
      <4>2. i \in DOMAIN r /\ j \in DOMAIN r /\ r[i] = as[i] /\ r[j] = as[j]
        BY <2>3, <2>4, <2>5, <4>1
      <4>. QED BY <2>6, <3>1, <4>2 DEF Unique
    <3>. QED BY <3>1 DEF Unique
  <2>7. ASSUME NEW x PROVE x \in Range(r) <=> x = a \/ (x \in Range(as) /\ x.name # a.name)
    <3>1. x \in Range(as) => x.name # a.name
      BY <1>2 DEF Range
    <3>2. Range(r) = {r[i] : i \in 1..(n + 1)} /\ Range(as) = {as[i] : i \in 1..n}
      BY <1>0, <2>4 DEF Range
    <3>3. x \in Range(r) => x = a \/ x \in Range(as)
      <4> SUFFICES ASSUME x \in Range(r) PROVE x = a \/ x \in Range(as)
        OBVIOUS
      <4>1. PICK i \in 1..(n + 1) : x = r[i]
        BY <3>2
      <4>2. i = n + 1 \/ i \in 1..n
        BY <1>0
      <4>. QED BY <2>3, <3>2, <4>1, <4>2
    <3>4. a \in Range(r) /\ (x \in Range(as) => x \in Range(r))
      <4>1. n + 1 \in 1..(n + 1)
        BY <1>0
      <4>. QED BY <2>3, <2>5, <3>2, <4>1
    <3>. QED BY <3>1, <3>3, <3>4
  <2>. QED BY <2>3, <2>6, <2>7 DEF r, U
<1>. QED BY <1>1, <1>2

\* The loop over the actions of the included file, step by step.
Merging(g, base, inc) ==
  /\ g[0] = base
  /\ \A i \in 1..Len(inc) : g[i] = MergeAction(g[i - 1], inc[i])

\* That loop can be written down.
LEMMA MergingExists ==
  ASSUME NEW c, NEW included, Len(included.actions) \in Nat
  PROVE  \E g : /\ Merging(g, c.actions, included.actions)
                /\ Merge(c, included).actions = g[Len(included.actions)]
<1> DEFINE inc == included.actions
           F(g, i) == IF i = 0 THEN c.actions ELSE MergeAction(g[i - 1], inc[i])
           P(k) == \E g : g = [i \in 0..k |-> F(g, i)]
           S == {k \in Nat : ~P(k)}
<1>1. ASSUME S # {} PROVE FALSE
  <2>1. PICK k \in S : \A j \in S : ~(j < k)
    BY <1>1, SmallestNumber
  <2>2. CASE k = 0
    <3> DEFINE g == [i \in 0..0 |-> c.actions]
    <3>1. g = [i \in 0..0 |-> F(g, i)]
      OBVIOUS
    <3>. QED BY <2>1, <2>2, <3>1
  <2>3. CASE k # 0
    <3>1. k - 1 \in Nat /\ P(k - 1)
      <4> HIDE DEF P
      <4>1. k \in Nat /\ k - 1 \in Nat /\ k - 1 < k
        BY <2>1, <2>3
      <4>. QED BY <2>1, <4>1
    <3>2. PICK g : g = [i \in 0..(k - 1) |-> F(g, i)]
      BY <3>1
    <3> DEFINE h == [i \in 0..k |-> IF i = k THEN F(g, k) ELSE g[i]]
    <3>3. \A i \in 0..k : h[i] = F(h, i)
      <4> SUFFICES ASSUME NEW i \in 0..k PROVE h[i] = F(h, i)
        OBVIOUS
      <4>1. CASE i = k
        <5>1. k - 1 \in 0..k /\ k - 1 # k /\ k \in 0..k
          BY <2>1, <2>3
        <5>. QED BY <2>3, <4>1, <5>1
      <4>2. CASE i # k
        <5>1. i \in 0..(k - 1) /\ h[i] = g[i] /\ (i # 0 => i - 1 \in 0..k /\ i - 1 # k)
          BY <2>1, <4>2
        <5>2. g[i] = F(g, i)
          BY <3>2, <5>1
        <5>. QED BY <5>1, <5>2
      <4>. QED BY <4>1, <4>2
    <3>4. h = [i \in 0..k |-> F(h, i)]
      BY <3>3
    <3>. QED BY <2>1, <3>4
  <2>. QED BY <2>2, <2>3
<1>2. P(Len(inc))
  BY <1>1
<1>3. PICK g : /\ g = [i \in 0..Len(inc) |-> F(g, i)]
               /\ Merge(c, included).actions = g[Len(inc)]
  BY <1>2 DEF Merge
<1> DEFINE G(i) == F(g, i)
<1>4. g = [i \in 0..Len(inc) |-> G(i)]
  BY <1>3
<1> HIDE DEF G, inc
<1>5. \A i \in 0..Len(inc) : g[i] = G(i)
  BY <1>4
<1>6. 0 \in 0..Len(inc) /\ \A i \in 1..Len(inc) : i \in 0..Len(inc) /\ i # 0
  BY DEF inc
<1>7. Merging(g, c.actions, inc)
  BY <1>5, <1>6 DEF Merging, G
<1>. QED BY <1>3, <1>7 DEF inc

\* An included file replaces the actions it defines; of several definitions of
\* its own the last one counts.
LEMMA MergedActions ==
  ASSUME NEW c, c.actions \in Seq(Range(c.actions)),
         NEW included, included.actions \in Seq(Range(included.actions))
  PROVE  LET r == Merge(c, included).actions IN
         /\ r \in Seq(Range(r))
         /\ Unique(r) =>
              /\ Unique(c.actions)
              /\ \A x : x \in Range(r) <=>
                   \/ x \in Range(c.actions) /\ x.name \notin ActionNames(included)
                   \/ x \in LastOf(included.actions)
<1> DEFINE base == c.actions
           inc == included.actions
           n == Len(inc)
           T == Range(base) \cup Range(inc)
<1>1. /\ n \in Nat /\ DOMAIN inc = 1..n /\ \A i \in 1..n : inc[i] \in Range(inc)
      /\ base \in Seq(T)
  <2>1. n \in Nat /\ DOMAIN inc = 1..n
    BY LenProperties
  <2>2. \A i \in 1..n : inc[i] \in Range(inc)
    BY <2>1 DEF Range
  <2>3. base \in [1..Len(base) -> Range(base)] /\ Len(base) \in Nat
    BY LenProperties
  <2>4. base \in [1..Len(base) -> T]
    BY <2>3
  <2> HIDE DEF base, T
  <2>5. base \in Seq(T)
    BY <2>3, <2>4, FunctionIsSeq
  <2>. QED BY <2>1, <2>2, <2>5
<1>2. PICK g : Merging(g, base, inc) /\ Merge(c, included).actions = g[n]
  BY <1>1, MergingExists
<1>3. g[0] = base /\ \A i \in 1..n : g[i] = MergeAction(g[i - 1], inc[i])
  BY <1>2 DEF Merging
<1> DEFINE Kept(k, x) == x \in Range(base) /\ \A i \in 1..k : inc[i].name # x.name
           Final(k, x) == \E j \in 1..k : /\ x = inc[j]
                                         /\ \A i \in 1..k : i > j => inc[i].name # inc[j].name
           Good(k) == /\ g[k] \in Seq(T)
                      /\ Unique(g[k]) =>
                           /\ Unique(base)
                           /\ \A x : x \in Range(g[k]) <=> Kept(k, x) \/ Final(k, x)
           B == {k \in 0..n : ~Good(k)}
<1>4. ASSUME NEW k \in 1..n, NEW x
      PROVE  /\ Kept(k, x) <=> Kept(k - 1, x) /\ x.name # inc[k].name
             /\ Final(k, x) <=> x = inc[k] \/ (Final(k - 1, x) /\ x.name # inc[k].name)
  <2>1. k \in 1..k /\ k - 1 \in Nat /\ \A i \in 1..k : i = k \/ i \in 1..(k - 1)
    BY <1>1
  <2>2. \A i \in 1..(k - 1) : i \in 1..k /\ i < k /\ ~(i > k) /\ k > i
    BY <1>1
  <2>3. Kept(k, x) <=> Kept(k - 1, x) /\ x.name # inc[k].name
    BY <2>1, <2>2
  <2>4. ASSUME Final(k, x) PROVE x = inc[k] \/ (Final(k - 1, x) /\ x.name # inc[k].name)
    BY <2>1, <2>2, <2>4
  <2>5. ASSUME x = inc[k] PROVE Final(k, x)
    <3>1. \A i \in 1..k : ~(i > k)
      BY <1>1
    <3>. QED BY <2>1, <2>5, <3>1
  <2>6. ASSUME Final(k - 1, x), x.name # inc[k].name PROVE Final(k, x)
    BY <2>1, <2>2, <2>6
  <2>. QED BY <2>3, <2>4, <2>5, <2>6
<1>5. ASSUME B # {} PROVE FALSE
  <2> HIDE DEF Kept, Final
  <2>0. B \in SUBSET Nat
    <3> HIDE DEF Good
    <3>. QED BY <1>1
  <2>1. PICK k \in B : \A j \in B : ~(j < k)
    <3> HIDE DEF B
    <3>. QED BY <1>5, <2>0, SmallestNumber
  <2>2. CASE k = 0
    <3>1. \A x : Kept(0, x) <=> x \in Range(base)
      BY DEF Kept
    <3>2. \A x : ~Final(0, x)
      BY DEF Final
    <3>3. Good(0)
      BY <1>1, <1>3, <3>1, <3>2
    <3> HIDE DEF Good
    <3>. QED BY <2>1, <2>2, <3>3
  <2>3. CASE k # 0
    <3>1. k \in 1..n /\ k - 1 \in 0..n /\ k - 1 < k
      <4> HIDE DEF n, Good
      <4>. QED BY <1>1, <2>1, <2>3
    <3>2. Good(k - 1)
      <4> HIDE DEF Good
      <4>. QED BY <2>1, <3>1
    <3> DEFINE as == g[k - 1]
               a == inc[k]
               r == MergeAction(as, a)
    <3>3. g[k] = r /\ a \in T /\ as \in Seq(T)
      BY <1>1, <1>3, <3>1, <3>2
    <3>4. /\ r \in Seq(T \cup {a})
          /\ Unique(r) => /\ Unique(as)
                          /\ \A x : x \in Range(r) <=> x = a \/ (x \in Range(as) /\ x.name # a.name)
      <4> HIDE DEF as, a, T
      <4>. QED BY <3>3, MergedAction DEF r
    <3>5. T \cup {a} = T
      BY <3>3
    <3>6. ASSUME Unique(r)
          PROVE  Unique(base) /\ \A x : x \in Range(r) <=> Kept(k, x) \/ Final(k, x)
      <4>1. /\ Unique(as)
            /\ \A x : x \in Range(r) <=> x = a \/ (x \in Range(as) /\ x.name # a.name)
        <5> HIDE DEF r, as, a
        <5>. QED BY <3>4, <3>6
      <4>2. Unique(base) /\ \A x : x \in Range(as) <=> Kept(k - 1, x) \/ Final(k - 1, x)
        BY <3>2, <4>1
      <4>3. \A x : /\ Kept(k, x) <=> Kept(k - 1, x) /\ x.name # a.name
                   /\ Final(k, x) <=> x = a \/ (Final(k - 1, x) /\ x.name # a.name)
        BY <1>4, <3>1
      <4> HIDE DEF r, as, a, base
      <4>. QED BY <4>1, <4>2, <4>3
    <3>7. Good(k)
      <4>1. r \in Seq(T)
        BY <3>4, <3>5, Zenon
      <4> HIDE DEF r
      <4>. QED BY <3>3, <3>6, <4>1
    <3> HIDE DEF Good
    <3>. QED BY <2>1, <3>7
  <2>. QED BY <2>2, <2>3
<1>6. Good(n)
  <2> HIDE DEF Good
  <2>1. n \in 0..n
    BY <1>1
  <2>. QED BY <1>5, <2>1
<1>7. \A x : Kept(n, x) <=> x \in Range(base) /\ x.name \notin ActionNames(included)
  BY <1>1 DEF ActionNames
<1>8. \A x : Final(n, x) <=> x \in LastOf(inc)
  BY <1>1 DEF LastOf
<1> DEFINE r == Merge(c, included).actions
<1>9. r \in Seq(Range(r))
  <2>1. r \in Seq(T)
    BY <1>2, <1>6
  <2> HIDE DEF r, T
  <2>. QED BY <2>1, SeqOfRange
<1> HIDE DEF Kept, Final
<1>. QED BY <1>2, <1>6, <1>7, <1>8, <1>9

\* A file defines its actions and stages.
LEMMA MainContent ==
  ASSUME NEW m, NEW c, c.actions = world[m].actions, c.stages = world[m].stages,
         c.actions \in Seq(Range(c.actions))
  PROVE  Content(c, <<m>>)
<1> DEFINE one == <<m>>
<1>1. DOMAIN one = {1} /\ one[1] = m /\ Range(one) = {m}
  BY DEF Range
<1> HIDE DEF one
<1>2. ASSUME Unique(c.actions) PROVE Range(c.actions) = LastActions(one)
  <2> DEFINE as == world[m].actions
  <2>0. DOMAIN as = 1..Len(as) /\ Len(as) \in Nat
    BY LenProperties
  <2>1. LastActions(one) = LastOf(as)
    <3>1. \A k \in DOMAIN one, l \in DOMAIN one : ~(l > k) /\ one[k] = m
      BY <1>1
    <3>. QED BY <1>1, <3>1 DEF LastActions
  <2>2. \A i, j \in DOMAIN as : i > j => as[i].name # as[j].name
    <3>1. \A i, j \in DOMAIN as : i > j => i # j
      BY <2>0
    <3>. QED BY <1>2, <3>1 DEF Unique
  <2>3. LastOf(as) = Range(as)
    BY <2>2 DEF LastOf, Range
  <2>. QED BY <2>1, <2>3
<1>3. LastStages(one, c.stages)
  <2>1. \A l \in DOMAIN one, k \in DOMAIN one : ~(l > k)
    BY <1>1
  <2>. QED BY <1>1, <2>1 DEF LastStages, LastStage
<1>. QED BY <1>2, <1>3 DEF Content, one

\* The last definition of an action when one more file is merged.
LEMMA LastActionsAppend ==
  ASSUME NEW files \in Seq(Files), NEW f \in Files, NEW x
  PROVE  x \in LastActions(Append(files, f)) <=>
           \/ x \in LastActions(files) /\ x.name \notin ActionNames(world[f])
           \/ x \in LastOf(world[f].actions)
<1> DEFINE n == Len(files)
           new == Append(files, f)
<1>1. /\ n \in Nat /\ DOMAIN files = 1..n /\ DOMAIN new = 1..(n + 1) /\ new[n + 1] = f
      /\ \A i \in 1..n : new[i] = files[i]
  <2>1. n \in Nat /\ DOMAIN files = 1..n
    BY LenProperties
  <2>2. new \in Seq(Files) /\ Len(new) = n + 1 /\ new[n + 1] = f /\ \A i \in 1..n : new[i] = files[i]
    BY AppendProperties
  <2> HIDE DEF new
  <2>3. DOMAIN new = 1..(n + 1)
    BY <2>2, LenProperties
  <2>. QED BY <2>1, <2>2, <2>3
<1> HIDE DEF n, new
<1>2. /\ \A i \in 1..(n + 1) : i = n + 1 \/ i \in 1..n
      /\ \A i \in 1..n : i \in 1..(n + 1) /\ n + 1 > i /\ ~(i > n + 1)
      /\ n + 1 \in 1..(n + 1) /\ ~(n + 1 > n + 1)
  BY <1>1
<1>3. x \in LastActions(new) <=>
        \E k \in 1..(n + 1) : /\ x \in LastOf(world[new[k]].actions)
                              /\ \A l \in 1..(n + 1) : l > k => x.name \notin ActionNames(world[new[l]])
  BY <1>1 DEF LastActions
<1>4. x \in LastActions(files) <=>
        \E k \in 1..n : /\ x \in LastOf(world[files[k]].actions)
                        /\ \A l \in 1..n : l > k => x.name \notin ActionNames(world[files[l]])
  BY <1>1 DEF LastActions
<1>5. ASSUME x \in LastActions(new)
      PROVE  \/ x \in LastActions(files) /\ x.name \notin ActionNames(world[f])
             \/ x \in LastOf(world[f].actions)
  <2>1. PICK k \in 1..(n + 1) :
              /\ x \in LastOf(world[new[k]].actions)
              /\ \A l \in 1..(n + 1) : l > k => x.name \notin ActionNames(world[new[l]])
    BY <1>3, <1>5
  <2>. QED BY <1>1, <1>2, <1>4, <2>1
<1>6. ASSUME x \in LastOf(world[f].actions) PROVE x \in LastActions(new)
  BY <1>1, <1>2, <1>3, <1>6
<1>7. ASSUME x \in LastActions(files), x.name \notin ActionNames(world[f])
      PROVE  x \in LastActions(new)
  <2>1. PICK k \in 1..n : /\ x \in LastOf(world[files[k]].actions)
                          /\ \A l \in 1..n : l > k => x.name \notin ActionNames(world[files[l]])
    BY <1>4, <1>7
  <2>. QED BY <1>1, <1>2, <1>3, <1>7, <2>1
<1>. QED BY <1>5, <1>6, <1>7 DEF new

\* The last definition of a stage when one more file is merged.
LEMMA LastStageAppend ==
  ASSUME NEW files \in Seq(Files), NEW f \in Files, NEW s, NEW stage
  PROVE  /\ s \in DOMAIN world[f].stages =>
              LastStage(Append(files, f), s, world[f].stages[s])
         /\ s \notin DOMAIN world[f].stages /\ LastStage(files, s, stage) =>
              LastStage(Append(files, f), s, stage)
         /\ Range(Append(files, f)) = Range(files) \cup {f}
<1> DEFINE n == Len(files)
           new == Append(files, f)
<1>1. /\ n \in Nat /\ DOMAIN files = 1..n /\ DOMAIN new = 1..(n + 1) /\ new[n + 1] = f
      /\ \A i \in 1..n : new[i] = files[i]
  <2>1. n \in Nat /\ DOMAIN files = 1..n
    BY LenProperties
  <2>2. new \in Seq(Files) /\ Len(new) = n + 1 /\ new[n + 1] = f /\ \A i \in 1..n : new[i] = files[i]
    BY AppendProperties
  <2> HIDE DEF new
  <2>3. DOMAIN new = 1..(n + 1)
    BY <2>2, LenProperties
  <2>. QED BY <2>1, <2>2, <2>3
<1> HIDE DEF n, new
<1>2. /\ \A i \in 1..(n + 1) : i = n + 1 \/ i \in 1..n
      /\ \A i \in 1..n : i \in 1..(n + 1) /\ n + 1 > i /\ ~(i > n + 1)
      /\ n + 1 \in 1..(n + 1) /\ ~(n + 1 > n + 1)
  BY <1>1
<1>3. ASSUME s \in DOMAIN world[f].stages PROVE LastStage(new, s, world[f].stages[s])
  <2>1. \A l \in DOMAIN new : ~(l > n + 1)
    BY <1>1, <1>2
  <2>. QED BY <1>1, <1>2, <1>3, <2>1 DEF LastStage
<1>4. ASSUME s \notin DOMAIN world[f].stages, LastStage(files, s, stage)
      PROVE  LastStage(new, s, stage)
  BY <1>1, <1>2, <1>4 DEF LastStage
<1>5. Range(new) = Range(files) \cup {f}
  <2>1. Range(new) = {new[i] : i \in 1..(n + 1)} /\ Range(files) = {files[i] : i \in 1..n}
    BY <1>1 DEF Range
  <2>. QED BY <1>1, <1>2, <2>1
<1>. QED BY <1>3, <1>4, <1>5 DEF new

\* Merging one more file.
LEMMA MergedContent ==
  ASSUME NEW f \in Files, world[f].actions \in Seq(Range(world[f].actions)),
         NEW c, NEW files \in Seq(Files), Content(c, files)
  PROVE  Content(Merge(c, world[f]), Append(files, f))
<1> DEFINE w == world[f]
           d == Merge(c, w)
           new == Append(files, f)
<1>1. /\ c.actions \in Seq(Range(c.actions))
      /\ Unique(c.actions) => Range(c.actions) = LastActions(files)
      /\ LastStages(files, c.stages)
  BY DEF Content
<1>2. /\ d.actions \in Seq(Range(d.actions))
      /\ Unique(d.actions) =>
           /\ Unique(c.actions)
           /\ \A x : x \in Range(d.actions) <=>
                \/ x \in Range(c.actions) /\ x.name \notin ActionNames(w)
                \/ x \in LastOf(w.actions)
  BY <1>1, MergedActions
<1>3. \A x : x \in LastActions(new) <=>
               \/ x \in LastActions(files) /\ x.name \notin ActionNames(w)
               \/ x \in LastOf(w.actions)
  BY LastActionsAppend
<1>4. d.stages = [s \in DOMAIN w.stages \cup DOMAIN c.stages |->
                    IF s \in DOMAIN w.stages THEN w.stages[s] ELSE c.stages[s]]
  BY DEF Merge
<1> HIDE DEF d, new, w
<1>5. ASSUME Unique(d.actions) PROVE Range(d.actions) = LastActions(new)
  BY <1>1, <1>2, <1>3, <1>5
<1>6. LastStages(new, d.stages)
  <2>1. Range(new) = Range(files) \cup {f}
    BY LastStageAppend DEF new
  <2>2. DOMAIN d.stages = DOMAIN w.stages \cup DOMAIN c.stages
    BY <1>4
  <2>3. DOMAIN d.stages = UNION {DOMAIN world[g].stages : g \in Range(new)}
    BY <1>1, <2>1, <2>2 DEF LastStages, w
  <2>4. ASSUME NEW s \in DOMAIN d.stages PROVE LastStage(new, s, d.stages[s])
    <3>1. CASE s \in DOMAIN w.stages
      <4>1. d.stages[s] = w.stages[s]
        BY <1>4, <2>2, <3>1
      <4>2. LastStage(new, s, world[f].stages[s])
        BY <3>1, LastStageAppend DEF new, w
      <4>. QED BY <4>1, <4>2 DEF w
    <3>2. CASE s \notin DOMAIN w.stages
      <4>1. d.stages[s] = c.stages[s] /\ s \in DOMAIN c.stages
        BY <1>4, <2>2, <3>2
      <4>2. LastStage(files, s, c.stages[s])
        BY <1>1, <4>1 DEF LastStages
      <4>3. LastStage(new, s, c.stages[s])
        BY <3>2, <4>2, LastStageAppend DEF new, w
      <4>. QED BY <4>1, <4>3
    <3>. QED BY <3>1, <3>2
  <2>. QED BY <2>3, <2>4 DEF LastStages
<1>. QED BY <1>2, <1>5, <1>6 DEF Content, d, new, w

-----------------------------------------------------------------------------
(* The order is kept by every step *)

\* The order of the includes does not change while files are read.
LEMMA OrderFixed ==
  ASSUME UNCHANGED world
  PROVE  /\ \A ps : FilesOf(ps)' = FilesOf(ps)
         /\ MergeOrder' = MergeOrder
         /\ \A e : LastActions(e)' = LastActions(e)
         /\ \A e, st : LastStages(e, st)' = LastStages(e, st)
<1>0. /\ \A f : Exists(f)' = Exists(f)
      /\ \A p : Found(p)' = Found(p)
  BY WorldFixed
<1>1. \A ps : FilesOf(ps)' = FilesOf(ps)
  BY <1>0 DEF FilesOf
<1>2. MergeOrder' = MergeOrder
  BY <1>0, <1>1 DEF MergeOrder
<1>3. \A e : LastActions(e)' = LastActions(e)
  BY DEF LastActions, ActionNames
<1>4. \A e, st : LastStages(e, st)' = LastStages(e, st)
  <2>1. \A e, s, x : LastStage(e, s, x)' = LastStage(e, s, x)
    BY DEF LastStage
  <2>. QED BY <2>1 DEF LastStages
<1>. QED BY <1>1, <1>2, <1>3, <1>4

\* A step that leaves the files alone keeps what the constants say.
LEMMA ProgressFixed ==
  ASSUME UNCHANGED world, NEW CONSTANT c, NEW CONSTANT fs, NEW CONSTANT m, Progress(c, fs, m)
  PROVE  Progress(c, fs, m)'
<1>1. /\ \A ps : FilesOf(ps)' = FilesOf(ps)
      /\ MergeOrder' = MergeOrder
      /\ \A e : LastActions(e)' = LastActions(e)
      /\ \A e, st : LastStages(e, st)' = LastStages(e, st)
  BY OrderFixed
<1>2. \A i, fr : Ahead(i, fr)' = Ahead(i, fr)
  BY <1>1 DEF Ahead
<1>3. \A rest : Remains(rest, fs)' = Remains(rest, fs)
  BY <1>2 DEF Remains, Below
<1>4. Whole(m)' = Whole(m)
  BY <1>1 DEF Whole
<1>5. \A e : Content(c, e) => Content(c, e)'
  BY <1>1 DEF Content
<1>6. PICK done, rest :
        /\ done \in Seq(Files) /\ Remains(rest, fs)
        /\ Whole(m) = Join(done, rest[Len(fs)]) /\ Content(c, done)
  BY DEF Progress
<1>7. Remains(rest, fs)' /\ Whole(m)' = Join(done, rest[Len(fs)]) /\ Content(c, done)'
  BY <1>3, <1>4, <1>5, <1>6
<1>. QED BY <1>6, <1>7 DEF Progress

\* While includes are processed the configuration is what the files merged so
\* far give, and the frames hold the rest of the order.
OrderInv ==
  status = "including" =>
    \E c, fs, m : c = config /\ fs = frames /\ m = path /\ Progress(c, fs, m)

\* The frames are a stack in that sense.
FramesOK == \E fs : fs = frames /\ Stack(fs)

\* While includes are processed they are.
LEMMA FramesStack == LoadInv /\ status = "including" => FramesOK
<1> SUFFICES ASSUME LoadInv, status = "including" PROVE FramesOK
  OBVIOUS
<1>1. Len(frames) \in Nat \ {0} /\ \A i \in 1..Len(frames) : frames[i] \in FrameSet
  BY InnerFrame
<1>2. Len(frames) - 1 <= FileCount
  BY StackBounded
<1>. QED BY <1>1, <1>2 DEF Stack, FramesOK

\* A step that goes on with what the constants c, fs and m hold.
LEMMA OrderGoesOn ==
  ASSUME UNCHANGED world, NEW CONSTANT c, NEW CONSTANT fs, NEW CONSTANT m,
         c = config', fs = frames', m = path', Progress(c, fs, m)
  PROVE  OrderInv'
<1>1. Progress(c, fs, m)'
  BY ProgressFixed
<1>. QED BY <1>1 DEF OrderInv

\* The main file comes first.
LEMMA LoadMainOrders ==
  ASSUME LoadInv, LoadMain, LoadInv' PROVE OrderInv'
<1> SUFFICES ASSUME status' = "including" PROVE OrderInv'
  BY DEF OrderInv
<1>0. world \in Worlds /\ world' = world
  BY DEF LoadInv, LoadTypeOK, LoadMain
<1>1. PICK m, c, fs : m = path' /\ c = config' /\ fs = frames'
  OBVIOUS
<1>2. /\ m \in DOMAIN world /\ world[m].parses
      /\ c = [named |-> world[m].named, actions |-> world[m].actions, stages |-> world[m].stages]
      /\ fs = <<Frame(m, world[m].include)>>
  BY <1>1 DEF LoadMain, Fail
<1>3. Exists(m)
  BY <1>2 DEF Exists
<1>4. world[m].actions \in Seq(Range(world[m].actions))
  BY <1>0, <1>2, WorldsAssumption
<1>5. Content(c, <<m>>)
  <2>1. c.actions = world[m].actions /\ c.stages = world[m].stages
    BY <1>2
  <2>. QED BY <1>4, <2>1, MainContent
<1>6. Stack(fs)
  <2>1. LoadInv' /\ (status = "including")'
    OBVIOUS
  <2>2. FramesOK'
    BY <2>1, FramesStack, PTL
  <2>. QED BY <1>1, <2>2 DEF Stack, FramesOK
<1>7. Len(fs) = 1 /\ fs[1] = Frame(m, world[m].include)
  BY <1>2
<1>8. Progress(c, fs, m)
  BY <1>0, <1>3, <1>5, <1>6, <1>7, ProgressStarts
<1>. QED BY <1>0, <1>1, <1>8, OrderGoesOn

\* A pattern and what it stands for have the same place in the order.
LEMMA PatternOrders ==
  ASSUME LoadInv, OrderInv, ProcessIncludePattern, LoadInv' PROVE OrderInv'
<1> SUFFICES ASSUME status' = "including" PROVE OrderInv'
  BY DEF OrderInv
<1>1. /\ status = "including" /\ world' = world /\ path' = path /\ config' = config
      /\ world \in Worlds
  BY DEF LoadInv, LoadTypeOK, ProcessIncludePattern, Fail
<1>2. PICK c, fs, m : c = config /\ fs = frames /\ m = path /\ Progress(c, fs, m)
  BY <1>1 DEF OrderInv
<1>3. Stack(fs)
  BY <1>1, <1>2, FramesStack DEF FramesOK
<1>4. PICK gs : gs = frames'
  OBVIOUS
<1>5. Stack(gs)
  <2>1. LoadInv' /\ (status = "including")'
    OBVIOUS
  <2>2. FramesOK'
    BY <2>1, FramesStack, PTL
  <2>. QED BY <1>4, <2>2 DEF Stack, FramesOK
<1> DEFINE L == Len(fs)
           fr == fs[L]
           p == Head(fr.patterns)
           new == [fr EXCEPT !.patterns = Tail(@), !.matches = Found(p)]
<1>6. Inner = fr /\ fr.matches = <<>> /\ fr.patterns # <<>>
  BY <1>2 DEF ProcessIncludePattern, Inner
<1>7. gs = [fs EXCEPT ![L] = new]
  <2>1. p = Head(Inner.patterns)
    BY <1>6
  <2> HIDE DEF p
  <2>2. status' # "no directory"
    OBVIOUS
  <2>3. frames' = [frames EXCEPT
               ![Len(frames)] = [Inner EXCEPT !.patterns = Tail(@), !.matches = Found(p)]]
    BY <2>1, <2>2, Zenon DEF ProcessIncludePattern, Fail
  <2>. QED BY <1>2, <1>4, <1>6, <2>3, Zenon
<1>8. /\ L \in Nat \ {0} /\ L \in 1..L /\ fr \in FrameSet /\ frames \in Seq(FrameSet)
  BY <1>3 DEF Stack, LoadInv, LoadTypeOK
<1>9. new.file = fr.file /\ new.patterns = Tail(fr.patterns) /\ new.matches = Found(p)
  BY <1>8 DEF FrameSet
<1> HIDE DEF new, p
<1>10. DOMAIN fs = 1..L
  BY <1>2, <1>8, LenProperties
<1> HIDE DEF L, fr
<1>11. gs[L] = new /\ \A i \in 1..(L - 1) : gs[i] = fs[i]
  BY <1>7, <1>8, <1>10
<1>12. Len(gs) = L
  <2>1. DOMAIN gs = 1..L
    BY <1>7, <1>10
  <2>2. gs \in Seq(FrameSet)
    BY <1>4 DEF LoadInv, LoadTypeOK
  <2>3. DOMAIN gs = 1..Len(gs) /\ Len(gs) \in Nat
    BY <2>2, LenProperties
  <2>. QED BY <1>8, <2>1, <2>3
<1>13. Progress(c, gs, m)
  BY <1>1, <1>2, <1>3, <1>5, <1>6, <1>9, <1>11, <1>12, ProgressPattern DEF L, fr, p
<1>. QED BY <1>1, <1>2, <1>4, <1>13, OrderGoesOn

\* A file that is entered has its place after what it includes.
LEMMA EnterOrders ==
  ASSUME LoadInv, OrderInv, ProcessExactFile, LoadInv' PROVE OrderInv'
<1> SUFFICES ASSUME status' = "including" PROVE OrderInv'
  BY DEF OrderInv
<1>1. /\ status = "including" /\ world' = world /\ path' = path /\ config' = config
      /\ world \in Worlds
  BY DEF LoadInv, LoadTypeOK, ProcessExactFile, Fail
<1>2. PICK c, fs, m : c = config /\ fs = frames /\ m = path /\ Progress(c, fs, m)
  BY <1>1 DEF OrderInv
<1>3. Stack(fs)
  BY <1>1, <1>2, FramesStack DEF FramesOK
<1>4. PICK gs : gs = frames'
  OBVIOUS
<1>5. Stack(gs)
  <2>1. LoadInv' /\ (status = "including")'
    OBVIOUS
  <2>2. FramesOK'
    BY <2>1, FramesStack, PTL
  <2>. QED BY <1>4, <2>2 DEF Stack, FramesOK
<1> DEFINE L == Len(fs)
           fr == fs[L]
           f == Head(fr.matches)
           new == [fr EXCEPT !.matches = Tail(@)]
           mid == [fs EXCEPT ![L] = new]
           top == Frame(f, world[f].include)
<1>6. Inner = fr /\ fr.matches # <<>>
  BY <1>2 DEF ProcessExactFile, Inner
<1>7. Exists(f) /\ gs = Append(mid, top)
  <2>1. /\ f = Head(Inner.matches)
        /\ mid = [frames EXCEPT ![Len(frames)] = [Inner EXCEPT !.matches = Tail(@)]]
    BY <1>2, <1>6, Zenon
  <2> HIDE DEF f, mid
  <2>2. status' # "circular" /\ status' # "missing" /\ status' # "parse"
    OBVIOUS
  <2>3. Exists(f) /\ frames' = Append(mid, top)
    BY <2>1, <2>2, Zenon DEF ProcessExactFile, Fail
  <2>. QED BY <1>4, <2>3
<1>8. /\ L \in Nat \ {0} /\ L \in 1..L /\ fr \in FrameSet /\ fs \in Seq(FrameSet)
  BY <1>2, <1>3 DEF Stack, LoadInv, LoadTypeOK
<1>9. /\ new \in FrameSet /\ new.file = fr.file /\ new.patterns = fr.patterns
      /\ new.matches = Tail(fr.matches)
  <2>1. Tail(fr.matches) \in Seq(Files)
    BY <1>6, <1>8, HeadAndTail DEF FrameSet
  <2>. QED BY <1>8, <2>1 DEF FrameSet
<1>10. top \in FrameSet
  BY <1>1, <1>7, NewFrame
<1> HIDE DEF new, f, top
<1>11. DOMAIN fs = 1..L /\ fs \in [1..L -> FrameSet]
  BY <1>8, LenProperties
<1> HIDE DEF L, fr
<1>12. /\ mid \in Seq(FrameSet) /\ Len(mid) = L /\ mid[L] = new
       /\ \A i \in 1..(L - 1) : mid[i] = fs[i]
  <2>1. /\ mid \in [1..L -> FrameSet] /\ mid[L] = new
        /\ \A i \in 1..(L - 1) : mid[i] = fs[i]
    BY <1>8, <1>9, <1>11
  <2> HIDE DEF mid
  <2>2. mid \in Seq(FrameSet)
    BY <1>8, <2>1, FunctionIsSeq
  <2>3. Len(mid) = L
    <3>1. DOMAIN mid = 1..L /\ DOMAIN mid = 1..Len(mid) /\ Len(mid) \in Nat
      BY <2>1, <2>2, LenProperties
    <3>. QED BY <1>8, <3>1
  <2>. QED BY <2>1, <2>2, <2>3
<1> HIDE DEF mid
<1>13. /\ Len(gs) = L + 1 /\ gs[L + 1] = top /\ gs[L] = new
       /\ \A i \in 1..(L - 1) : gs[i] = fs[i]
  <2>1. Len(gs) = L + 1 /\ gs[L + 1] = top /\ \A i \in 1..L : gs[i] = mid[i]
    BY <1>7, <1>10, <1>12, AppendProperties
  <2>2. \A i \in 1..(L - 1) : i \in 1..L
    BY <1>8
  <2>. QED BY <1>8, <1>12, <2>1, <2>2
<1>14. Progress(c, gs, m)
  <2>1. /\ fs[Len(fs)].matches # <<>> /\ f = Head(fs[Len(fs)].matches)
        /\ gs[Len(fs)].file = fs[Len(fs)].file
        /\ gs[Len(fs)].patterns = fs[Len(fs)].patterns
        /\ gs[Len(fs)].matches = Tail(fs[Len(fs)].matches)
    BY <1>6, <1>9, <1>13, Zenon DEF L, fr, f
  <2>2. Len(gs) = Len(fs) + 1 /\ \A i \in 1..(Len(fs) - 1) : gs[i] = fs[i]
    BY <1>13, Zenon DEF L
  <2>3. gs[Len(fs) + 1] = Frame(f, world[f].include)
    BY <1>13, Zenon DEF L, top
  <2>. QED BY <1>1, <1>2, <1>3, <1>5, <1>7, <2>1, <2>2, <2>3, ProgressEnter
<1>. QED BY <1>1, <1>2, <1>4, <1>14, OrderGoesOn

\* The file that is merged is the next of the order.
LEMMA MergeOrders ==
  ASSUME LoadInv, OrderInv, LoadAndMergeFile PROVE OrderInv'
<1>1. /\ status = "including" /\ world' = world /\ path' = path /\ world \in Worlds
      /\ frames \in Seq(FrameSet) /\ Inner.patterns = <<>> /\ Inner.matches = <<>>
      /\ Len(frames) > 1 /\ config' = Merge(config, world[Inner.file])
      /\ frames' = SubSeq(frames, 1, Len(frames) - 1)
  BY DEF LoadInv, LoadTypeOK, LoadAndMergeFile, Exhausted, Front
<1>2. PICK c, fs, m : c = config /\ fs = frames /\ m = path /\ Progress(c, fs, m)
  BY <1>1 DEF OrderInv
<1>3. Stack(fs)
  BY <1>1, <1>2, FramesStack DEF FramesOK
<1>4. PICK gs, d : gs = frames' /\ d = config'
  OBVIOUS
<1> DEFINE L == Len(fs)
           f == fs[L].file
<1>5. Inner = fs[L]
  BY <1>2 DEF Inner
<1>6. L \in Nat \ {0} /\ L > 1 /\ L \in 1..L /\ fs[L] \in FrameSet /\ f \in Files /\ Exists(f)
  BY <1>1, <1>2, <1>3, InnerFrame DEF Stack, FrameSet
<1>7. world[f].actions \in Seq(Range(world[f].actions))
  BY <1>1, <1>6, WorldsAssumption DEF Exists
<1>8. d = Merge(c, world[f])
  BY <1>1, <1>2, <1>4, <1>5
<1>9. \A files \in Seq(Files) : Content(c, files) => Content(d, Append(files, f))
  <2> HIDE DEF f
  <2>. QED BY <1>6, <1>7, <1>8, MergedContent
<1>10. Len(gs) = L - 1 /\ \A i \in 1..Len(gs) : gs[i] = fs[i]
  <2>1. \A i \in 1..(L - 1) : fs[i] \in FrameSet
    BY <1>3, <1>6 DEF Stack
  <2>2. L - 1 \in Int /\ 1 \in Int
    BY <1>6
  <2>3. gs = SubSeq(fs, 1, L - 1)
    BY <1>1, <1>2, <1>4
  <2>4. /\ Len(gs) = IF 1 <= L - 1 THEN (L - 1) - 1 + 1 ELSE 0
        /\ \A i \in 1..((L - 1) - 1 + 1) : gs[i] = fs[1 + i - 1]
    BY <2>1, <2>2, <2>3, SubSeqProperties
  <2> HIDE DEF L
  <2>5. Len(gs) = L - 1
    BY <1>6, <2>4
  <2>6. ASSUME NEW i \in 1..(L - 1) PROVE gs[i] = fs[i]
    <3>1. i \in 1..((L - 1) - 1 + 1) /\ 1 + i - 1 = i
      BY <1>6
    <3>. QED BY <2>4, <3>1
  <2>. QED BY <2>5, <2>6
<1>11. Progress(d, gs, m)
  <2>1. fs[Len(fs)].matches = <<>> /\ fs[Len(fs)].patterns = <<>> /\ Len(fs) # 1
    BY <1>1, <1>5, <1>6
  <2>. QED BY <1>1, <1>2, <1>3, <1>9, <1>10, <2>1, ProgressLeave
<1>. QED BY <1>1, <1>2, <1>4, <1>11, OrderGoesOn

\* What a loaded configuration holds.
Wins(c, e) == Range(c.actions) = LastActions(e) /\ LastStages(e, c.stages)

\* The order of the includes stays as it is.
LEMMA EffectiveFixed ==
  ASSUME UNCHANGED <<world, path>>
  PROVE  /\ Effective' = Effective
         /\ \A c, e : Wins(c, e)' = Wins(c, e)
<1>1. /\ \A ps : FilesOf(ps)' = FilesOf(ps)
      /\ MergeOrder' = MergeOrder
      /\ \A e : LastActions(e)' = LastActions(e)
      /\ \A e, st : LastStages(e, st)' = LastStages(e, st)
  BY OrderFixed
<1>2. Effective' = Effective
  <2>1. PICK x : x = world[path].include
    OBVIOUS
  <2>2. FilesOf(x)' = FilesOf(x) /\ x = world'[path'].include
    BY <1>1, <2>1
  <2>. QED BY <1>1, <2>1, <2>2 DEF Effective, FilesOf, Ordered
<1>3. \A c, e : Wins(c, e)' = Wins(c, e)
  BY <1>1 DEF Wins
<1>. QED BY <1>2, <1>3

\* When nothing is left, the whole order has been merged.
LEMMA ProgressEnds ==
  ASSUME world \in Worlds, NEW c, NEW fs, Progress(c, fs, path), Stack(fs), Len(fs) = 1,
         fs[1].matches = <<>>, fs[1].patterns = <<>>
  PROVE  Content(c, Effective)
<1>1. PICK done, rest :
        /\ done \in Seq(Files) /\ Remains(rest, fs)
        /\ Whole(path) = Join(done, rest[1]) /\ Content(c, done)
  BY DEF Progress
<1>2. 1 \in 1..1 /\ 1 \in 1..(FileCount + 1) /\ fs[1] \in FrameSet
  BY FileCountType DEF Stack
<1>3. rest[1] = Join(Ahead(1, fs[1]), <<>>)
  BY <1>1, <1>2 DEF Remains, Below
<1>4. Ahead(1, fs[1]) = <<>>
  <2>1. FilesOf(<<>>) = <<>>
    <3>1. <<>> \in Seq(Patterns)
      BY EmptySeq
    <3>. QED BY <3>1, FilesOfPatterns
  <2>2. <<>> \in Seq(Files)
    BY EmptySeq
  <2>3. Join(<<>>, <<>>) = <<>>
    BY <2>2, JoinType
  <2>4. Ahead(1, fs[1]) = Ordered(MergeOrder[FileCount + 1 - 1], <<>>)
    BY <2>1, <2>3 DEF Ahead
  <2>5. MergeOrder[FileCount + 1 - 1] \in [Files -> Seq(Files)]
    BY <1>2, AheadType
  <2>. QED BY <2>2, <2>4, <2>5, OrderedFiles
<1>5. rest[1] = <<>>
  <2>1. <<>> \in Seq(Files)
    BY EmptySeq
  <2>2. Join(<<>>, <<>>) = <<>>
    BY <2>1, JoinType
  <2>. QED BY <1>3, <1>4, <2>2
<1>6. Whole(path) = done
  BY <1>1, <1>5, JoinType
<1>7. Whole(path) = Effective
  BY DEF Whole, Effective, Join, FileCount
<1>. QED BY <1>1, <1>6, <1>7

\* The configuration that is validated is that of the whole order.
LEMMA ValidateOrders ==
  ASSUME LoadInv, OrderInv, Validate PROVE OrderInv' /\ LastIncludeWins'
<1>1. /\ status = "including" /\ world \in Worlds /\ Len(frames) = 1
      /\ Inner.patterns = <<>> /\ Inner.matches = <<>>
      /\ UNCHANGED <<world, path, config>> /\ status' # "including"
      /\ status' = "loaded" => Valid(config)
  BY DEF LoadInv, LoadTypeOK, Validate, Exhausted
<1>2. PICK c, fs, m : c = config /\ fs = frames /\ m = path /\ Progress(c, fs, m)
  BY <1>1 DEF OrderInv
<1>3. Stack(fs) /\ Len(fs) = 1 /\ fs[1].matches = <<>> /\ fs[1].patterns = <<>>
  BY <1>1, <1>2, FramesStack DEF FramesOK, Inner
<1>4. PICK e : e = Effective
  OBVIOUS
<1>5. Content(c, e)
  BY <1>1, <1>2, <1>3, <1>4, ProgressEnds
<1>6. ASSUME status' = "loaded" PROVE Wins(c, e)
  <2>1. Unique(c.actions)
    BY <1>1, <1>2, <1>6 DEF Valid, Unique
  <2>. QED BY <1>5, <2>1 DEF Content, Wins
<1>7. status' = "loaded" => Wins(c, e)'
  BY <1>1, <1>6, EffectiveFixed
<1>8. c = config' /\ e = Effective'
  BY <1>1, <1>2, <1>4, EffectiveFixed
<1>9. LastIncludeWins'
  BY <1>7, <1>8 DEF LastIncludeWins, Wins, LastActions, LastStages, LastStage
<1>. QED BY <1>1, <1>9 DEF OrderInv

\* The order of the includes is an invariant of loading.
LEMMA OrderInductive ==
  LoadInv /\ OrderInv /\ LastIncludeWins /\ [CNext]_cvars /\ LoadInv' => OrderInv' /\ LastIncludeWins'
<1> SUFFICES ASSUME LoadInv, OrderInv, LastIncludeWins, [CNext]_cvars, LoadInv'
             PROVE  OrderInv' /\ LastIncludeWins'
  OBVIOUS
<1>1. CASE LoadMain
  <2>1. status' # "loaded"
    BY <1>1 DEF LoadMain, Fail
  <2>. QED BY <1>1, <2>1, LoadMainOrders DEF LastIncludeWins
<1>2. CASE ProcessIncludePattern
  <2>1. status' # "loaded"
    BY <1>2 DEF ProcessIncludePattern, Fail
  <2>. QED BY <1>2, <2>1, PatternOrders DEF LastIncludeWins
<1>3. CASE ProcessExactFile
  <2>1. status' # "loaded"
    BY <1>3 DEF ProcessExactFile, Fail
  <2>. QED BY <1>3, <2>1, EnterOrders DEF LastIncludeWins
<1>4. CASE LoadAndMergeFile
  <2>1. status' # "loaded"
    BY <1>4 DEF LoadAndMergeFile, Exhausted
  <2>. QED BY <1>4, <2>1, MergeOrders DEF LastIncludeWins
<1>5. CASE Validate
  BY <1>5, ValidateOrders
<1>6. CASE UNCHANGED cvars
  <2>1. UNCHANGED <<world, path, config, frames, status>>
    BY <1>6 DEF cvars
  <2>2. OrderInv'
    <3>1. CASE status = "including"
      <4>1. PICK c, fs, m : c = config /\ fs = frames /\ m = path /\ Progress(c, fs, m)
        BY <3>1 DEF OrderInv
      <4>. QED BY <2>1, <4>1, OrderGoesOn
    <3>2. CASE status # "including"
      BY <2>1, <3>2 DEF OrderInv
    <3>. QED BY <3>1, <3>2
  <2>3. LastIncludeWins'
    <3>1. PICK c, e : c = config /\ e = Effective
      OBVIOUS
    <3>2. status = "loaded" => Wins(c, e)
      BY <3>1 DEF LastIncludeWins, Wins
    <3>3. status' = "loaded" => Wins(c, e)'
      BY <2>1, <3>2, EffectiveFixed
    <3>4. c = config' /\ e = Effective'
      BY <2>1, <3>1, EffectiveFixed
    <3>. QED BY <3>3, <3>4 DEF LastIncludeWins, Wins, LastActions, LastStages, LastStage
  <2>. QED BY <2>2, <2>3
<1>. QED BY <1>1, <1>2, <1>3, <1>4, <1>5, <1>6 DEF CNext

\* A loaded configuration holds, of every action and stage that any of the
\* included files defines, the definition merged last: for every set of files,
\* every content of them and every order of the listing.
THEOREM LastDefinitionWins == CSpec => []LastIncludeWins
<1>1. CInit => LoadInv /\ OrderInv /\ LastIncludeWins
  BY LoadInvInit DEF CInit, OrderInv, LastIncludeWins
<1>2. LoadInv /\ OrderInv /\ LastIncludeWins /\ [CNext]_cvars
        => LoadInv' /\ OrderInv' /\ LastIncludeWins'
  BY LoadInvInductive, OrderInductive
<1>. QED BY <1>1, <1>2, PTL DEF CSpec

\* The nesting of includes is bounded by the number of files: the calls of
\* loadAndMergeFile that are active at once are calls for different files.
THEOREM NestingBounded ==
  CSpec => [](status = "including" => Len(frames) - 1 <= Cardinality(Files))
<1>1. LoadInv => (status = "including" => Len(frames) - 1 <= Cardinality(Files))
  BY StackBounded DEF FileCount
<1>. QED BY LoadInvInit, LoadInvInductive, <1>1, PTL DEF CSpec

=============================================================================
