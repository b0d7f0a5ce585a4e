----------------------------- MODULE ConfigLoad -----------------------------
(***************************************************************************)
(* LoadConfig of pkg/buildfab/config.go: finding the configuration file,   *)
(* processing its includes depth first, merging every included file and    *)
(* validating the result.                                                  *)
(*                                                                         *)
(* The calls processExactFile -> loadAndMergeFile -> processIncludePattern *)
(* are a stack of frames.  A frame holds the file being loaded, the        *)
(* patterns it still has to process and the files the current pattern      *)
(* still has to go through.  The bottom frame is processIncludes itself,   *)
(* for the main file, which is never entered into the visited map.         *)
(*                                                                         *)
(* A file is identified by its cleaned path.  What a file holds is         *)
(*   parses    whether yaml accepts it,                                    *)
(*   named     whether project.name is set,                                *)
(*   include   its patterns, in order,                                     *)
(*   actions   its actions, in order; the body says which definition it is,*)
(*             "bad" one that Validate rejects,                            *)
(*   stages    a function from stage names to their steps (StageGraph), the*)
(*             onerror "bad" standing for any onerror or only value that   *)
(*             Validate rejects.                                           *)
(***************************************************************************)
EXTENDS StageGraph, SequencesExt

CONSTANTS Files,         \* the paths
          FileDir,       \* the directory of each path
          Dirs,          \* the directories that exist
          YamlFiles,     \* the paths ending in .yml or .yaml
          GlobOrder,     \* the paths in the order filepath.Glob lists them
          DefaultPaths,  \* the names LoadConfig tries when it gets none
          NoPath,        \* the empty path argument
          Patterns,      \* the include patterns, see Exact and Glob
          Worlds,        \* contents of the file system considered
          Requests       \* path arguments considered

ASSUME FilesFinite == IsFiniteSet(Files)
ASSUME GlobOrderAssumption == GlobOrder \in Seq(Files) /\ Range(GlobOrder) = Files
ASSUME YamlAssumption == YamlFiles \subseteq Files
ASSUME RequestsAssumption == Requests \subseteq Files \cup {NoPath}
ASSUME PatternsAssumption == \A p \in Patterns : p.glob \/ p.file \in Files
ASSUME WorldsAssumption ==
  \A w \in Worlds :
    /\ DOMAIN w \subseteq Files
    /\ \A f \in DOMAIN w : /\ w[f].include \in Seq(Patterns)
                          /\ w[f].actions \in Seq(Range(w[f].actions))

VARIABLES
  world,     \* what the existing files hold
  path,      \* LoadConfig's argument, then the file it loads
  config,    \* the configuration built so far
  visited,   \* the visited map, as a set
  frames,    \* the active calls, innermost last
  status     \* start, including, loaded, or the kind of the error returned

cvars == <<world, path, config, visited, frames, status>>

Exact(f) == [glob |-> FALSE, file |-> f]
Glob(d)  == [glob |-> TRUE, dir |-> d]

Exists(f) == f \in DOMAIN world

Frame(f, patterns) == [file |-> f, patterns |-> patterns, matches |-> <<>>]

Inner == frames[Len(frames)]

EmptyConfig == [named |-> FALSE, actions |-> <<>>, stages |-> [s \in {} |-> <<>>]]

CInit ==
  /\ world \in Worlds /\ path \in Requests
  /\ config = EmptyConfig /\ visited = {} /\ frames = <<>> /\ status = "start"

Fail(error) == status' = error /\ UNCHANGED <<config, visited, frames>>

\* The candidates tried when no path is given; the last resort is no file.
Candidates == SelectSeq(DefaultPaths, Exists)

\* LoadConfig up to the includes: find, read and parse the main file.
LoadMain ==
  /\ status = "start"
  /\ path' = IF path = NoPath /\ Candidates # <<>> THEN Head(Candidates) ELSE path
  /\ \/ path' \notin DOMAIN world /\ Fail("not found")
     \/ path' \in DOMAIN world /\ ~world[path'].parses /\ Fail("parse")
     \/ /\ path' \in DOMAIN world /\ world[path'].parses
        /\ config' = [named   |-> world[path'].named, actions |-> world[path'].actions,
                      stages  |-> world[path'].stages]
        /\ frames' = <<Frame(path', world[path'].include)>>
        /\ status' = "including" /\ UNCHANGED visited
  /\ UNCHANGED world

\* The existing files of a directory, those of any other name left out.
Matches(d) ==
  LET IsMatch(f) == Exists(f) /\ FileDir[f] = d /\ f \in YamlFiles
      matched[i \in 0..Len(GlobOrder)] ==
        IF i = 0 THEN <<>>
        ELSE IF IsMatch(GlobOrder[i]) THEN Append(matched[i - 1], GlobOrder[i])
        ELSE matched[i - 1]
  IN  matched[Len(GlobOrder)]

\* An exact path stands for itself, a glob for the matching files of its
\* directory.
Found(p) == IF p.glob THEN Matches(p.dir) ELSE <<p.file>>

\* Faulty variant: the loop does not come past a pattern without a match.
ProcessIncludePatternStuck ==
  /\ status = "including" /\ Inner.matches = <<>> /\ Inner.patterns # <<>>
  /\ LET p == Head(Inner.patterns)
     IN IF p.glob /\ p.dir \notin Dirs
        THEN Fail("no directory")
        ELSE /\ Found(p) # <<>>
             /\ frames' = [frames EXCEPT
                  ![Len(frames)] = [Inner EXCEPT !.patterns = Tail(@), !.matches = Found(p)]]
             /\ UNCHANGED <<config, visited, status>>
  /\ UNCHANGED <<world, path>>

\* processIncludePattern: the directory of a glob must exist.
ProcessIncludePattern ==
  /\ status = "including" /\ Inner.matches = <<>> /\ Inner.patterns # <<>>
  /\ LET p == Head(Inner.patterns)
     IN IF p.glob /\ p.dir \notin Dirs
        THEN Fail("no directory")
        ELSE /\ frames' = [frames EXCEPT
                  ![Len(frames)] = [Inner EXCEPT !.patterns = Tail(@), !.matches = Found(p)]]
             /\ UNCHANGED <<config, visited, status>>
  /\ UNCHANGED <<world, path>>

\* processExactFile and the start of loadAndMergeFile.
ProcessExactFile ==
  /\ status = "including" /\ Inner.matches # <<>>
  /\ LET f == Head(Inner.matches)
         rest == [frames EXCEPT ![Len(frames)] = [Inner EXCEPT !.matches = Tail(@)]]
     IN \/ f \in visited /\ Fail("circular")
        \/ f \notin visited /\ ~Exists(f) /\ Fail("missing")
        \/ f \notin visited /\ Exists(f) /\ ~world[f].parses /\ Fail("parse")
        \/ /\ f \notin visited /\ Exists(f) /\ world[f].parses
           /\ visited' = visited \cup {f}
           /\ frames' = Append(rest, Frame(f, world[f].include))
           /\ UNCHANGED <<config, status>>
  /\ UNCHANGED <<world, path>>

\* One action of an included file: it replaces the first one of its name.
MergeAction(actions, action) ==
  IF \E i \in DOMAIN actions : actions[i].name = action.name
  THEN LET i == SelectInSeq(actions, LAMBDA a : a.name = action.name)
       IN [actions EXCEPT ![i] = action]
  ELSE Append(actions, action)

\* Faulty variant: an action that is there already is kept.
MergeKeepingFirst(c, included) ==
  [c EXCEPT !.actions = @ \o SelectSeq(included.actions,
                              LAMBDA a : \A i \in DOMAIN c.actions : c.actions[i].name # a.name),
            !.stages = included.stages @@ @]

\* The end of loadAndMergeFile: later actions and stages replace earlier ones.
Merge(c, included) ==
  LET merged[i \in 0..Len(included.actions)] ==
        IF i = 0 THEN c.actions ELSE MergeAction(merged[i - 1], included.actions[i])
  IN  [named   |-> c.named,
       actions |-> merged[Len(included.actions)],
       stages  |-> [s \in DOMAIN included.stages \cup DOMAIN c.stages |->
                      IF s \in DOMAIN included.stages THEN included.stages[s] ELSE c.stages[s]]]

Exhausted == status = "including" /\ Inner.patterns = <<>> /\ Inner.matches = <<>>

\* Faulty variant: the file stays in the visited map.
LoadAndMergeFileNoDelete ==
  /\ Exhausted /\ Len(frames) > 1
  /\ config' = Merge(config, world[Inner.file])
  /\ frames' = Front(frames)
  /\ UNCHANGED <<world, path, visited, status>>

\* The end of loadAndMergeFile, and processExactFile's delete.
LoadAndMergeFile ==
  /\ Exhausted /\ Len(frames) > 1
  /\ config' = Merge(config, world[Inner.file])
  /\ visited' = visited \ {Inner.file}
  /\ frames' = Front(frames)
  /\ UNCHANGED <<world, path, status>>

ActionNames(c) == {c.actions[i].name : i \in DOMAIN c.actions}

\* Validate.  The order of its tests decides the wording of the error only.
Valid(c) ==
  /\ c.named /\ c.actions # <<>>
  /\ \A i \in DOMAIN c.actions : c.actions[i].body # "bad"
  /\ \A i, j \in DOMAIN c.actions : c.actions[i].name = c.actions[j].name => i = j
  /\ \A s \in DOMAIN c.stages :
       /\ c.stages[s] # <<>>
       /\ \A i \in DOMAIN c.stages[s] :
            /\ c.stages[s][i].action \in ActionNames(c)
            /\ c.stages[s][i].onerror # "bad"

Validate ==
  /\ Exhausted /\ Len(frames) = 1
  /\ status' = IF Valid(config) THEN "loaded" ELSE "invalid"
  /\ UNCHANGED <<world, path, config, visited, frames>>

Returned == status \notin {"start", "including"}

CNext ==
  \/ LoadMain \/ ProcessIncludePattern \/ ProcessExactFile
  \/ LoadAndMergeFile \/ Validate

CSpec == CInit /\ [][CNext]_cvars /\ WF_cvars(CNext)

-----------------------------------------------------------------------------
\* What the includes of the existing files amount to, independently of the
\* traversal: the files a file names, in order, and the files reached from it.
FilesOf(patterns) == FlattenSeq([i \in DOMAIN patterns |-> Found(patterns[i])])

Included ==
  [f \in Files |-> IF Exists(f) /\ world[f].parses
                   THEN UNION {Range(Found(p)) : p \in Range(world[f].include)} ELSE {}]

Reached ==
  [f \in Files |->
     {g \in Files : \A S \in SUBSET Files :
        (Included[f] \subseteq S /\ \A x \in S : Included[x] \subseteq S) => g \in S}]

MissingDir(f) ==
  Exists(f) /\ \E p \in Range(world[f].include) : p.glob /\ p.dir \notin Dirs

\* Includes are processed to the end exactly when they form no cycle and name
\* nothing that is missing or unreadable; a file reached along two paths is no
\* cycle, and the error kinds are never mistaken for one another.
IncludeVerdict ==
  LET reached == Reached[path]
      cyclic  == Cyclic(reached, Included)
      sound   == /\ ~cyclic
                 /\ \A f \in reached : Exists(f) /\ world[f].parses
                 /\ \A f \in reached \cup {path} : ~MissingDir(f)
  IN /\ status \in {"loaded", "invalid"} => sound
     /\ status = "circular" => cyclic
     /\ status = "missing" => \E f \in reached : ~Exists(f)
     /\ status = "no directory" => \E f \in reached \cup {path} : MissingDir(f)
     /\ status = "parse" => \E f \in reached \cup {path} : Exists(f) /\ ~world[f].parses

\* The files in the order their content takes effect: a file after everything
\* it includes.  The depth bounds the recursion; no acyclic chain is longer.
Ordered(order, files) == FlattenSeq([i \in DOMAIN files |-> order[files[i]]])

MergeOrder[depth \in 0..Cardinality(Files)] ==
  [f \in Files |->
     IF depth = 0 \/ ~Exists(f) THEN <<>>
     ELSE Append(Ordered(MergeOrder[depth - 1], FilesOf(world[f].include)), f)]

\* The main file is read before anything it includes; a file that is named or
\* matched several times stands here several times.
Effective ==
  <<path>> \o Ordered(MergeOrder[Cardinality(Files)], FilesOf(world[path].include))

\* What the files of a sequence define when later definitions replace earlier
\* ones: of the actions of one file, and of all the files.
LastOf(actions) ==
  {actions[j] : j \in {j \in DOMAIN actions :
                         \A i \in DOMAIN actions : i > j => actions[i].name # actions[j].name}}

LastActions(files) ==
  UNION {{a \in LastOf(world[files[k]].actions) :
            \A l \in DOMAIN files : l > k => a.name \notin ActionNames(world[files[l]])} :
         k \in DOMAIN files}

LastStage(files, s, stage) ==
  \E k \in DOMAIN files :
    /\ s \in DOMAIN world[files[k]].stages /\ stage = world[files[k]].stages[s]
    /\ \A l \in DOMAIN files : l > k => s \notin DOMAIN world[files[l]].stages

LastStages(files, stages) ==
  /\ DOMAIN stages = UNION {DOMAIN world[f].stages : f \in Range(files)}
  /\ \A s \in DOMAIN stages : LastStage(files, s, stages[s])

\* A loaded configuration holds one definition for every action and stage any
\* of its files defines, the last one in the order of the includes ("Later
\* includes override earlier ones", README.md:322).  So loadAndMergeFile gives an
\* included definition precedence over the main file's, although
\* docs/Features-and-examples.md:260 says that the main configuration can
\* override included content; and a file that a later pattern matches again is
\* merged again, over what came between, although CHANGELOG.md:162 says that it
\* is not processed several times.
LastIncludeWins ==
  status = "loaded" =>
    Range(config.actions) = LastActions(Effective) /\ LastStages(Effective, config.stages)

\* Loading ends, includes that lead back to the main file or to themselves
\* included.
LoadEnds == <>Returned

-----------------------------------------------------------------------------
\* Inductive strengthening of IncludeVerdict.

FrameSet == [file : Files, patterns : Seq(Patterns), matches : Seq(Files)]

\* The files whose loading goes through.
Loads ==
  {f \in Files :
     LET all == {f} \cup Reached[f]
     IN /\ \A g \in all : Exists(g) /\ world[g].parses /\ ~MissingDir(g)
        /\ ~Cyclic(all, Included)}

LoadTypeOK ==
  /\ world \in Worlds /\ frames \in Seq(FrameSet)
  /\ status = "start" => frames = <<>> /\ visited = {}

\* The frames are a path of includes from the main file, and the visited files
\* are those of the frames above the bottom one, each active once.
StackInv ==
  /\ frames # <<>> /\ frames[1].file = path
  /\ visited = {frames[i].file : i \in 2..Len(frames)}
  /\ \A i, j \in 2..Len(frames) : frames[i].file = frames[j].file => i = j
  /\ \A i \in 2..Len(frames) : frames[i].file \in Included[frames[i - 1].file]
  /\ \A i \in 2..Len(frames) : frames[i].file \in Reached[path]

\* What the pattern p of frame i stands for has been loaded, is waiting, or is
\* being loaded by the next frame.
Covered(i, p) ==
  /\ p.glob => p.dir \in Dirs
  /\ \A g \in Range(Found(p)) : \/ g \in Loads \cup Range(frames[i].matches)
                                \/ i < Len(frames) /\ g = frames[i + 1].file

ActiveInv ==
  \A i \in 1..Len(frames) :
    LET f == frames[i].file IN
    /\ Exists(f) /\ world[f].parses
    /\ Range(frames[i].patterns) \subseteq Range(world[f].include)
    /\ Range(frames[i].matches) \subseteq Included[f]
    /\ \A p \in Range(world[f].include) : p \in Range(frames[i].patterns) \/ Covered(i, p)

LoadInv ==
  /\ LoadTypeOK
  /\ status = "including" => StackInv /\ ActiveInv
  /\ IncludeVerdict
=============================================================================
