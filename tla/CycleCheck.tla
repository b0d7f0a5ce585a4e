---------------------------- MODULE CycleCheck ----------------------------
(***************************************************************************)
(* detectCycles of pkg/buildfab/buildfab.go: the depth-first search that   *)
(* decides whether the requirements of a stage are circular.  The recursion *)
(* of dfs is an explicit stack of frames; a frame holds the node it was    *)
(* called for and the dependencies it has not looked at yet.               *)
(*                                                                         *)
(* buildDAG calls it only when every requirement is a node of the graph.   *)
(***************************************************************************)
EXTENDS StageGraph

CONSTANTS N,        \* the nodes of the graph
          Graphs    \* the dependency functions considered

ASSUME NFinite == IsFiniteSet(N)
ASSUME GraphsAssumption == Graphs \subseteq [N -> SUBSET N]

VARIABLES
  deps,      \* node.Dependencies
  visited,   \* the maps of detectCycles, as sets
  recStack,
  frames,    \* the active calls of dfs, innermost last
  roots,     \* nodes the outer loop has not come to, in map order
  verdict    \* searching, cycle, acyclic

svars == <<deps, visited, recStack, frames, roots, verdict>>

SInit ==
  /\ deps \in Graphs
  /\ visited = {} /\ recStack = {} /\ frames = <<>>
  /\ roots = N /\ verdict = "searching"

Frame(n, todo) == [node |-> n, todo |-> todo]

FrameSet == [node : N, todo : SUBSET N]

Top == frames[Len(frames)]

\* Faulty variant: visited is tested before recStack.
CallVisitedFirst(n, fs) ==
  \/ /\ n \in visited
     /\ frames' = fs /\ UNCHANGED <<visited, recStack, verdict>>
  \/ /\ n \notin visited
     /\ visited' = visited \cup {n} /\ recStack' = recStack \cup {n}
     /\ frames' = Append(fs, Frame(n, deps[n]))
     /\ UNCHANGED verdict

\* The call dfs(n) on the stack fs: an error if n is being visited, nothing if
\* it has been, else a new frame.
Call(n, fs) ==
  \/ /\ n \in recStack
     /\ verdict' = "cycle" /\ frames' = fs /\ UNCHANGED <<visited, recStack>>
  \/ /\ n \notin recStack /\ n \in visited
     /\ frames' = fs /\ UNCHANGED <<visited, recStack, verdict>>
  \/ /\ n \notin recStack /\ n \notin visited
     /\ visited' = visited \cup {n} /\ recStack' = recStack \cup {n}
     /\ frames' = Append(fs, Frame(n, deps[n]))
     /\ UNCHANGED verdict

\* The loop over the nodes of the graph.
NextRoot(n) ==
  /\ verdict = "searching" /\ frames = <<>> /\ n \in roots
  /\ roots' = roots \ {n}
  /\ IF n \in visited THEN UNCHANGED <<visited, recStack, frames, verdict>>
                      ELSE Call(n, frames)
  /\ UNCHANGED deps

\* Faulty variant: the loop does not advance.
NextDepStuck(d) ==
  /\ verdict = "searching" /\ frames # <<>> /\ d \in Top.todo
  /\ Call(d, frames)
  /\ UNCHANGED <<deps, roots>>

\* The loop over the dependencies of the innermost call.
NextDep(d) ==
  /\ verdict = "searching" /\ frames # <<>> /\ d \in Top.todo
  /\ Call(d, [frames EXCEPT ![Len(frames)] = Frame(Top.node, Top.todo \ {d})])
  /\ UNCHANGED <<deps, roots>>

\* dfs returns nil; the deferred function clears recStack.
ReturnNil ==
  /\ verdict = "searching" /\ frames # <<>> /\ Top.todo = {}
  /\ recStack' = recStack \ {Top.node}
  /\ frames' = SubSeq(frames, 1, Len(frames) - 1)
  /\ UNCHANGED <<deps, visited, roots, verdict>>

NoCycle ==
  /\ verdict = "searching" /\ frames = <<>> /\ roots = {}
  /\ verdict' = "acyclic"
  /\ UNCHANGED <<deps, visited, recStack, frames, roots>>

Decided == verdict # "searching" /\ UNCHANGED svars

SNext == (\E n \in N : NextRoot(n) \/ NextDep(n)) \/ ReturnNil \/ NoCycle \/ Decided

SSafety == SInit /\ [][SNext]_svars

SSpec == SSafety /\ WF_svars(SNext)

-----------------------------------------------------------------------------
\* Types of the search state.
SearchTypeOK ==
  /\ deps \in [N -> SUBSET N]
  /\ visited \in SUBSET N /\ recStack \in SUBSET N /\ roots \in SUBSET N
  /\ frames \in Seq(FrameSet)
  /\ verdict \in {"searching", "cycle", "acyclic"}

\* The search answers "cycle" only for graphs with a cycle and comes to its
\* end only for graphs without one, whatever order the maps are walked in: a
\* wrong answer would refuse a good stage, or let the executor poll forever.
VerdictCorrect ==
  /\ verdict = "cycle"   => Cyclic(N, deps)
  /\ verdict = "acyclic" => ~Cyclic(N, deps)

\* The search ends.
SearchEnds == <>(verdict # "searching")

\* Inductive strengthening of VerdictCorrect: the frames form a path of the
\* graph over exactly the nodes of recStack; what a frame has already looked
\* at is finished or is the next frame; finished nodes depend on finished
\* nodes only and contain no cycle.
Finished == visited \ recStack

PathInv ==
  /\ recStack = {frames[i].node : i \in 1..Len(frames)}
  /\ \A i, j \in 1..Len(frames) : frames[i].node = frames[j].node => i = j
  /\ \A i \in 1..(Len(frames) - 1) : frames[i + 1].node \in deps[frames[i].node]

FrameInv ==
  \A i \in 1..Len(frames) :
    /\ frames[i].todo \subseteq deps[frames[i].node]
    /\ \A d \in deps[frames[i].node] \ frames[i].todo :
         d \in Finished \/ (i < Len(frames) /\ d = frames[i + 1].node)

FinishedInv ==
  /\ recStack \subseteq visited
  /\ \A n \in Finished : deps[n] \subseteq Finished
  /\ ~Cyclic(Finished, deps)

RootsInv == N \subseteq visited \cup roots

SearchInv ==
  /\ SearchTypeOK /\ RootsInv /\ FinishedInv
  /\ verdict = "searching" => PathInv /\ FrameInv
  /\ VerdictCorrect
===========================================================================
