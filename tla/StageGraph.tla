---------------------------- MODULE StageGraph ----------------------------
(***************************************************************************)
(* A stage of a buildfab configuration and the dependency graph the        *)
(* executor derives from it (pkg/buildfab/buildfab.go: Step, buildDAG).    *)
(*                                                                         *)
(* A stage is the sequence of its steps in declaration order.  A step is a *)
(* record with                                                             *)
(*   action   the action it names, which is also the name of its DAG node, *)
(*   require  the set of the actions it waits for,                         *)
(*   onerror  "stop" (the default) or "warn",                              *)
(*   cond     whether the step carries an `if` condition.                  *)
(* The same action may be named by two steps of a stage: nothing in the    *)
(* code forbids it, so every operator says which occurrence it reads.      *)
(***************************************************************************)
EXTENDS Naturals, Sequences, FiniteSets

\* A configured step over a set of action names.
Step(Name) == [action : Name, require : SUBSET Name,
               onerror : {"stop", "warn"}, cond : BOOLEAN]

\* The nodes of the graph: buildDAG keys its map by step.Action.
Node(st) == {st[i].action : i \in DOMAIN st}

\* dag[step.Action] = node: a later step for the same action overwrites the
\* node, so the requirements and the condition are those of the last one.
LastStep(st, n) ==
  st[CHOOSE i \in DOMAIN st : /\ st[i].action = n
                              /\ \A j \in DOMAIN st : st[j].action = n => j <= i]

Deps(st, n) == LastStep(st, n).require

HasCond(st, n) == LastStep(st, n).cond

\* The step configuration an executing goroutine looks up: the first match.
FirstStep(st, n) ==
  st[CHOOSE i \in DOMAIN st : /\ st[i].action = n
                              /\ \A j \in DOMAIN st : st[j].action = n => i <= j]

WarnOnError(st, n) == FirstStep(st, n).onerror = "warn"

\* The error policy the final verdict applies: an error is forgiven only when
\* every step naming the action says "warn".
Waived(st, n) == \A i \in DOMAIN st : st[i].action = n => st[i].onerror = "warn"

\* A dependency function D over the nodes N has a cycle iff some non-empty
\* set of nodes is closed under "has a dependency inside the set".
Cyclic(N, D) ==
  \E S \in (SUBSET N) \ {{}} : \A n \in S : D[n] \cap S # {}

\* buildDAG succeeds: every action is configured, every requirement is a
\* step of the stage, and detectCycles finds nothing (module CycleCheck shows
\* that the search of the code decides exactly Cyclic).
DagOK(st, Actions) ==
  /\ Node(st) \subseteq Actions
  /\ \A n \in Node(st) : Deps(st, n) \subseteq Node(st)
  /\ ~Cyclic(Node(st), [n \in Node(st) |-> Deps(st, n)])

\* n requires m directly or through other steps: m is in every set that holds
\* the requirements of n and those of its own members.
Requires(st, n, m) ==
  \A S \in SUBSET Node(st) :
    (Deps(st, n) \subseteq S /\ \A x \in S : Deps(st, x) \subseteq S) => m \in S
===========================================================================
