--------------------------- MODULE StageContract ---------------------------
(***************************************************************************)
(* What running a stage promises, with no scheduler, channel or mutex: the *)
(* steps go through their phases in the order their requirements allow,    *)
(* one after another is chosen while nobody asks to stop, and the verdict  *)
(* is the one the outcomes justify.  DagExecutor implements it.            *)
(***************************************************************************)
EXTENDS StageGraph

CONSTANTS Names, Actions, Stages, NoName

Status == {"ok", "warn", "error", "skipped"}

VARIABLES
  stage,     \* the stage that is run
  phase,     \* of each name: waiting, chosen, running, done
  outcome,   \* status of a step that is done, "none" before
  stopping,  \* the caller no longer wants the stage
  verdict    \* what the caller is told

cvars == <<stage, phase, outcome, stopping, verdict>>

Verdict(k, n) == [kind |-> k, name |-> n]

CInit ==
  /\ stage \in Stages
  /\ phase = [n \in Names |-> "waiting"]
  /\ outcome = [n \in Names |-> "none"]
  /\ stopping = FALSE
  /\ verdict = Verdict("none", NoName)

Pending == verdict.kind = "none"

\* A stage that is not a graph over known actions is refused, untouched.
Reject ==
  /\ Pending /\ ~DagOK(stage, Actions)
  /\ \A n \in Names : phase[n] = "waiting"
  /\ verdict' = Verdict("dag", NoName)
  /\ UNCHANGED <<stage, phase, outcome, stopping>>

\* Steps are committed to one at a time, never once the stage is stopping.
Choose(n) ==
  /\ Pending /\ DagOK(stage, Actions) /\ ~stopping
  /\ n \in Node(stage) /\ phase[n] = "waiting"
  /\ \A m \in Names : phase[m] # "chosen"
  /\ \A d \in Deps(stage, n) : phase[d] = "done"
  /\ phase' = [phase EXCEPT ![n] = "chosen"]
  /\ UNCHANGED <<stage, outcome, stopping, verdict>>

\* A chosen step runs only if nothing it requires has failed.
Begin(n) ==
  /\ phase[n] = "chosen"
  /\ \A d \in Deps(stage, n) : outcome[d] # "error"
  /\ phase' = [phase EXCEPT ![n] = "running"]
  /\ UNCHANGED <<stage, outcome, stopping, verdict>>

\* It is skipped when a requirement failed, or for its condition.
Skip(n) ==
  /\ phase[n] = "chosen"
  /\ HasCond(stage, n) \/ \E d \in Deps(stage, n) : outcome[d] = "error"
  /\ phase' = [phase EXCEPT ![n] = "done"]
  /\ outcome' = [outcome EXCEPT ![n] = "skipped"]
  /\ UNCHANGED <<stage, stopping, verdict>>

Finish(n) ==
  /\ phase[n] = "running"
  /\ phase' = [phase EXCEPT ![n] = "done"]
  /\ \E s \in Status : outcome' = [outcome EXCEPT ![n] = s]
  /\ UNCHANGED <<stage, stopping, verdict>>

Stop ==
  /\ ~stopping /\ stopping' = TRUE
  /\ UNCHANGED <<stage, phase, outcome, verdict>>

Unforgiven(n) == outcome[n] = "error" /\ ~Waived(stage, n)

\* The caller is answered when nothing is under way: with a failed step that
\* is not forgiven, if there is one; else with the request to stop; else with
\* success, which takes every step to be done.
Return ==
  /\ Pending /\ DagOK(stage, Actions)
  /\ \A n \in Names : phase[n] \in {"waiting", "done"}
  /\ \/ \E n \in Node(stage) : Unforgiven(n) /\ verdict' = Verdict("step", n)
     \/ /\ \A n \in Node(stage) : ~Unforgiven(n)
        /\ stopping /\ verdict' = Verdict("ctx", NoName)
     \/ /\ \A n \in Node(stage) : ~Unforgiven(n) /\ phase[n] = "done"
        /\ ~stopping /\ verdict' = Verdict("nil", NoName)
  /\ UNCHANGED <<stage, phase, outcome, stopping>>

\* The process dies before it can answer.
Abort ==
  /\ Pending /\ verdict' = Verdict("fatal", NoName)
  /\ UNCHANGED <<stage, phase, outcome, stopping>>

CNext ==
  \/ Reject \/ Stop \/ Return \/ Abort
  \/ \E n \in Names : Choose(n) \/ Begin(n) \/ Skip(n) \/ Finish(n)

CSpec == CInit /\ [][CNext]_cvars

=============================================================================
