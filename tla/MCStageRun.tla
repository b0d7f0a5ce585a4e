---------------------------- MODULE MCStageRun ----------------------------
(* Instances of StageRun for TLC. *)
EXTENDS StageRun

CONSTANTS a, b, c

S(n, req, pol, cond) == [action |-> n, require |-> req, onerror |-> pol, cond |-> cond]

\* Two steps: independent, required, tolerated, in reverse order, refused.
TwoStepRuns ==
  { <<S(a, {}, "stop", FALSE), S(b, {}, "stop", FALSE)>>,
    <<S(a, {}, "stop", FALSE), S(b, {a}, "stop", FALSE)>>,
    <<S(a, {}, "warn", FALSE), S(b, {a}, "stop", TRUE)>>,
    <<S(b, {a}, "stop", FALSE), S(a, {}, "stop", FALSE)>>,
    <<S(a, {b}, "stop", FALSE), S(b, {a}, "stop", FALSE)>> }

\* Three steps: a silently skipped step declared first, or between two others.
ThreeStepRuns ==
  { <<S(a, {}, "stop", FALSE), S(b, {a}, "stop", FALSE), S(c, {}, "warn", FALSE)>>,
    <<S(b, {a}, "stop", FALSE), S(c, {b}, "stop", FALSE), S(a, {}, "stop", FALSE)>> }

Runs == TwoStepRuns \cup ThreeStepRuns

\* One line in stages of two steps, none in stages of three.
LineBounds == <<1, 1, 0>>

OkOrError == { [status |-> "ok", err |-> FALSE], [status |-> "error", err |-> TRUE] }
===========================================================================
