-------------------------- MODULE MCStreamingDag --------------------------
(* Instances of StreamingDag for TLC. *)
EXTENDS StreamingDag

CONSTANTS a, b, c

S(n, req, pol, cond) == [action |-> n, require |-> req, onerror |-> pol, cond |-> cond]

\* Independent steps, a chain declared against its order, a fork with a
\* tolerated step and a condition, a step declared twice.
StreamShapes ==
  { <<S(a, {}, "stop", FALSE), S(b, {}, "warn", FALSE), S(c, {}, "stop", FALSE)>>,
    <<S(c, {b}, "stop", FALSE), S(b, {a}, "stop", FALSE), S(a, {}, "stop", FALSE)>>,
    <<S(a, {}, "warn", FALSE), S(b, {a}, "stop", TRUE), S(c, {a}, "stop", FALSE)>>,
    <<S(a, {}, "stop", FALSE), S(b, {}, "stop", FALSE), S(a, {}, "warn", FALSE)>> }

\* A step and one that requires it.
StreamPair ==
  { <<S(a, {}, "warn", FALSE), S(b, {a}, "stop", FALSE)>> }

OkOrError == { [status |-> "ok", err |-> FALSE], [status |-> "error", err |-> TRUE] }
===========================================================================
