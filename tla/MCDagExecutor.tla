-------------------------- MODULE MCDagExecutor --------------------------
(***************************************************************************)
(* Instances of DagExecutor, with the dry run beside it, for TLC.          *)
(***************************************************************************)
EXTENDS DryRun

CONSTANTS a, b, c

S(n, req, pol, cnd) == [action |-> n, require |-> req, onerror |-> pol, cond |-> cnd]

\* Every stage of one or two steps over {a, b}, up to the renaming that makes a
\* the first: repeated actions, missing and cyclic requirements and every
\* policy included.
TwoSteps ==
  LET ST    == Step({a, b})
      First == {s \in ST : s.action = a}
  IN  {<<s>> : s \in First} \cup (First \X ST)

\* The shapes of three steps: chain, fork, join, independent, with the first
\* step under each policy and the last one with a condition or without (three
\* independent steps without one).
ThreeShapes ==
  { <<S(a, {}, p, FALSE), S(b, ra, "stop", FALSE), S(c, rc, "stop", p = "warn")>> :
      p \in {"stop", "warn"}, ra \in {{}, {a}}, rc \in {{}, {a}, {b}, {a, b}} }
    \ { <<S(a, {}, "warn", FALSE), S(b, {}, "stop", FALSE), S(c, {}, "stop", TRUE)>> }

AllShapes == TwoSteps \cup ThreeShapes

\* a <- b <- c.
Chain == { <<S(a, {}, "stop", FALSE), S(b, {a}, "stop", FALSE), S(c, {b}, "stop", FALSE)>> }

OkOrError == { [status |-> "ok", err |-> FALSE], [status |-> "error", err |-> TRUE] }

AllResults == [status : Status, err : BOOLEAN]

\* No filter, and one that the first step alone passes.
SomeFilters == {1..3, {1}}

\* In a stage of three steps a runner returns no warning of its own; everything
\* that it may return is left to the shorter stages.
ShortResults ==
  \A n \in Names : Len(stage) = 3 /\ res'[n].status = "warn" => WarnOnError(stage, n)

MCNext == DNext /\ ShortResults

MCSpec == DInit /\ [][MCNext]_<<vars, dvars>> /\ Fairness
===========================================================================
