----------------------------- MODULE MCOutput -----------------------------
(* Instances of OutputClients for TLC. *)
EXTENDS OutputClients

CONSTANTS a, b, c

Plain(n) == [action |-> n, require |-> {}, onerror |-> "stop", cond |-> FALSE]

\* Three different steps, and a stage that names a step twice.
ThreeSteps == {<<Plain(a), Plain(b), Plain(c)>>, <<Plain(a), Plain(b), Plain(a)>>}

\* Two lines per step.
LineBounds == <<2, 2, 2>>
===========================================================================
