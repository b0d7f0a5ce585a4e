-------------------------- MODULE MCCommandStream --------------------------
(* Instances of CommandStream for TLC. *)
EXTENDS CommandStream

\* Up to three lines on each stream.
ShortScripts ==
  {[s \in Streams |-> [i \in 1..n[s] |-> "short"]] : n \in [Streams -> 0..3]}

\* A first line that is too long, with more output behind it.
LongScripts == {[s \in Streams |-> <<"long", "short", "short">>]}

MCScripts == ShortScripts \cup LongScripts
============================================================================
