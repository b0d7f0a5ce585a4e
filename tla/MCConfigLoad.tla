---------------------------- MODULE MCConfigLoad ----------------------------
(* Instances of ConfigLoad for TLC: a main file m, included files a and b,  *)
(* a path c without a file, and a text file t beside a and b.               *)
EXTENDS ConfigLoad

MCFiles == {"m", "a", "b", "c", "t"}
MCFileDir == [f \in MCFiles |-> IF f = "m" THEN "root" ELSE "conf"]
MCDirs == {"root", "conf", "empty"}
MCYamlFiles == MCFiles \ {"t"}
MCGlobOrder == <<"a", "b", "c", "m", "t">>
MCDefaultPaths == <<"c", "m">>

Act(n, b) == [name |-> n, body |-> b]
St(n, req, e) == [action |-> n, require |-> req, onerror |-> e, cond |-> FALSE]
NoStages == [s \in {} |-> <<>>]
OneStage(steps) == [s \in {"s"} |-> steps]

File(inc, acts, stages) ==
  [parses |-> TRUE, named |-> TRUE, include |-> inc, actions |-> acts, stages |-> stages]

MCPatterns == {Exact(f) : f \in MCFiles} \cup {Glob(d) : d \in MCDirs \cup {"gone"}}

\* Patterns of the main file: up to two.
MainPatterns == {Exact("a"), Exact("b"), Exact("c"), Glob("conf"), Glob("empty"), Glob("gone")}
MainIncludes ==
  {<<>>} \cup {<<p>> : p \in MainPatterns} \cup {<<p, q>> : p, q \in MainPatterns}

MainFiles ==
  {File(inc, acts, OneStage(<<St("p", {}, "stop")>>)) : inc \in MainIncludes,
     acts \in {<<Act("p", "m")>>, <<Act("q", "m"), Act("p", "m")>>, <<Act("p", "m"), Act("p", "m2")>>}}
  \cup {[File(<<>>, <<Act("p", "m")>>, NoStages) EXCEPT !.named = FALSE],
        [File(<<>>, <<Act("p", "m")>>, NoStages) EXCEPT !.parses = FALSE],
        File(<<>>, <<>>, NoStages), File(<<>>, <<Act("p", "m")>>, OneStage(<<>>))}

AFiles ==
  {File(inc, acts, NoStages) :
     inc \in {<<>>, <<Exact("b")>>, <<Glob("conf")>>, <<Exact("m")>>, <<Exact("b"), Exact("c")>>},
     acts \in {<<Act("q", "a")>>, <<Act("p", "a"), Act("p", "a2")>>}}

BFiles ==
  {File(inc, acts, stages) :
     inc \in {<<>>, <<Exact("a")>>, <<Glob("root")>>},
     acts \in {<<Act("p", "b")>>, <<Act("q", "bad")>>},
     stages \in {NoStages, OneStage(<<St("p", {"q"}, "stop"), St("q", {"p"}, "stop")>>),
                 OneStage(<<St("p", {}, "bad")>>)}}
  \cup {[File(<<>>, <<>>, NoStages) EXCEPT !.parses = FALSE]}

TextFile == [File(<<>>, <<>>, NoStages) EXCEPT !.parses = FALSE]

MCWorlds ==
  {[f \in {"m", "a", "b", "t"} |->
      CASE f = "m" -> m [] f = "a" -> a [] f = "b" -> b [] f = "t" -> TextFile] :
     m \in MainFiles, a \in AFiles, b \in BFiles}

\* No default name has a file.
NoMain == {[f \in {"a"} |-> File(<<>>, <<Act("p", "a")>>, NoStages)]}

MCAllWorlds == MCWorlds \cup NoMain
=============================================================================
