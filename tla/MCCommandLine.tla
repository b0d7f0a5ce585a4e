--------------------------- MODULE MCCommandLine ---------------------------
(* Instances of CommandLine for TLC. *)
EXTENDS CommandLine

\* No variants, and every list of one or two.
ShortVariants ==
  {<<>>} \cup UNION {[1..k -> {"true", "false", "error"}] : k \in 1..2}

SomeUses == {NoUses, "git@uncommitted"}

Good == [file |-> TRUE, v |-> TRUE, parts |-> <<"number", "number", "number">>]

Tree(status) == [git |-> TRUE, status |-> status, version |-> Good, greatest |-> "same"]

\* A clean tree, every single change, every second change behind some first
\* ones; and, on a clean tree, every state of VERSION file and tags, and no git.
Trees ==
  {Tree(<<>>)} \cup {Tree(<<c>>) : c \in Codes}
  \cup {Tree(<<c, d>>) : c \in {<<" ", "M">>, <<"M", " ">>, <<"T", " ">>, <<" ", "T">>},
                         d \in {<<" ", "M">>, <<"T", " ">>, <<"R", " ">>, Conflict, Untracked}}
Texts == {NoFile} \cup
  {[file |-> TRUE, v |-> b, parts |-> p] :
     b \in BOOLEAN, p \in {<<>>, <<"number">>, <<"number", "word", "number">>,
                          <<"number", "empty", "number">>, <<"number", "number", "prerelease">>}}
SomeRepositories ==
  Trees \cup {[git |-> g, status |-> <<>>, version |-> v, greatest |-> t] :
                g \in BOOLEAN, v \in Texts \cup {Good}, t \in {"none", "same", "other"}}

\* One file, staged and changed again afterwards.
TouchedAgain == {Tree(<<<<"M", "M">>>>)}
=============================================================================
