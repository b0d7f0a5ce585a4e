---------------------------- MODULE MCExpression ----------------------------
(* Texts and a context for Expression. *)
EXTENDS Expression, TLC

\* A variable that is true, one that is false, one that is not defined, a
\* platform variable, a number, a set and an unset environment variable.
UserVars == [yes |-> "on", no |-> "false", os |-> "mine"]
PlatformVars == [os |-> "linux", cpu |-> "10"]
EnvRefs == ("env.SET" :> "on") @@ ("env.UNSET" :> "")
Order == <<"", "-1", "0", "1", "10", "9", "false", "linux", "main", "mine", "on", "true">>
Numerals == ("-1" :> -1) @@ ("0" :> 0) @@ ("1" :> 1) @@ ("9" :> 9) @@ ("10" :> 10)
LibraryFacts ==
  { <<"contains", "linux", "linux">>, <<"startsWith", "linux", "linux">>,
    <<"endsWith", "on", "on">>, <<"matches", "linux", "on">>, <<"fileExists", "on">> }
Regexps == {"linux", "on"}
Versions == ("9" :> 1) @@ ("10" :> 2)

\* Everything, well formed or not, of up to four lexemes.
Alphabet == {"(", ")", "!", "&&", "||", "==", "<", "'", "yes", "no", "undef", "env.UNSET"}
ShortTexts == UNION {[1..k -> Alphabet] : k \in 0..4}

Lit(w) == <<"'", w, "'">>
Atoms == { <<"yes">>, <<"no">>, <<"undef">>, <<"9">>, <<"cpu">>, <<"os">>, <<"true">>,
           <<"ci">>, <<"branch">>, Lit("linux"), Lit("10"), <<"env.SET">> }

\* Comparisons and calls.
Join(L, Ops, R) == {l \o <<op>> \o r : l \in L, op \in Ops, r \in R}
Comparing == Join(Atoms, {"==", "=", "!=", "<", "<=", ">", ">="}, Atoms)
Calling ==
  {<<f, "(">> \o a \o <<",">> \o b \o <<")">> :
     f \in {"contains", "startsWith", "endsWith", "matches", "semverCompare", "nosuch"},
     a \in Atoms, b \in Atoms}
  \cup {<<f, "(">> \o a \o <<")">> : f \in {"fileExists", "contains"}, a \in Atoms}
  \cup {<<"contains", "(", "os", ",", "'", ",", "'", ")">>, <<"contains", "(", ")">>}

\* Operands as they are written between logical operators.
Paren(t) == <<"(">> \o t \o <<")">>
Operands ==
  { <<"yes">>, <<"no">>, <<"undef">>, <<"!", "yes">>, <<"!", "(", "no", ")">>,
    Paren(<<"yes">>), Paren(<<"no", "||", "yes">>), Paren(<<"yes", "&&", "no">>),
    Lit("linux") \o <<"==", "os">>, <<"os", "==">> \o Lit("linux"),
    Paren(Lit("linux") \o <<"!=", "undef">>), <<"fileExists", "(", "yes", ")">> }

Logical == Join(Operands, {"&&", "||", "=="}, Operands)
LongOperands == { <<"yes">>, <<"no">>, <<"undef">>, <<"!", "no">>, Paren(<<"yes">>),
                  Paren(<<"yes", "||", "no">>), Lit("linux") \o <<"==", "os">> }
Chains == Join(Join(LongOperands, {"&&", "||"}, LongOperands), {"&&", "||"}, LongOperands)
Around == {Paren(t) : t \in Logical} \cup {<<"!">> \o t : t \in Logical}
          \cup {<<"${{">> \o t \o <<"}}">> : t \in Logical}

\* One text for each form in which the code departs from the usual language:
\* what it answers is not what the text says.
Departing ==
  { <<"yes", "||", "no", "&&", "no">>, <<"!", "no", "&&", "no">>,
    <<"(", "yes", ")", "&&", "(", "yes", ")">>, <<"(", "yes", "==", "yes", ")", "==", "true">> }

ASSUME DepartingAssumption ==
  \A t \in Departing : EvaluateExpression(t) \notin Truth(Meaning(t, 1)) /\ Meaning(t, 1) # {}

AllTexts == Departing \cup ShortTexts \cup Atoms \cup Comparing \cup Calling \cup Logical \cup Chains \cup Around
=============================================================================
