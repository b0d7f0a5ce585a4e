----------------------------- MODULE Expression -----------------------------
(***************************************************************************)
(* The language of `if` and `when` (pkg/buildfab/expression.go).  There is *)
(* no grammar in the code: parseExpression searches the text for operators *)
(* in a fixed order, cuts it in two, and when an attempt fails it tries    *)
(* the next way of reading the same text.                                  *)
(*                                                                         *)
(* A text is a sequence of lexemes: "(" ")" "!" "," "'" the operators (the *)
(* logical ones and "=" with the blanks the code asks for) and words.  A   *)
(* literal is a quote, its content, a quote; the contents are lexemes too, *)
(* since the code searches them like everything else.  A value is a type   *)
(* and the text toString gives for it; numerals are in the form FormatFloat*)
(* prints.                                                                 *)
(***************************************************************************)
EXTENDS Integers, Sequences, FiniteSets
LOCAL INSTANCE SequencesExt
LOCAL INSTANCE Functions
LOCAL INSTANCE TLC

CONSTANTS
  Texts,        \* the texts evaluated
  User,         \* variables given by the user: name -> value
  Platform,     \* platform variables: name -> value
  Env,          \* environment references env.X -> value, "" when it is unset
  CI,           \* the environment variable CI is set
  LexOrder,     \* the strings of the instance in lexicographic order
  NumberOf,     \* numeral -> number
  Facts,        \* <<f, s, p>> for which a predicate of the Go library holds
  Patterns,     \* strings that are regular expressions
  VersionRank   \* string version.Parse accepts -> its place in the order

ASSUME LexAssumption == \A i, j \in DOMAIN LexOrder : LexOrder[i] = LexOrder[j] => i = j
ASSUME NumberAssumption ==
  DOMAIN NumberOf \subseteq Range(LexOrder) /\ \A s \in DOMAIN NumberOf : NumberOf[s] \in Int

Quote == "'"
Str(s)  == [type |-> "string", text |-> s]
Bool(b) == [type |-> "bool", text |-> IF b THEN "true" ELSE "false"]
Num(s)  == [type |-> "number", text |-> s]
Error   == [type |-> "error", text |-> ""]
Panic   == [type |-> "panic", text |-> ""]   \* slice bounds out of range
Failed(v) == v.type \in {"error", "panic"}

\* The content of a literal made of several lexemes: not empty, not a number,
\* not "false"; what else it is no property depends on.
LongText == "..."
Content(t) == IF t = <<>> THEN "" ELSE IF Len(t) = 1 THEN t[1] ELSE LongText

-----------------------------------------------------------------------------
(* Context and conversions *)

\* AddPlatformVariables: the platform replaces what the user gave.
AddPlatformVariables(vars) == Platform @@ vars

\* NewExpressionContext: here the caller's variables replace the platform's.
NewExpressionContext(vars) == vars @@ Platform

\* What evaluateCondition is given by every runner.
Variables == NewExpressionContext(AddPlatformVariables(User))

ToBool(v) ==
  CASE v.type = "bool"   -> v.text = "true"
    [] v.type = "string" -> v.text \notin {"", "false"}
    [] v.type = "number" -> NumberOf[v.text] # 0

ToNumber(v) ==
  CASE v.type = "bool"             -> IF v.text = "true" THEN 1 ELSE 0
    [] v.text \in DOMAIN NumberOf  -> NumberOf[v.text]
    [] OTHER                       -> 0

\* A text that is no string of the order comes after all of them.
LexRank(s) ==
  IF \E i \in DOMAIN LexOrder : LexOrder[i] = s
  THEN CHOOSE i \in DOMAIN LexOrder : LexOrder[i] = s
  ELSE Len(LexOrder) + 1

Compare(x, y, op) ==
  CASE op \in {"==", "="} -> x = y   [] op = "!=" -> x # y
    [] op = "<" -> x < y             [] op = "<=" -> x <= y
    [] op = ">" -> x > y             [] op = ">=" -> x >= y

\* compareValues: as numbers when one is a number and the other a number or a
\* string, else as strings when one is a string; booleans only for equality.
CompareValues(l, r, op) ==
  LET types == {l.type, r.type}
  IN  CASE types \in {{"number"}, {"number", "string"}} ->
             Bool(Compare(ToNumber(l), ToNumber(r), op))
        [] types \in {{"string"}, {"string", "bool"}} ->
             Bool(Compare(LexRank(l.text), LexRank(r.text), op))
        [] types = {"bool"} /\ op \in {"==", "=", "!="} ->
             Bool(Compare(l.text, r.text, op))
        [] OTHER -> Error

\* Faulty variant: what is not defined is the empty string, as for env.
ResolveVariableEmpty(t) ==
  IF t # <<>> /\ Head(t) \in DOMAIN Env THEN Str(IF Len(t) = 1 THEN Env[t[1]] ELSE "")
  ELSE IF t = <<"ci">> THEN Str(IF CI THEN "true" ELSE "false")
  ELSE IF t = <<"branch">> THEN Str("main")
  ELSE IF Len(t) = 1 /\ t[1] \in DOMAIN Variables THEN Str(Variables[t[1]])
  ELSE Str("")

\* resolveVariable.  Inputs and Matrix are never filled.  A text that begins
\* with an environment reference is looked up whole, and not found, as one.
ResolveVariable(t) ==
  IF t = <<>> THEN Error
  ELSE IF Head(t) \in DOMAIN Env THEN Str(IF Len(t) = 1 THEN Env[t[1]] ELSE "")
  ELSE IF Len(t) > 1 THEN Error
  ELSE IF t[1] = "ci" THEN Str(IF CI THEN "true" ELSE "false")
  ELSE IF t[1] = "branch" THEN Str("main")
  ELSE IF t[1] \in DOMAIN Variables THEN Str(Variables[t[1]])
  ELSE Error

\* parseVariableReference: literals, numbers, booleans, variables.
ParseVariableReference(t) ==
  IF t # <<>> /\ Head(t) = Quote /\ Last(t) = Quote
  THEN IF Len(t) = 1 THEN Panic ELSE Str(Content(SubSeq(t, 2, Len(t) - 1)))
  ELSE IF Len(t) = 1 /\ t[1] \in DOMAIN NumberOf THEN Num(t[1])
  ELSE IF Len(t) = 1 /\ t[1] \in {"true", "false"} THEN Bool(t[1] = "true")
  ELSE ResolveVariable(t)

-----------------------------------------------------------------------------
(* Cutting the text *)

CountOf(t, S) == Cardinality({i \in DOMAIN t : t[i] \in S})
Before(t, i) == SubSeq(t, 1, i - 1)
After(t, i)  == SubSeq(t, i + 1, Len(t))
Inner(t)     == SubSeq(t, 2, Len(t) - 1)

\* strings.HasPrefix(t, "(") && strings.HasSuffix(t, ")"), matching or not.
Wrapped(t) == Len(t) > 1 /\ Head(t) = "(" /\ Last(t) = ")"

\* parenCount when the loop of parseLogicalExpression reaches i.
ParenCount(t, i) == CountOf(Before(t, i), {"("}) - CountOf(Before(t, i), {")"})

\* Faulty variant: the parentheses are not counted.
AnyOperator(t, op) ==
  LET I == {i \in 2..(Len(t) - 1) : t[i] = op}
  IN  IF I = {} THEN 0 ELSE CHOOSE i \in I : \A j \in I : i <= j

\* andPos, orPos: the first operator with parenCount 0, 0 if there is none.
TopOperator(t, op) ==
  LET I == {i \in 2..(Len(t) - 1) : t[i] = op /\ ParenCount(t, i) = 0}
  IN  IF I = {} THEN 0 ELSE CHOOSE i \in I : \A j \in I : i <= j

\* Where strings.Split(t, op) cuts: "<" and ">" are found in "<=" and ">=",
\* " = " only with its blanks.
Cuts(t, op) ==
  {i \in DOMAIN t : \/ t[i] = op /\ (op = "=" => i \notin {1, Len(t)})
                    \/ <<op, t[i]>> \in {<<"<", "<=">>, <<">", ">=">>}}

Comparisons == <<"!=", "=", "<=", ">=", "<", ">", "==">>

\* strings.Split(argsStr, ","); no arguments for an empty text.
SplitArgs(t) ==
  LET commas == {i \in DOMAIN t : t[i] = ","}
      bounds == SetToSortSeq(commas \cup {0, Len(t) + 1}, <)
  IN  IF t = <<>> THEN <<>>
      ELSE [k \in 1..(Len(bounds) - 1) |-> SubSeq(t, bounds[k] + 1, bounds[k + 1] - 1)]

-----------------------------------------------------------------------------
(* Parsing and evaluating, which are one *)

RECURSIVE ParseExpression(_)

\* Both operands are evaluated, the left one first.
BothOperands(l, r, Op(_, _)) ==
  LET lv == ParseExpression(l)
      rv == ParseExpression(r)
  IN  IF Failed(lv) THEN lv ELSE IF Failed(rv) THEN rv ELSE Op(lv, rv)

And(x, y) == Bool(ToBool(x) /\ ToBool(y))
Or(x, y)  == Bool(ToBool(x) \/ ToBool(y))

\* parseLogicalExpression: a leading ! negates all the rest; then the first
\* && splits the text, only then ||.
ParseLogicalExpression(t) ==
  LET neg == IF Wrapped(Tail(t)) THEN Inner(Tail(t)) ELSE Tail(t)
      v   == ParseExpression(neg)
      i   == TopOperator(t, "&&")
      j   == TopOperator(t, "||")
  IN  IF t # <<>> /\ Head(t) = "!" THEN (IF Failed(v) THEN v ELSE Bool(~ToBool(v)))
      ELSE IF i # 0 THEN BothOperands(Before(t, i), After(t, i), And)
      ELSE IF j # 0 THEN BothOperands(Before(t, j), After(t, j), Or)
      ELSE Error

\* parseComparisonExpression: the first operator of the list, in this order,
\* that occurs exactly once anywhere in the text decides.
ParseComparisonExpression(t) ==
  LET K  == {k \in DOMAIN Comparisons : Cardinality(Cuts(t, Comparisons[k])) = 1}
      op == Comparisons[CHOOSE k \in K : \A m \in K : k <= m]
      i  == CHOOSE i \in Cuts(t, op) : TRUE
  IN  IF K = {} THEN Error
      ELSE BothOperands(Before(t, i), After(t, i), LAMBDA x, y : CompareValues(x, y, op))

\* The functions, applied to evaluated arguments.
CallFunction(f, args) ==
  LET s(i) == args[i].text
  IN  CASE f \in {"contains", "startsWith", "endsWith"} /\ Len(args) = 2 ->
             Bool(<<f, s(1), s(2)>> \in Facts)
        [] f = "matches" /\ Len(args) = 2 ->
             IF s(2) \in Patterns THEN Bool(<<f, s(1), s(2)>> \in Facts) ELSE Error
        [] f = "fileExists" /\ Len(args) = 1 -> Bool(<<f, s(1)>> \in Facts)
        [] f = "semverCompare" /\ Len(args) = 2 ->
             IF {s(1), s(2)} \subseteq DOMAIN VersionRank
             THEN LET v == VersionRank[s(1)]
                      w == VersionRank[s(2)]
                  IN  Num(IF v < w THEN "-1" ELSE IF v > w THEN "1" ELSE "0")
             ELSE Error
        [] OTHER -> Error

Punctuation == {"(", ")", "!", ",", Quote, "&&", "||"} \cup Range(Comparisons)

\* parseFunctionCall: ^(\w+)\((.*)\)$, the arguments cut at every comma.
ParseFunctionCall(t) ==
  LET parts == SplitArgs(SubSeq(t, 3, Len(t) - 1))
      args  == [k \in DOMAIN parts |-> ParseExpression(parts[k])]
      bad   == {k \in DOMAIN args : Failed(args[k])}
  IN  IF ~(Len(t) > 2 /\ t[1] \notin Punctuation /\ t[2] = "(" /\ Last(t) = ")") THEN Error
      ELSE IF bad # {} THEN args[CHOOSE k \in bad : \A m \in bad : k <= m]
      ELSE CallFunction(t[1], args)

\* parseExpression: outer parentheses first; then each reading in turn, a
\* failure of one being no more than a reason to try the next.
ParseExpression(t) ==
  IF Wrapped(t) THEN ParseExpression(Inner(t))
  ELSE LET logical == ParseLogicalExpression(t) IN
       IF logical.type # "error" THEN logical
       ELSE LET comparison == ParseComparisonExpression(t) IN
            IF comparison.type # "error" THEN comparison
            ELSE LET call == ParseFunctionCall(t) IN
                 IF call.type # "error" THEN call ELSE ParseVariableReference(t)

\* EvaluateExpression: the ${{ }} around a text is optional.
EvaluateExpression(t) ==
  LET bare == IF Len(t) > 1 /\ Head(t) = "${{" /\ Last(t) = "}}" THEN Inner(t) ELSE t
      v    == ParseExpression(bare)
  IN  IF Failed(v) THEN v.type ELSE IF ToBool(v) THEN "true" ELSE "false"

-----------------------------------------------------------------------------
VARIABLES text, result

evars == <<text, result>>

EInit == text \in Texts /\ result = "none"

Evaluate ==
  /\ result = "none" /\ result' = EvaluateExpression(text)
  /\ UNCHANGED text

Evaluated == result # "none" /\ UNCHANGED evars

ENext == Evaluate \/ Evaluated

ESpec == EInit /\ [][ENext]_evars

-----------------------------------------------------------------------------
(* Two references: what a text could mean, and what the language is *)

Map2(S, T, Op(_, _)) == {Op(x, y) : x \in S, y \in T}
Values(S) == {v \in S : ~Failed(v)}

\* An atom: a literal of one word, a number, a boolean, a variable.
Atom(t) ==
  IF Len(t) = 1 /\ t[1] \notin Punctuation THEN Values({ParseVariableReference(t)})
  ELSE IF Len(t) = 3 /\ t[1] = Quote /\ t[3] = Quote /\ t[2] \notin Punctuation
  THEN {Str(t[2])} ELSE {}

RECURSIVE Readings(_)

\* Every value that t can be given by cutting it at logical operators outside of
\* parentheses and at any comparison, in any precedence, when two quotes may enclose anything (a text that begins and
\* ends with a literal is also one long literal) and a text that begins with
\* an environment reference is also the name of one that is unset.
Readings(t) ==
  LET Places(op) == {j \in 2..(Len(t) - 1) : t[j] = op}
      Outside    == {j \in DOMAIN t : ParenCount(t, j) = 0}
      Cut(I, Op(_, _)) ==
        UNION {Map2(Readings(Before(t, i)), Readings(After(t, i)), Op) : i \in I}
      args == SubSeq(t, 3, Len(t) - 1)
      Call(f, as) == Values({CallFunction(f, as)})
  IN  IF t = <<>> THEN {}
      ELSE Atom(t)
        \cup Cut(Places("&&") \cap Outside, And) \cup Cut(Places("||") \cap Outside, Or)
        \cup UNION {LET op == Comparisons[k]
                    IN  Values(Cut(Places(op), LAMBDA x, y : CompareValues(x, y, op))) :
                      k \in DOMAIN Comparisons}
        \cup (IF t[1] = "!" THEN {Bool(~ToBool(v)) : v \in Readings(Tail(t))} ELSE {})
        \cup (IF Wrapped(t) THEN Readings(Inner(t)) ELSE {})
        \cup (IF Len(t) > 2 /\ t[1] \notin Punctuation /\ t[2] = "(" /\ Last(t) = ")"
              THEN UNION {Call(t[1], <<v>>) : v \in Readings(args)} \cup
                   UNION {UNION Map2(Readings(Before(args, i)), Readings(After(args, i)),
                                     LAMBDA v, w : Call(t[1], <<v, w>>)) :
                            i \in {j \in DOMAIN args : args[j] = ","}}
              ELSE {})
        \cup (IF Len(t) > 1 /\ t[1] = Quote /\ Last(t) = Quote
              THEN {Str(Content(Inner(t)))} ELSE {})
        \cup (IF t[1] \in DOMAIN Env THEN {ResolveVariable(t)} ELSE {})

Balanced(t) ==
  /\ CountOf(t, {"("}) = CountOf(t, {")"})
  /\ \A i \in DOMAIN t : ParenCount(t, i) >= 0 /\ ParenCount(t, i + 1) >= 0

RECURSIVE Meaning(_, _)

\* What a text says in the usual language, || before && before comparisons
\* before !, whatever the code makes of it:
\*   E ::= A || E | A     A ::= C && A | C     C ::= U op U | U
\*   U ::= ! U | ( E ) | f ( E , .. , E ) | atom
\* (the arguments of a call inside a call are not separated).
Meaning(t, level) ==
  LET Cut(op, Op(_, _), l, r) ==
        UNION {Map2(Meaning(Before(t, i), l), Meaning(After(t, i), r), Op) :
                 i \in {j \in 2..(Len(t) - 1) : t[j] = op /\ Balanced(Before(t, j))}}
      args == SplitArgs(SubSeq(t, 3, Len(t) - 1))
      vals == [k \in DOMAIN args |-> Meaning(args[k], 1)]
  IN  IF t = <<>> \/ ~Balanced(t) THEN {}
      ELSE CASE level = 1 -> Cut("||", Or, 2, 1) \cup Meaning(t, 2)
             [] level = 2 -> Cut("&&", And, 3, 2) \cup Meaning(t, 3)
             [] level = 3 ->
                  Meaning(t, 4) \cup
                  UNION {LET op == Comparisons[k]
                         IN  Values(Cut(op, LAMBDA x, y : CompareValues(x, y, op), 4, 4)) :
                           k \in DOMAIN Comparisons}
             [] t[1] = "!" -> {Bool(~ToBool(v)) : v \in Meaning(Tail(t), 4)}
             [] Wrapped(t) -> Meaning(Inner(t), 1)
             [] Len(t) > 2 /\ t[1] \notin Punctuation /\ t[2] = "(" /\ Last(t) = ")" ->
                  IF \A k \in DOMAIN vals : Cardinality(vals[k]) = 1
                  THEN Values({CallFunction(t[1], [k \in DOMAIN vals |->
                                                     CHOOSE v \in vals[k] : TRUE])})
                  ELSE {}
             [] OTHER -> Atom(t)

\* The forms the code does not read as the usual language.  && and || side by
\* side: it cuts at && first, so that || binds tighter.
LogicalOps == {"&&", "||"}
Binary     == LogicalOps \cup Range(Comparisons)
Level(t, i, j) == i < j /\ Balanced(SubSeq(t, i + 1, j - 1))
Mixed(t) ==
  \E i, j \in DOMAIN t : Level(t, i, j) /\ {t[i], t[j]} = LogicalOps

\* A ! with a binary operator behind it: it negates all the rest.
NegatedRest(t) ==
  \E i, j \in DOMAIN t : Level(t, i, j) /\ t[i] = "!" /\ t[j] \in Binary

\* Operands of which the first begins with "(" and the last ends with ")": these
\* are taken for the two ends of one group.
TwoGroups(t) ==
  \E i, j, k \in DOMAIN t :
    /\ i < j /\ t[i] = "(" /\ (i = 1 \/ t[i - 1] \in Punctuation)
    /\ j < k /\ t[k] = ")" /\ (k = Len(t) \/ t[k + 1] \in {")", ","})
    /\ t[j] \in Binary /\ Balanced(SubSeq(t, i, j - 1)) /\ Balanced(SubSeq(t, j + 1, k))

\* A comparison in an operand of a comparison: the operators are counted in the
\* whole text.
NestedComparison(t) ==
  LET D(i) == ParenCount(t, i)
      Compares == {i \in DOMAIN t : t[i] \in Range(Comparisons)}
  IN  \E i, j \in Compares :
        /\ D(i) > D(j)
        /\ \A m \in DOMAIN t : (i < m /\ m < j) \/ (j < m /\ m < i) =>
             t[m] \notin LogicalOps \/ D(m) > D(j)

Departs(t) == Mixed(t) \/ NegatedRest(t) \/ TwoGroups(t) \/ NestedComparison(t)

Bare(t) == IF Len(t) > 1 /\ Head(t) = "${{" /\ Last(t) = "}}" THEN Inner(t) ELSE t
Truth(S) == {IF ToBool(v) THEN "true" ELSE "false" : v \in S}

-----------------------------------------------------------------------------
(* Properties *)

\* parseExpression invents nothing: an answer is the value of the text in some
\* reading, however many attempts failed before, and the evaluation crashes
\* only on a quote that stands alone between two separators (a literal with a
\* comma in it, given to a function).
ValueIsAReading ==
  /\ result \in {"true", "false"} => result \in Truth(Readings(Bare(text)))
  /\ result = "panic" => \E i \in DOMAIN text :
       /\ text[i] = Quote
       /\ i = 1 \/ text[i - 1] \in Punctuation
       /\ i = Len(text) \/ text[i + 1] \in Punctuation

\* Searching for operators implements the usual language where its precedence is
\* not asked for: a text with a meaning, none of whose parts is in one of the
\* four forms above, is evaluated to its one value, and no failed attempt or
\* operator of a deeper level gets in the way.  In those four forms the code
\* departs from it, in spite of CHANGELOG.md:231 and :240.
LanguageIsRead ==
  LET t == Bare(text)
  IN  result # "none" /\ ~Departs(t) /\ Meaning(t, 1) # {} => {result} = Truth(Meaning(t, 1))
=============================================================================
