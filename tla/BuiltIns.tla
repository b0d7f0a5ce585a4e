------------------------------ MODULE BuiltIns ------------------------------
(***************************************************************************)
(* The built-in actions of pkg/buildfab/actions.go: three checks of the    *)
(* working tree and two of the version, as functions of the repository     *)
(* they are run in.                                                        *)
(*                                                                         *)
(* Git is external, from how actions.go uses it.  `git status --porcelain` *)
(* prints a line with two letters for each path that is not clean, sorted, *)
(* untracked paths last: the first letter compares the index with HEAD, the *)
(* second the working tree with the index.  `git diff --name-only` prints  *)
(* the tracked paths whose second letter is not blank.                     *)
(***************************************************************************)
EXTENDS Naturals, Sequences

GitChecks == {"git@untracked", "git@uncommitted", "git@modified"}

\* NewDefaultActionRegistry
Registry == GitChecks \cup {"version@check", "version@check-greatest"}

Untracked == <<"?", "?">>
Conflict  == <<"U", "U">>
Tracked   == ({" ", "M", "A", "D", "R", "C", "T"} \X {" ", "M", "D", "T"}) \ {<<" ", " ">>}
Codes     == Tracked \cup {Conflict, Untracked}

\* The parts of a version between its dots: empty, a number, a text with a
\* prerelease identifier in it, any other text.
Parts == {"empty", "number", "prerelease", "word"}

\* No VERSION file, or what it holds: nothing, or a text with or without v.
NoFile   == [file |-> FALSE, v |-> FALSE, parts |-> <<>>]
Versions == {NoFile} \cup [file : {TRUE}, v : BOOLEAN, parts : Seq(Parts)]
Blank(v) == v.file /\ ~v.v /\ v.parts = <<>>

\* A repository: whether git can be run in it, what git status lists, the
\* VERSION file, and whether the greatest tag is that version.
IsRepository(r) ==
  /\ DOMAIN r = {"git", "status", "version", "greatest"}
  /\ r.git \in BOOLEAN /\ r.version \in Versions /\ r.greatest \in {"none", "same", "other"}
  /\ r.status \in Seq(Codes)
  /\ \A i, j \in DOMAIN r.status : i < j /\ r.status[i] = Untracked => r.status[j] = Untracked

Ok    == [status |-> "ok", err |-> FALSE]
Error == [status |-> "error", err |-> TRUE]

Verdict(passed) == IF passed THEN Ok ELSE Error

\* strings.TrimSpace of the whole output, before it is split: the first line
\* loses a blank in front, so that its second letter is read as the first and
\* the blank before the path as the second.
StatusLines(status) ==
  [i \in DOMAIN status |->
     IF i = 1 /\ status[1][1] = " " THEN <<status[1][2], " ">> ELSE status[i]]

\* The letters git@uncommitted looks for: staged and not touched since.
Uncommitted == {<<x, " ">> : x \in {"M", "A", "D", "R", "C"}}

GitUntracked(r) ==
  LET lines == StatusLines(r.status)
  IN  Verdict(r.git /\ \A i \in DOMAIN lines : lines[i] # Untracked)

\* Faulty variant: every line of the output counts.
GitUncommittedAny(r) == Verdict(r.git /\ r.status = <<>>)

GitUncommitted(r) ==
  LET lines == StatusLines(r.status)
  IN  Verdict(r.git /\ \A i \in DOMAIN lines : lines[i] \notin Uncommitted)

GitModified(r) ==
  Verdict(r.git /\ \A i \in DOMAIN r.status :
                     r.status[i] = Untracked \/ r.status[i][2] = " ")

\* isValidVersion: v, then three or more parts that are numbers or have a
\* prerelease identifier in them.
IsValidVersion(v) ==
  /\ v.v /\ Len(v.parts) >= 3
  /\ \A i \in DOMAIN v.parts : v.parts[i] \in {"number", "prerelease"}

VersionCheck(r) ==
  Verdict(r.version.file /\ ~Blank(r.version) /\ IsValidVersion(r.version))

VersionCheckGreatest(r) ==
  Verdict(r.version.file /\ r.git /\ r.greatest \in {"none", "same"})

RunOf(name, r) ==
  CASE name = "git@untracked"   -> GitUntracked(r)
    [] name = "git@uncommitted" -> GitUncommitted(r)
    [] name = "git@modified"    -> GitModified(r)
    [] name = "version@check"   -> VersionCheck(r)
    [] OTHER                    -> VersionCheckGreatest(r)
=============================================================================
