---------------------------- MODULE CommandLine ----------------------------
(***************************************************************************)
(* The command cmd/buildfab/main.go: from the arguments over the loading   *)
(* of the configuration and the meaning of the name to the exit code.      *)
(* Single actions and steps are run by ActionRun.  The real run of a stage *)
(* is one action with the outcomes StageRun has: error or not, cancelled   *)
(* or not.  So is its dry run, with the outcomes of DryRun: the plan is    *)
(* shown, or a condition that cannot be evaluated stops it.                *)
(*                                                                         *)
(* The configuration is read twice when the first argument is not a        *)
(* command, once to find out what it names and once to run it; the file    *)
(* may be edited in between.  Of a configuration we keep how loading it    *)
(* ends and what the arguments mean in it.                                 *)
(***************************************************************************)
EXTENDS ActionRun

CONSTANT MaxEdits       \* bound: edits of the configuration while we run

ASSUME BoundsAssumption == MaxEdits \in Nat

Commands == {"root", "run", "action", "list-actions", "list-stages", "list-steps", "validate"}

\* The arguments: how many, the flags that matter, and the built-in the first
\* argument is the name of, if it is one.  --version exists on the root only,
\* and the name of a built-in matters to the commands that run actions.
Invocations ==
  {i \in [cmd : Commands, args : 0..3, version : BOOLEAN, dry : BOOLEAN,
          name : Registry \cup {NoUses}] :
     /\ i.version => i.cmd = "root"
     /\ i.name # NoUses => i.cmd \in {"root", "action"} /\ i.args > 0}

\* A configuration: loading ends well, with an error of Validate that the
\* command knows by its words, or with another error; the first argument is a
\* stage, an action; the second is a step of that stage; its graph can be built.
Unloadable(l) == [load |-> l, stage |-> FALSE, action |-> FALSE, step |-> FALSE, dag |-> FALSE]
Configurations ==
  {Unloadable("invalid"), Unloadable("broken")} \cup
  {c \in [load : {"ok"}, stage : BOOLEAN, action : BOOLEAN, step : BOOLEAN, dag : BOOLEAN] :
     c.step \/ c.dag => c.stage}

VARIABLES
  inv,      \* the arguments
  file,     \* the configuration file as it is now
  edits,    \* edits so far
  at,       \* parse, list, root, stage, action, busy, exit
  plan,     \* dry run of a stage: none, shown, stopped
  printed,  \* what main.go printed: error, hints, version, help, listing
  code      \* exit code

lvars == <<inv, file, edits, at, plan, printed, code>>
vars  == <<avars, lvars>>

LInit ==
  /\ AInit
  /\ inv \in Invocations /\ file \in Configurations /\ edits = 0
  /\ at = "parse" /\ plan = "none" /\ printed = {} /\ code = 0

Exit(c, words) ==
  at' = "exit" /\ code' = c /\ printed' = printed \cup words
GoTo(place) == at' = place /\ UNCHANGED <<code, printed>>

\* A failed load: known validation errors are printed and end the process, the
\* others are returned to main, which prints them as well.
LoadFails == file.load # "ok" /\ Exit(1, {"error"})
OnlyHere  == UNCHANGED <<avars, inv, file, edits, plan>>

-----------------------------------------------------------------------------
\* What the Args of the cobra commands accept.
ArgsAccepted ==
  CASE inv.cmd = "run"                       -> inv.args \in 1..2
    [] inv.cmd \in {"action", "list-steps"}  -> inv.args = 1
    [] OTHER                                 -> TRUE

Refuse == at = "parse" /\ ~ArgsAccepted /\ Exit(1, {"error"}) /\ OnlyHere

Dispatch ==
  /\ at = "parse" /\ ArgsAccepted
  /\ GoTo(CASE inv.cmd = "run" -> "stage" [] inv.cmd \in {"root", "action"} -> inv.cmd
            [] OTHER -> "list")
  /\ OnlyHere

\* The commands that only show something: what it is once the file is loaded.
Show(cmd, what) == at = "list" /\ inv.cmd = cmd /\ OnlyHere /\ (LoadFails \/ what)

ListActions == Show("list-actions", file.load = "ok" /\ Exit(0, {"listing"}))
ListStages  == Show("list-stages", file.load = "ok" /\ Exit(0, {"listing"}))
Validate    == Show("validate", file.load = "ok" /\ Exit(0, {"listing"}))

\* runListSteps: there must be such a stage.
ListSteps ==
  Show("list-steps",
       /\ file.load = "ok"
       /\ IF file.stage THEN Exit(0, {"listing"}) ELSE Exit(1, {"error"}))

\* runRoot: the flags, no argument at all, an error known by its words; else a
\* name, which is a stage before it is an action, and a stage when it is neither
\* or when nothing could be loaded.
Root ==
  /\ at = "root"
  /\ IF inv.version THEN Exit(0, {"version"})
     ELSE IF inv.args = 0 THEN Exit(0, {"help"})
     ELSE IF file.load = "invalid" THEN Exit(1, {"error"})
     ELSE GoTo(IF file.load = "ok" /\ ~file.stage /\ (file.action \/ inv.name # NoUses)
               THEN "action" ELSE "stage")
  /\ OnlyHere

\* The configuration is loaded again, by runStageDirect or runActionDirect.
LoadAgainFails == at \in {"stage", "action"} /\ LoadFails /\ OnlyHere

\* runActionDirect; RunAction looks for a built-in first.
RunActionDirect ==
  /\ at = "action" /\ file.load = "ok"
  /\ LET r == [entry |-> IF inv.name # NoUses THEN "builtin" ELSE "action", name |-> inv.name,
               dry |-> inv.dry, found |-> inv.name # NoUses \/ file.action]
     IN  \E a \in IF r.entry = "action" /\ r.found THEN Actions ELSE {NoAction} : Ask(r, a)
  /\ GoTo("busy") /\ UNCHANGED <<inv, file, edits, plan>>

\* runStageDirect with exactly two arguments.
RunStepDirect ==
  /\ at = "stage" /\ file.load = "ok" /\ inv.args = 2
  /\ LET r == [entry |-> "step", name |-> NoUses, dry |-> inv.dry, found |-> file.step]
     IN  \E a \in IF r.found THEN Actions ELSE {NoAction} : Ask(r, a)
  /\ GoTo("busy") /\ UNCHANGED <<inv, file, edits, plan>>

StageNotFound ==
  /\ at = "stage" /\ file.load = "ok" /\ inv.args # 2 /\ ~file.stage
  /\ Exit(1, {"error", "hints"}) /\ OnlyHere

\* SimpleRunner.RunStage without --dry-run.  The context is looked at once more
\* for the summary; main.go leaves the error to it.
RunWholeStage ==
  /\ at = "stage" /\ file.load = "ok" /\ inv.args # 2 /\ file.stage /\ ~inv.dry
  /\ \E e, t \in BOOLEAN :
       /\ ~file.dag => e
       /\ err' = e /\ cancelled' = t
       /\ summary' = IF t THEN "TERMINATED" ELSE IF e THEN "FAILED" ELSE "SUCCESS"
       /\ Exit(IF e THEN 1 ELSE 0, {})
  /\ UNCHANGED <<asked, pc, cb, executed, outcome, inv, file, edits, plan>>

\* SimpleRunner.RunStage with --dry-run: executeStageDryRun, whose error main.go
\* leaves to the run it takes to have shown it.
DryRunStage ==
  /\ at = "stage" /\ file.load = "ok" /\ inv.args # 2 /\ file.stage /\ inv.dry
  /\ \/ plan' = "shown" /\ Exit(0, {})
     \/ plan' = "stopped" /\ Exit(1, {})
  /\ UNCHANGED <<avars, inv, file, edits>>

\* Faulty variant: every error of an action is left to SimpleRunner.
ActionReturnedSilent ==
  /\ at = "busy" /\ pc = "end" /\ req.entry # "step"
  /\ Exit(IF err THEN 1 ELSE 0, {}) /\ OnlyHere

\* runActionDirect: main.go prints the error of RunAction only if there is no
\* such action.
ActionReturned ==
  /\ at = "busy" /\ pc = "end" /\ req.entry # "step"
  /\ Exit(IF err THEN 1 ELSE 0, IF err /\ ~req.found THEN {"error", "hints"} ELSE {})
  /\ OnlyHere

\* runStageDirect: every error of RunStageStep is printed.
StepReturned ==
  /\ at = "busy" /\ pc = "end" /\ req.entry = "step"
  /\ Exit(IF err THEN 1 ELSE 0,
          IF ~err THEN {} ELSE {"error"} \cup (IF req.found THEN {} ELSE {"hints"}))
  /\ OnlyHere

Work == at = "busy" /\ ANext /\ UNCHANGED lvars

\* Somebody edits the configuration file, while it may still be read.
Edit ==
  /\ at \notin {"busy", "exit"} /\ edits < MaxEdits
  /\ file' \in Configurations \ {file} /\ edits' = edits + 1
  /\ UNCHANGED <<avars, inv, at, plan, printed, code>>

Exited == at = "exit" /\ UNCHANGED vars

LNext ==
  \/ Refuse \/ Dispatch \/ ListActions \/ ListStages \/ ListSteps \/ Validate
  \/ Root \/ LoadAgainFails \/ RunActionDirect \/ RunStepDirect \/ StageNotFound
  \/ RunWholeStage \/ DryRunStage
  \/ ActionReturned \/ StepReturned \/ Work \/ Edit \/ Exited

LSpec == LInit /\ [][LNext]_vars

-----------------------------------------------------------------------------
(* Properties *)

\* The exit code and the screen agree.  A failure leaves a trace: an error that
\* main.go prints, or the summary or the displayed status of what was run (the
\* one exception, a dry run that ends at a condition that cannot be evaluated,
\* is in the README).  Success is announced exactly with exit code 0, what is
\* displayed as an error is never exit code 0, and the hints for unknown names
\* never follow something that was run, whatever was edited in between.
ExitMatchesScreen ==
  at = "exit" =>
    /\ code = 1 => \/ "error" \in printed \/ summary \in {"FAILED", "TERMINATED"}
                   \/ plan = "stopped"
    /\ code = 0 => "error" \notin printed /\ summary # "FAILED"
    /\ summary \in {"SUCCESS", "WARNING"} => code = 0
    /\ told # <<>> => (shown = "error" <=> code = 1)
    /\ "hints" \in printed => ~executed /\ told = <<>>

\* What the documents say each check of the working tree fails on: untracked
\* files, staged or unstaged changes, a working tree that differs from HEAD.
Documented(check) ==
  IF check = "git@untracked" THEN {Untracked} ELSE Codes \ {Untracked}
Lists(r, codes) == \E i \in DOMAIN r.status : r.status[i] \in codes

CheckDone(c) == at = "exit" /\ executed /\ req.name \in GitChecks /\ code = c

\* A check of the working tree fails only for a cause: there is something in the
\* tree that the documents say it fails on, git cannot be asked, or the command
\* was interrupted; also where TrimSpace moves the letters of the first line.  It
\* passes only if git could be asked, and git@untracked only if no file is
\* untracked.  (The other two pass too easily: DocumentedFound.)
ChecksFailForCause ==
  /\ CheckDone(1) => ~repo.git \/ cancelled \/ Lists(repo, Documented(req.name))
  /\ CheckDone(0) => repo.git /\ (req.name = "git@untracked" => ~Lists(repo, {Untracked}))

\* docs/Project-specification.md:157 says that git@uncommitted fails if there are
\* staged or unstaged changes and git@modified if the working tree differs from
\* HEAD.  The code does not keep it: a file that is staged and touched again, one
\* that is not staged and not listed first, a conflict or a staged change of type
\* passes the first, everything staged the second.
DocumentedFound == CheckDone(0) => ~Lists(repo, Documented(req.name))

-----------------------------------------------------------------------------
(* The inductive invariant behind them *)

LineInv ==
  /\ inv \in Invocations /\ file \in Configurations /\ code \in {0, 1}
  /\ at \in {"parse", "list", "root", "stage", "action", "busy", "exit"}
  /\ at \notin {"busy", "exit"} => pc = "idle" /\ Fresh
  /\ at = "busy" => pc # "idle"
  /\ at # "exit" => printed = {}
  /\ at # "exit" => plan = "none"
  /\ pc # "idle" => req.dry = inv.dry
  /\ at = "exit" /\ pc # "idle" => pc = "end" /\ (code = 0 <=> ~err)

\* At the end nothing moves any more: there the property is the invariant.
LInv == AInv /\ LineInv /\ ExitMatchesScreen
=============================================================================
