----------------------------- MODULE ActionRun -----------------------------
(***************************************************************************)
(* Running one thing by name: `buildfab action X` and `buildfab run S X`.  *)
(* SimpleRunner.RunAction and RunStageStep (simple.go) around              *)
(* Runner.RunAction, RunStageStep and runActionInternal (buildfab.go),     *)
(* with SimpleStepCallback collecting what the user is told.               *)
(*                                                                         *)
(* A request names its entry point: a built-in action, an action of the    *)
(* configuration, or a step of a stage.  An action is known by what its    *)
(* execution depends on: the value of the condition of each variant, the   *)
(* built-in it uses or NoUses, and whether it can be prepared (a run       *)
(* command, interpolation, a shell; a registered built-in).  The built-ins *)
(* are run in a repository.  Whoever asks for something to be run does so  *)
(* with Ask.                                                               *)
(***************************************************************************)
EXTENDS BuiltIns

CONSTANTS Variants,       \* sequences of condition values: true, false, error
          Uses,           \* built-ins an action may use, or NoUses
          Repositories    \* repositories the command may be used in

NoUses == "none"

ASSUME VariantsAssumption == Variants \subseteq Seq({"true", "false", "error"})
ASSUME UsesAssumption == Uses \subseteq Registry \cup {NoUses}
ASSUME RepositoriesAssumption == Repositories # {} /\ \A r \in Repositories : IsRepository(r)

\* The entry "builtin" comes with the name of a built-in, which is found.
Requests == {r \in [entry : {"builtin", "action", "step"}, name : Registry \cup {NoUses},
                    dry : BOOLEAN, found : BOOLEAN] :
               IF r.entry = "builtin" THEN r.name # NoUses /\ r.found ELSE r.name = NoUses}
Actions  == [variants : Variants, uses : Uses, prepared : BOOLEAN]

VARIABLES
  req, act, repo,
  pc,         \* idle, entry, run, report, summary, end
  told,       \* statuses OnStepComplete was called with
  shown,      \* SimpleStepCallback.displayed: the status on the screen
  recorded,   \* SimpleStepCallback.results: the status for the summary
  started,    \* OnStepStart was called
  executed,   \* a command or a built-in was run
  outcome,    \* what it returned
  err,        \* an error is returned
  cancelled,
  summary

cb    == <<told, shown, recorded, started>>
asked == <<req, act, repo>>
avars == <<asked, pc, cb, executed, outcome, err, cancelled, summary>>

None      == [status |-> "none", err |-> FALSE]
NoRequest == [entry |-> "none", name |-> NoUses, dry |-> FALSE, found |-> FALSE]
NoAction  == [variants |-> <<>>, uses |-> NoUses, prepared |-> FALSE]

AInit ==
  /\ req = NoRequest /\ act = NoAction /\ repo = NoRequest
  /\ pc = "idle" /\ told = <<>> /\ shown = "none" /\ recorded = "none"
  /\ started = FALSE /\ executed = FALSE /\ outcome = None /\ err = FALSE
  /\ cancelled = FALSE /\ summary = "none"

\* What a built-in returns; git is killed when the context is cancelled, and
\* does not start once it is.
RunIn(name) ==
  {RunOf(name, repo)} \cup (IF cancelled THEN {RunOf(name, [repo EXCEPT !.git = FALSE])} ELSE {})

\* runCustomAction: a shell command succeeds or fails.
RunCustomAction == {Ok, Error}

\* runBuiltInAction: the error of the built-in, else one made of its status.
RunBuiltInAction ==
  {[status |-> r.status, err |-> r.err \/ r.status = "error"] : r \in RunIn(act.uses)}

\* Faulty variant: the last variant whose condition holds is taken.
SelectLastVariant(vs) ==
  IF vs = <<>> THEN "direct"
  ELSE IF \E i \in DOMAIN vs : vs[i] = "true" THEN "true"
  ELSE IF \E i \in DOMAIN vs : vs[i] = "error" THEN "error" ELSE "nomatch"

\* SelectVariant: the first condition that is not false decides.
SelectVariant(vs) ==
  LET hits == {i \in DOMAIN vs : vs[i] # "false"}
  IN  IF vs = <<>> THEN "direct"
      ELSE IF hits = {} THEN "nomatch"
      ELSE vs[CHOOSE i \in hits : \A j \in hits : i <= j]

\* A condition cannot be evaluated, or what was selected cannot be prepared.
CannotRun(a) ==
  LET v == SelectVariant(a.variants)
  IN  v = "error" \/ (v \in {"direct", "true"} /\ ~a.prepared)

\* OnStepComplete: a step is displayed once, its result is overwritten.
Tell(s) ==
  /\ told' = Append(told, s)
  /\ shown' = IF shown = "none" THEN s ELSE shown
  /\ recorded' = s

-----------------------------------------------------------------------------
\* The repository the request is made in; one stands for all where no built-in
\* will be run to look at it.
Worktrees(r, a) ==
  IF \/ r.entry = "builtin" /\ ~r.dry
     \/ a.uses # NoUses /\ a.prepared /\ SelectVariant(a.variants) \in {"direct", "true"}
  THEN Repositories ELSE {CHOOSE w \in Repositories : TRUE}

\* SimpleRunner.RunAction or RunStageStep is called.
Ask(r, a) ==
  /\ pc = "idle" /\ pc' = "entry"
  /\ req' = r /\ act' = a /\ repo' \in Worktrees(r, a)
  /\ UNCHANGED <<cb, executed, outcome, err, cancelled, summary>>

\* Lookup: an unknown stage, step or action is an error, without callbacks.
NotFound ==
  /\ pc = "entry" /\ ~req.found
  /\ err' = TRUE /\ pc' = IF req.entry = "step" THEN "end" ELSE "summary"
  /\ UNCHANGED <<asked, cb, executed, outcome, cancelled, summary>>

\* RunAction asks the registry of built-ins first.
Found ==
  /\ pc = "entry" /\ req.found
  /\ started' = TRUE /\ pc' = "run"
  /\ UNCHANGED <<asked, told, shown, recorded, executed, outcome, err, cancelled, summary>>

\* A built-in named on the command line.
RunBuiltIn ==
  /\ pc = "run" /\ req.entry = "builtin" /\ ~req.dry
  /\ \E r \in RunIn(req.name) : outcome' = r /\ err' = r.err
  /\ executed' = TRUE /\ pc' = "report"
  /\ UNCHANGED <<asked, cb, cancelled, summary>>

\* runActionInternal: select the variant, prepare, run.  Without a matching
\* variant the completion is reported here, and once more by the caller.
RunActionInternal ==
  /\ pc = "run" /\ req.entry # "builtin"
  /\ req.dry => req.entry = "step"
  /\ LET v == SelectVariant(act.variants)
     IN  \/ /\ CannotRun(act)
            /\ err' = TRUE /\ UNCHANGED <<told, shown, recorded, executed, outcome>>
         \/ /\ v = "nomatch"
            /\ Tell("skipped") /\ UNCHANGED <<executed, outcome, err>>
         \/ /\ v \in {"direct", "true"} /\ act.prepared
            /\ executed' = TRUE
            /\ \E r \in IF act.uses # NoUses THEN RunBuiltInAction ELSE RunCustomAction :
                 outcome' = r /\ err' = r.err
            /\ UNCHANGED <<told, shown, recorded>>
  /\ pc' = "report"
  /\ UNCHANGED <<asked, started, cancelled, summary>>

\* runActionInternalDryRun, runBuiltInActionDryRun and runCustomActionDryRun
\* end in an error for what cannot be run.
DryRunError == req.entry = "action" /\ CannotRun(act)

\* Dry run of a built-in or, through runActionInternalDryRun, of an action:
\* everything is looked up and prepared, nothing is run.
DryRun ==
  /\ pc = "run" /\ req.dry /\ req.entry # "step"
  /\ err' = DryRunError
  /\ Tell(IF DryRunError THEN "error" ELSE "ok")
  /\ pc' = "summary"
  /\ UNCHANGED <<asked, started, executed, outcome, cancelled, summary>>

\* What OnStepComplete is told of a built-in: its status before its error.
BuiltInStatus ==
  IF outcome.status \in {"error", "warn", "skipped"} THEN outcome.status
  ELSE IF outcome.err THEN "error" ELSE "ok"

\* The completion callback of RunAction and RunStageStep.
Report ==
  /\ pc = "report"
  /\ Tell(IF req.entry = "builtin" THEN BuiltInStatus ELSE IF err THEN "error" ELSE "ok")
  /\ pc' = IF req.entry = "step" THEN "end" ELSE "summary"
  /\ UNCHANGED <<asked, started, executed, outcome, err, cancelled, summary>>

\* The final status SimpleRunner.RunAction prints, if there is a result.
Summary ==
  /\ pc = "summary"
  /\ summary' = IF recorded = "none" THEN "none"
                ELSE IF cancelled THEN "TERMINATED"
                ELSE IF recorded = "error" THEN "FAILED"
                ELSE IF recorded = "warn" THEN "WARNING" ELSE "SUCCESS"
  /\ pc' = "end"
  /\ UNCHANGED <<asked, cb, executed, outcome, err, cancelled>>

Interrupt ==
  /\ pc \notin {"idle", "end"} /\ ~cancelled /\ cancelled' = TRUE
  /\ UNCHANGED <<asked, pc, cb, executed, outcome, err, summary>>

ANext == \/ NotFound \/ Found \/ RunBuiltIn \/ RunActionInternal \/ DryRun
         \/ Report \/ Summary \/ Interrupt

-----------------------------------------------------------------------------
\* Whatever is run was selected by the first condition that is not false, was
\* prepared, and its completion has been reported when the call returns.  A
\* dry run of a built-in or of an action runs nothing; RunStageStep looks at
\* the option nowhere.
OnlySelectedRuns ==
  /\ executed /\ req.entry # "builtin" =>
       /\ act.prepared
       /\ act.variants = <<>> \/ \E i \in DOMAIN act.variants :
            act.variants[i] = "true" /\ \A j \in 1..(i - 1) : act.variants[j] = "false"
  /\ pc = "end" => (started <=> told # <<>>)
  /\ req.dry /\ req.entry # "step" => ~executed

\* Nothing has happened yet.
Silent == told = <<>> /\ shown = "none" /\ recorded = "none" /\ ~executed
Fresh  == Silent /\ ~started /\ ~err /\ summary = "none"

ATypeOK ==
  /\ pc \in {"idle", "entry", "run", "report", "summary", "end"}
  /\ started \in BOOLEAN /\ executed \in BOOLEAN /\ err \in BOOLEAN /\ cancelled \in BOOLEAN
  /\ told \in Seq({"ok", "error", "skipped"})
  /\ shown \in {"none", "ok", "error", "skipped"}
  /\ recorded \in {"none", "ok", "error", "skipped"}
  /\ summary \in {"none", "TERMINATED", "FAILED", "WARNING", "SUCCESS"}
  /\ outcome \in {None, Ok, Error}
  /\ pc # "idle" =>
       req \in Requests /\ act \in Actions \cup {NoAction} /\ repo \in Repositories

\* What the callbacks, the error and the summary say at each place: the status
\* on the screen is that of the error, and nothing is said of what is not found.
PlaceInv ==
  /\ pc = "entry" => Fresh
  /\ pc = "run" => req.found /\ started /\ Silent /\ ~err /\ summary = "none"
  /\ pc = "report" =>
       /\ req.found /\ started /\ summary = "none"
       /\ req.entry = "builtin" => outcome \in {Ok, Error} /\ err = outcome.err
       /\ \/ told = <<>> /\ shown = "none"
          \/ shown = "skipped" /\ ~err /\ ~executed /\ req.entry # "builtin"
  /\ pc \in {"summary", "end"} =>
       IF req.found THEN started /\ told # <<>> /\ (shown = "error" <=> err)
       ELSE Silent /\ ~started /\ err
  /\ pc = "summary" =>
       /\ req.entry # "step" /\ summary = "none"
       /\ recorded = IF req.found THEN IF err THEN "error" ELSE "ok" ELSE "none"
  /\ pc = "end" =>
       summary \in IF req.entry = "step" \/ ~req.found THEN {"none"}
                   ELSE IF err THEN {"FAILED", "TERMINATED"} ELSE {"SUCCESS", "TERMINATED"}

\* Why something has been run, and with which result.
CauseInv ==
  executed =>
    /\ pc \in {"report", "summary", "end"} /\ req.found
    /\ req.dry => req.entry = "step"
    /\ IF req.entry = "builtin" THEN outcome \in RunIn(req.name) /\ err = outcome.err
       ELSE act.prepared /\ SelectVariant(act.variants) \in {"direct", "true"}

\* The inductive invariant of a run of one action or step.
AInv == ATypeOK /\ PlaceInv /\ CauseInv
=============================================================================
