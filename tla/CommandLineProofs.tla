------------------------- MODULE CommandLineProofs -------------------------
(***************************************************************************)
(* Proofs about BuiltIns, ActionRun and CommandLine: for every action,     *)
(* every repository, every configuration and every number of edits.  The   *)
(* last part is about CommandStream, for every set of streams, every set   *)
(* of scripts, every number of commands and every size of the pipes.       *)
(***************************************************************************)
EXTENDS CommandLine, CommandStream, FiniteSetTheorems, TLAPS

(* What the operators compute *)

LEMMA LeastIndex ==
  ASSUME NEW S \in SUBSET Nat, S # {}
  PROVE  \E i \in S : \A j \in S : i <= j
<1>1. PICK i \in S : \A j \in S : ~(<<j, i>> \in OpToRel(<, Nat))
  BY NatLessThanWellFounded, WFMin
<1>2. \A j \in S : ~(j < i)
  BY <1>1 DEF OpToRel
<1>. QED BY <1>2

\* SelectVariant takes the first variant whose condition is not false.
LEMMA VariantSelected ==
  ASSUME NEW vs \in Seq({"true", "false", "error"})
  PROVE  /\ SelectVariant(vs) \in {"direct", "nomatch", "true", "error"}
         /\ SelectVariant(vs) = "direct" => vs = <<>>
         /\ SelectVariant(vs) = "true" =>
              \E i \in DOMAIN vs : vs[i] = "true" /\ \A j \in 1..(i - 1) : vs[j] = "false"
<1> DEFINE hits == {i \in DOMAIN vs : vs[i] # "false"}
           first == CHOOSE i \in hits : \A j \in hits : i <= j
<1>1. DOMAIN vs = 1..Len(vs) /\ Len(vs) \in Nat
  OBVIOUS
<1>2. SelectVariant(vs) = IF vs = <<>> THEN "direct"
                          ELSE IF hits = {} THEN "nomatch" ELSE vs[first]
  BY DEF SelectVariant
<1>3. ASSUME hits # {} PROVE first \in hits /\ \A j \in hits : first <= j
  <2>1. hits \in SUBSET Nat
    BY <1>1
  <2>. QED BY <1>3, <2>1, LeastIndex
<1>4. ASSUME vs # <<>>, hits # {}
      PROVE  /\ vs[first] \in {"true", "error"} /\ first \in DOMAIN vs
             /\ \A j \in 1..(first - 1) : vs[j] = "false"
  <2>1. vs[first] \in {"true", "error"} /\ first \in DOMAIN vs
    BY <1>3, <1>4
  <2>2. ASSUME NEW j \in 1..(first - 1) PROVE vs[j] = "false"
    BY <1>1, <1>3, <1>4, <2>1, <2>2
  <2>. QED BY <2>1, <2>2
<1> HIDE DEF hits, first
<1>. QED BY <1>2, <1>4

\* The letters of git status.
LEMMA CodesAre ==
  ASSUME NEW c \in Codes
  PROVE  /\ c = <<c[1], c[2]>>
         /\ c = Untracked \/ c = Conflict \/ c \in Tracked
         /\ c \in Tracked => /\ c[1] \in {" ", "M", "A", "D", "R", "C", "T"}
                             /\ c[2] \in {" ", "M", "D", "T"}
                             /\ c[1] # " " \/ c[2] # " "
         /\ c = Untracked => c[1] = "?" /\ c[2] = "?"
         /\ c = Conflict => c[1] = "U" /\ c[2] = "U"
<1>1. c = Untracked \/ c = Conflict \/ c \in Tracked
  BY DEF Codes
<1>2. ASSUME c \in Tracked
      PROVE  /\ c[1] \in {" ", "M", "A", "D", "R", "C", "T"} /\ c[2] \in {" ", "M", "D", "T"}
             /\ c = <<c[1], c[2]>> /\ c # <<" ", " ">>
  <2>1. ASSUME NEW A, NEW B, c \in A \X B PROVE \E a \in A, b \in B : c = <<a, b>>
    BY <2>1
  <2> DEFINE X == {" ", "M", "A", "D", "R", "C", "T"}
             Y == {" ", "M", "D", "T"}
  <2>2. c \in X \X Y
    BY <1>2 DEF Tracked
  <2> HIDE DEF X, Y
  <2>3. PICK a \in X, b \in Y : c = <<a, b>>
    BY <2>1, <2>2
  <2>4. c[1] = a /\ c[2] = b /\ c # <<" ", " ">>
    BY <1>2, <2>3 DEF Tracked
  <2>. QED BY <2>3, <2>4 DEF X, Y
<1>3. c = Untracked => c[1] = "?" /\ c[2] = "?" /\ c = <<c[1], c[2]>>
  BY DEF Untracked
<1>4. c = Conflict => c[1] = "U" /\ c[2] = "U" /\ c = <<c[1], c[2]>>
  BY DEF Conflict
<1>5. c \in Tracked => c[1] # " " \/ c[2] # " "
  BY <1>2
<1>. QED BY <1>1, <1>2, <1>3, <1>4, <1>5

\* The lines the checks look at: TrimSpace changes at most the first.
LEMMA LinesOfStatus ==
  ASSUME NEW r, IsRepository(r), NEW i \in DOMAIN r.status
  PROVE  /\ r.status[i] \in Codes
         /\ r.status[i][1] # " " => StatusLines(r.status)[i] = r.status[i]
<1>1. r.status \in Seq(Codes)
  BY DEF IsRepository
<1>2. r.status[i] \in Codes
  BY <1>1
<1>3. StatusLines(r.status)[i] =
        IF i = 1 /\ r.status[1][1] = " " THEN <<r.status[1][2], " ">> ELSE r.status[i]
  BY DEF StatusLines
<1>4. r.status[i][1] # " " => ~(i = 1 /\ r.status[1][1] = " ")
  OBVIOUS
<1>. QED BY <1>2, <1>3, <1>4, Zenon

\* What each check of the working tree answers.
LEMMA ChecksAnswer ==
  ASSUME NEW r, IsRepository(r)
  PROVE  /\ RunOf("git@untracked", r).err <=>
              ~r.git \/ \E i \in DOMAIN r.status : StatusLines(r.status)[i] = Untracked
         /\ RunOf("git@uncommitted", r).err <=>
              ~r.git \/ \E i \in DOMAIN r.status : StatusLines(r.status)[i] \in Uncommitted
         /\ RunOf("git@modified", r).err <=>
              ~r.git \/ \E i \in DOMAIN r.status :
                          r.status[i] # Untracked /\ r.status[i][2] # " "
<1>1. DOMAIN StatusLines(r.status) = DOMAIN r.status
  BY DEF StatusLines
<1>2. r.git \in BOOLEAN
  BY DEF IsRepository
<1>3. \A b \in BOOLEAN : Verdict(b).err <=> ~b
  BY DEF Verdict, Ok, Error
<1>4. RunOf("git@untracked", r).err <=>
        ~r.git \/ \E i \in DOMAIN r.status : StatusLines(r.status)[i] = Untracked
  BY <1>1, <1>2, <1>3 DEF RunOf, GitUntracked
<1>5. RunOf("git@uncommitted", r).err <=>
        ~r.git \/ \E i \in DOMAIN r.status : StatusLines(r.status)[i] \in Uncommitted
  BY <1>1, <1>2, <1>3 DEF RunOf, GitUncommitted
<1>6. RunOf("git@modified", r).err <=>
        ~r.git \/ \E i \in DOMAIN r.status : r.status[i] # Untracked /\ r.status[i][2] # " "
  BY <1>2, <1>3 DEF RunOf, GitModified
<1>. QED BY <1>4, <1>5, <1>6

\* A check that fails has found something it is documented to fail on, or could
\* not ask git: the letters that TrimSpace moves belong to a change as well.
LEMMA FailureHasCause ==
  ASSUME NEW r, IsRepository(r), NEW n \in GitChecks, RunOf(n, r).err
  PROVE  ~r.git \/ Lists(r, Documented(n))
<1>1. ASSUME NEW i \in DOMAIN r.status, StatusLines(r.status)[i] # r.status[i]
      PROVE  /\ r.status[i] \in Tracked
             /\ StatusLines(r.status)[i] = <<r.status[i][2], " ">>
  <2>1. i = 1 /\ r.status[i][1] = " "
    BY <1>1 DEF StatusLines
  <2>2. r.status[i] \in Codes
    BY LinesOfStatus
  <2>3. r.status[i] \in Tracked
    BY <2>1, <2>2, CodesAre
  <2>. QED BY <2>1, <2>3 DEF StatusLines
<1>2. ASSUME NEW c \in Tracked PROVE c # Untracked /\ c \in Codes
  BY <1>2, CodesAre DEF Codes, Untracked
<1>3. CASE n = "git@untracked"
  <2> SUFFICES ASSUME NEW i \in DOMAIN r.status, StatusLines(r.status)[i] = Untracked
               PROVE  r.status[i] = Untracked
    BY <1>3, ChecksAnswer DEF Lists, Documented
  <2>1. <<r.status[i][2], " ">> # Untracked
    BY DEF Untracked
  <2>. QED BY <1>1, <2>1
<1>4. CASE n = "git@uncommitted"
  <2> SUFFICES ASSUME NEW i \in DOMAIN r.status, StatusLines(r.status)[i] \in Uncommitted
               PROVE  r.status[i] \in Codes \ {Untracked}
    BY <1>4, ChecksAnswer DEF Lists, Documented
  <2>1. r.status[i] \in Codes
    BY LinesOfStatus
  <2>2. Untracked \notin Uncommitted
    BY DEF Untracked, Uncommitted
  <2>. QED BY <1>1, <1>2, <2>1, <2>2
<1>5. CASE n = "git@modified"
  <2> SUFFICES ASSUME NEW i \in DOMAIN r.status, r.status[i] # Untracked
               PROVE  r.status[i] \in Codes \ {Untracked}
    BY <1>5, ChecksAnswer DEF Lists, Documented
  <2>. QED BY LinesOfStatus
<1>. QED BY <1>3, <1>4, <1>5 DEF GitChecks

\* A check passes only if git could be asked; and no file is untracked when
\* git@untracked passes, also where TrimSpace has moved the letters of a line.
LEMMA PassHasCause ==
  ASSUME NEW r, IsRepository(r), NEW n \in GitChecks, ~RunOf(n, r).err
  PROVE  r.git /\ (n = "git@untracked" => ~Lists(r, {Untracked}))
<1>1. r.git
  BY ChecksAnswer DEF GitChecks, IsRepository
<1>2. ASSUME n = "git@untracked", NEW i \in DOMAIN r.status, r.status[i] = Untracked
      PROVE  FALSE
  <2>1. StatusLines(r.status)[i] = Untracked
    BY <1>2, LinesOfStatus, CodesAre
  <2>. QED BY <1>2, <2>1, ChecksAnswer
<1>. QED BY <1>1, <1>2 DEF Lists

\* A check whose git has been killed fails.
LEMMA NoGitNoPass ==
  ASSUME NEW r, IsRepository(r), NEW n \in GitChecks
  PROVE  RunOf(n, [r EXCEPT !.git = FALSE]).err
<1> DEFINE k == [r EXCEPT !.git = FALSE]
<1>1. k.git = FALSE
  BY DEF IsRepository
<1>. QED BY <1>1 DEF RunOf, GitChecks, GitUntracked, GitUncommitted, GitModified, Verdict, Error, Ok

-----------------------------------------------------------------------------
(* A run of one action or step *)

\* Every built-in ends with success or with an error.
LEMMA OutcomeOfBuiltIn ==
  ASSUME NEW n PROVE RunIn(n) \subseteq {Ok, Error}
<1>1. ASSUME NEW r PROVE RunOf(n, r) \in {Ok, Error}
  BY DEF RunOf, GitUntracked, GitUncommitted, GitModified, VersionCheck, VersionCheckGreatest,
         Verdict
<1>. QED BY <1>1 DEF RunIn

LEMMA OutcomeOfAction ==
  ASSUME NEW r \in IF act.uses # NoUses THEN RunBuiltInAction ELSE RunCustomAction
  PROVE  r \in {Ok, Error}
<1>1. CASE r \in RunCustomAction
  BY <1>1 DEF RunCustomAction
<1>2. CASE r \in RunBuiltInAction
  <2>1. PICK q \in RunIn(act.uses) : r = [status |-> q.status, err |-> q.err \/ q.status = "error"]
    BY <1>2 DEF RunBuiltInAction
  <2>2. q = Ok \/ q = Error
    BY <2>1, OutcomeOfBuiltIn
  <2>3. CASE q = Ok
    BY <2>1, <2>3 DEF Ok
  <2>4. CASE q = Error
    BY <2>1, <2>4 DEF Error
  <2>. QED BY <2>2, <2>3, <2>4
<1>. QED BY <1>1, <1>2

\* Tell keeps the types of the callback, and the first status on the screen.
LEMMA TellKeepsTypes ==
  ASSUME ATypeOK, NEW x \in {"ok", "error", "skipped"}, Tell(x)
  PROVE  /\ told' \in Seq({"ok", "error", "skipped"}) /\ told' # <<>>
         /\ shown' \in {"ok", "error", "skipped"} /\ recorded' = x
         /\ shown' = IF shown = "none" THEN x ELSE shown
<1>1. told' = Append(told, x) /\ told \in Seq({"ok", "error", "skipped"})
  BY DEF Tell, ATypeOK
<1>2. told' \in Seq({"ok", "error", "skipped"}) /\ told' # <<>>
  BY <1>1
<1>. QED BY <1>2 DEF Tell, ATypeOK

\* Whatever a run does, the places it goes through keep their meaning.
LEMMA RunKeepsInv == ASSUME AInv, ANext PROVE AInv'
<1> USE DEF AInv
<1>1. pc # "idle" /\ UNCHANGED asked
  BY DEF ANext, NotFound, Found, RunBuiltIn, RunActionInternal, DryRun, Report, Summary, Interrupt
<1>2. /\ req \in Requests /\ act \in Actions \cup {NoAction} /\ repo \in Repositories
      /\ UNCHANGED <<req, act, repo>>
  BY <1>1 DEF ATypeOK, asked
<1>3. /\ req.entry \in {"builtin", "action", "step"} /\ req.dry \in BOOLEAN
      /\ req.found \in BOOLEAN
  BY <1>2 DEF Requests
<1>4. CASE NotFound
  <2>1. ATypeOK'
    BY <1>2, <1>4 DEF NotFound, ATypeOK, cb
  <2>2. PlaceInv'
    BY <1>2, <1>3, <1>4 DEF NotFound, PlaceInv, Fresh, Silent, cb
  <2>3. CauseInv'
    BY <1>2, <1>4 DEF NotFound, PlaceInv, Fresh, Silent, CauseInv, cb
  <2>. QED BY <2>1, <2>2, <2>3
<1>5. CASE Found
  <2>1. ATypeOK'
    BY <1>2, <1>5 DEF Found, ATypeOK
  <2>2. PlaceInv'
    BY <1>2, <1>3, <1>5 DEF Found, PlaceInv, Fresh, Silent
  <2>3. CauseInv'
    BY <1>2, <1>5 DEF Found, PlaceInv, Fresh, Silent, CauseInv
  <2>. QED BY <2>1, <2>2, <2>3
<1>6. CASE RunBuiltIn
  <2>1. PICK r \in RunIn(req.name) : outcome' = r /\ err' = r.err
    BY <1>6 DEF RunBuiltIn
  <2>2. r \in {Ok, Error} /\ r.err \in BOOLEAN
    <3>1. r \in {Ok, Error}
      BY OutcomeOfBuiltIn
    <3>2. Ok.err = FALSE /\ Error.err = TRUE
      BY DEF Ok, Error
    <3>. QED BY <3>1, <3>2
  <2>3. ATypeOK'
    BY <1>2, <1>6, <2>1, <2>2 DEF RunBuiltIn, ATypeOK, cb
  <2>4. PlaceInv'
    BY <1>2, <1>3, <1>6, <2>1, <2>2 DEF RunBuiltIn, PlaceInv, Silent, cb
  <2>5. CauseInv'
    BY <1>2, <1>3, <1>6, <2>1 DEF RunBuiltIn, PlaceInv, CauseInv, RunIn
  <2>. QED BY <2>3, <2>4, <2>5
<1>7. CASE RunActionInternal
  <2>1. /\ pc = "run" /\ req.entry # "builtin" /\ (req.dry => req.entry = "step")
        /\ pc' = "report" /\ UNCHANGED <<started, cancelled, summary>>
        /\ req.found /\ started /\ Silent /\ ~err /\ summary = "none"
    BY <1>7 DEF RunActionInternal, PlaceInv
  <2>2. CASE err' = TRUE /\ UNCHANGED <<told, shown, recorded, executed, outcome>>
    <3>1. ATypeOK'
      BY <1>2, <2>1, <2>2 DEF ATypeOK
    <3>2. PlaceInv' /\ CauseInv'
      BY <1>2, <2>1, <2>2 DEF PlaceInv, CauseInv, Silent
    <3>. QED BY <3>1, <3>2
  <2>3. CASE Tell("skipped") /\ UNCHANGED <<executed, outcome, err>>
    <3>1. /\ told' \in Seq({"ok", "error", "skipped"}) /\ told' # <<>>
          /\ shown' = "skipped" /\ recorded' = "skipped"
      BY <2>1, <2>3, TellKeepsTypes DEF Silent
    <3>2. ATypeOK'
      BY <1>2, <2>1, <2>3, <3>1 DEF ATypeOK
    <3>3. PlaceInv' /\ CauseInv'
      BY <1>2, <2>1, <2>3, <3>1 DEF PlaceInv, CauseInv, Silent
    <3>. QED BY <3>2, <3>3
  <2>4. CASE /\ SelectVariant(act.variants) \in {"direct", "true"} /\ act.prepared
             /\ executed' = TRUE
             /\ \E r \in IF act.uses # NoUses THEN RunBuiltInAction ELSE RunCustomAction :
                  outcome' = r /\ err' = r.err
             /\ UNCHANGED <<told, shown, recorded>>
    <3>1. PICK r \in IF act.uses # NoUses THEN RunBuiltInAction ELSE RunCustomAction :
            outcome' = r /\ err' = r.err
      BY <2>4
    <3>2. r \in {Ok, Error} /\ r.err \in BOOLEAN
      <4>1. r \in {Ok, Error}
        BY OutcomeOfAction
      <4>2. Ok.err = FALSE /\ Error.err = TRUE
        BY DEF Ok, Error
      <4>. QED BY <4>1, <4>2
    <3>3. ATypeOK'
      BY <1>2, <2>1, <2>4, <3>1, <3>2 DEF ATypeOK
    <3>4. PlaceInv'
      BY <1>2, <2>1, <2>4, <3>1, <3>2 DEF PlaceInv, Silent
    <3>5. CauseInv'
      BY <1>2, <2>1, <2>4 DEF CauseInv
    <3>. QED BY <3>3, <3>4, <3>5
  <2>. QED BY <1>7, <2>2, <2>3, <2>4 DEF RunActionInternal
<1>8. CASE DryRun
  <2> DEFINE x == IF DryRunError THEN "error" ELSE "ok"
  <2>1. /\ pc = "run" /\ req.dry /\ req.entry # "step" /\ err' = DryRunError /\ Tell(x)
        /\ pc' = "summary" /\ UNCHANGED <<started, executed, outcome, cancelled, summary>>
        /\ req.found /\ started /\ Silent /\ summary = "none"
    BY <1>8 DEF DryRun, PlaceInv
  <2>2. DryRunError \in BOOLEAN
    BY DEF DryRunError
  <2>3. /\ told' \in Seq({"ok", "error", "skipped"}) /\ told' # <<>>
        /\ shown' = x /\ recorded' = x /\ x \in {"ok", "error"} /\ (x = "error" <=> err')
    <3>1. x \in {"ok", "error"} /\ (x = "error" <=> err')
      BY <2>1, <2>2
    <3>. QED BY <2>1, <3>1, TellKeepsTypes DEF Silent
  <2> HIDE DEF x
  <2>4. ATypeOK'
    BY <1>2, <2>1, <2>2, <2>3 DEF ATypeOK
  <2>5. PlaceInv' /\ CauseInv'
    BY <1>2, <2>1, <2>2, <2>3 DEF PlaceInv, CauseInv, Silent
  <2>. QED BY <2>4, <2>5
<1>9. CASE Report
  <2> DEFINE x == IF req.entry = "builtin" THEN BuiltInStatus ELSE IF err THEN "error" ELSE "ok"
  <2>1. /\ pc = "report" /\ Tell(x) /\ pc' = IF req.entry = "step" THEN "end" ELSE "summary"
        /\ UNCHANGED <<started, executed, outcome, err, cancelled, summary>>
        /\ req.found /\ started /\ summary = "none" /\ err \in BOOLEAN
    BY <1>9 DEF Report, PlaceInv, ATypeOK
  <2>2. x \in {"ok", "error"} /\ (x = "error" <=> err)
    <3>1. CASE req.entry = "builtin"
      <4>1. outcome \in {Ok, Error} /\ err = outcome.err
        BY <2>1, <3>1 DEF PlaceInv
      <4>. QED BY <3>1, <4>1 DEF BuiltInStatus, Ok, Error
    <3>2. CASE req.entry # "builtin"
      BY <2>1, <3>2
    <3>. QED BY <3>1, <3>2
  <2> HIDE DEF x
  <2>3. /\ told' \in Seq({"ok", "error", "skipped"}) /\ told' # <<>>
        /\ recorded' = x /\ shown' = IF shown = "none" THEN x ELSE shown
        /\ shown' \in {"ok", "error", "skipped"}
    BY <2>1, <2>2, TellKeepsTypes
  <2>4. ATypeOK'
    BY <1>2, <2>1, <2>2, <2>3 DEF ATypeOK
  <2>5. shown' = "error" <=> err
    BY <2>1, <2>2, <2>3 DEF PlaceInv
  <2>6. PlaceInv'
    BY <1>2, <1>3, <2>1, <2>2, <2>3, <2>5 DEF PlaceInv
  <2>7. CauseInv'
    BY <1>2, <1>3, <2>1 DEF CauseInv, RunIn
  <2>. QED BY <2>4, <2>6, <2>7
<1>10. CASE Summary
  <2>1. /\ pc = "summary" /\ pc' = "end"
        /\ UNCHANGED <<told, shown, recorded, started, executed, outcome, err, cancelled>>
        /\ summary' = IF recorded = "none" THEN "none"
                      ELSE IF cancelled THEN "TERMINATED"
                      ELSE IF recorded = "error" THEN "FAILED"
                      ELSE IF recorded = "warn" THEN "WARNING" ELSE "SUCCESS"
    BY <1>10 DEF Summary, cb
  <2>2. /\ req.entry # "step" /\ recorded = IF req.found THEN IF err THEN "error" ELSE "ok" ELSE "none"
        /\ err \in BOOLEAN /\ cancelled \in BOOLEAN
    BY <2>1 DEF PlaceInv, ATypeOK
  <2>3. /\ summary' \in {"none", "TERMINATED", "FAILED", "WARNING", "SUCCESS"}
        /\ summary' \in IF req.entry = "step" \/ ~req.found THEN {"none"}
                        ELSE IF err THEN {"FAILED", "TERMINATED"} ELSE {"SUCCESS", "TERMINATED"}
    <3>1. CASE recorded = "none"
      BY <2>1, <2>2, <3>1
    <3>2. CASE recorded # "none" /\ cancelled
      <4>1. summary' = "TERMINATED"
        BY <2>1, <2>2, <3>2
      <4>. QED BY <1>3, <2>2, <3>2, <4>1
    <3>3. CASE recorded # "none" /\ ~cancelled
      BY <2>1, <2>2, <3>3
    <3>. QED BY <3>1, <3>2, <3>3
  <2>4. ATypeOK'
    BY <1>2, <2>1, <2>3 DEF ATypeOK
  <2>5. PlaceInv'
    BY <1>2, <2>1, <2>3 DEF PlaceInv, Silent
  <2>6. CauseInv'
    BY <1>2, <2>1 DEF CauseInv, RunIn
  <2>. QED BY <2>4, <2>5, <2>6
<1>11. CASE Interrupt
  <2>1. cancelled' = TRUE /\ UNCHANGED <<pc, told, shown, recorded, started, executed, outcome, err, summary>>
    BY <1>11 DEF Interrupt, cb
  <2>2. ATypeOK'
    BY <1>2, <2>1 DEF ATypeOK
  <2>3. PlaceInv'
    BY <1>2, <2>1 DEF PlaceInv, Silent, Fresh
  <2>4. CauseInv'
    BY <1>2, <2>1 DEF CauseInv, RunIn
  <2>. QED BY <2>2, <2>3, <2>4
<1>. QED BY <1>4, <1>5, <1>6, <1>7, <1>8, <1>9, <1>10, <1>11 DEF ANext

-----------------------------------------------------------------------------
(* The command *)

LEMMA Arguments ==
  ASSUME LineInv
  PROVE  /\ inv.dry \in BOOLEAN /\ inv.name \in Registry \cup {NoUses}
         /\ file.stage \in BOOLEAN /\ file.action \in BOOLEAN /\ file.step \in BOOLEAN
         /\ file.dag \in BOOLEAN
<1>1. inv.dry \in BOOLEAN /\ inv.name \in Registry \cup {NoUses}
  BY DEF LineInv, Invocations
<1>2. file.stage \in BOOLEAN /\ file.action \in BOOLEAN /\ file.step \in BOOLEAN /\ file.dag \in BOOLEAN
  <2>1. CASE file = Unloadable("invalid") \/ file = Unloadable("broken")
    <3>1. file.stage = FALSE /\ file.action = FALSE /\ file.step = FALSE /\ file.dag = FALSE
      BY <2>1 DEF Unloadable
    <3>. QED BY <3>1
  <2>2. CASE file \in [load : {"ok"}, stage : BOOLEAN, action : BOOLEAN, step : BOOLEAN, dag : BOOLEAN]
    BY <2>2
  <2>. QED BY <2>1, <2>2 DEF LineInv, Configurations
<1>. QED BY <1>1, <1>2

\* As long as nothing was asked of SimpleRunner, its invariant says little.
LEMMA IdleRun ==
  ASSUME AInv, pc = "idle", ~executed, pc' = "idle", ~executed',
         UNCHANGED <<told, shown, recorded, started, executed, outcome>>,
         err' \in BOOLEAN, cancelled' \in BOOLEAN,
         summary' \in {"none", "TERMINATED", "FAILED", "WARNING", "SUCCESS"}
  PROVE  AInv'
BY DEF AInv, ATypeOK, PlaceInv, CauseInv

LEMMA SameRun == ASSUME AInv, UNCHANGED avars PROVE AInv'
BY DEF AInv, ATypeOK, PlaceInv, CauseInv, RunIn, Fresh, Silent, avars, asked, cb

\* A failure that main.go prints, or a page it shows, before anything is run.
LEMMA LeaveEarly ==
  ASSUME LInv, at \notin {"busy", "exit"}, OnlyHere,
         \/ Exit(1, {"error"}) \/ Exit(1, {"error", "hints"})
         \/ \E w \in {"listing", "version", "help"} : Exit(0, {w})
  PROVE  LInv'
<1> USE DEF LInv
<1>1. /\ at' = "exit" /\ pc = "idle" /\ Fresh /\ plan = "none" /\ printed = {}
      /\ UNCHANGED <<avars, inv, file, edits, plan>>
      /\ \/ code' = 1 /\ "error" \in printed'
         \/ code' = 0 /\ "error" \notin printed' /\ "hints" \notin printed'
  BY DEF LineInv, OnlyHere, Exit
<1>2. /\ UNCHANGED <<plan, told, shown, executed, summary, pc, req, err, inv, file>>
      /\ told = <<>> /\ ~executed /\ summary = "none"
  BY <1>1 DEF avars, asked, cb, Fresh, Silent
<1>3. AInv'
  BY <1>1, SameRun
<1>4. LineInv'
  BY <1>1, <1>2 DEF LineInv
<1>5. ExitMatchesScreen'
  BY <1>1, <1>2 DEF ExitMatchesScreen
<1>. QED BY <1>3, <1>4, <1>5

\* The command goes on to another place, or the file is edited.
LEMMA MoveOn ==
  ASSUME LInv, at \notin {"busy", "exit"},
         at' \in {"parse", "list", "root", "stage", "action"},
         inv' = inv, file' \in Configurations, UNCHANGED <<avars, plan, printed, code>>
  PROVE  LInv'
<1> USE DEF LInv
<1>1. UNCHANGED <<plan, told, shown, recorded, started, executed, summary, pc, req, err>>
  BY DEF avars, asked, cb
<1>2. AInv'
  BY SameRun
<1>3. LineInv'
  BY <1>1 DEF LineInv, Fresh, Silent
<1>4. ExitMatchesScreen'
  BY <1>1 DEF ExitMatchesScreen, LineInv, Fresh, Silent
<1>. QED BY <1>2, <1>3, <1>4

\* SimpleRunner is asked to run something.
LEMMA AskKeepsInv ==
  ASSUME LInv, at \in {"stage", "action"}, NEW r \in Requests, r.dry = inv.dry,
         NEW a \in Actions \cup {NoAction},
         Ask(r, a), GoTo("busy"), UNCHANGED <<inv, file, edits, plan>>
  PROVE  LInv'
<1> USE DEF LInv
<1>1. /\ pc = "idle" /\ pc' = "entry" /\ req' = r /\ act' = a /\ repo' \in Worktrees(r, a)
      /\ UNCHANGED <<told, shown, recorded, started, executed, outcome, err, cancelled, summary>>
      /\ at' = "busy" /\ UNCHANGED <<code, printed, inv, file, plan>>
      /\ Fresh
  BY DEF Ask, GoTo, cb, LineInv
<1>2. Worktrees(r, a) \subseteq Repositories
  BY RepositoriesAssumption DEF Worktrees
<1>3. AInv'
  BY <1>1, <1>2 DEF AInv, ATypeOK, PlaceInv, CauseInv, Fresh, Silent
<1>4. LineInv'
  BY <1>1 DEF LineInv
<1>5. ExitMatchesScreen'
  BY <1>1 DEF ExitMatchesScreen, Fresh, Silent
<1>. QED BY <1>3, <1>4, <1>5

\* What was asked for has returned: its error becomes the exit code.
LEMMA ReturnKeepsInv ==
  ASSUME LInv, ActionReturned \/ StepReturned PROVE LInv'
<1> USE DEF LInv
<1>1. /\ at = "busy" /\ pc = "end" /\ at' = "exit" /\ code' = (IF err THEN 1 ELSE 0)
      /\ OnlyHere /\ printed = {} /\ plan = "none" /\ err \in BOOLEAN /\ req.dry = inv.dry
  BY DEF ActionReturned, StepReturned, Exit, LineInv, AInv, ATypeOK
<1>2. /\ UNCHANGED <<plan, told, shown, executed, summary, pc, req, err, inv, file>>
      /\ UNCHANGED avars
  BY <1>1 DEF OnlyHere, avars, asked, cb
<1>3. /\ req.found \in BOOLEAN
      /\ IF req.found THEN started /\ told # <<>> /\ (shown = "error" <=> err)
         ELSE told = <<>> /\ ~executed /\ ~started /\ err
      /\ summary \in IF req.entry = "step" \/ ~req.found THEN {"none"}
                     ELSE IF err THEN {"FAILED", "TERMINATED"} ELSE {"SUCCESS", "TERMINATED"}
  BY <1>1 DEF AInv, ATypeOK, PlaceInv, Requests, Silent
<1>4. /\ "error" \in printed' <=> err /\ (req.entry = "step" \/ ~req.found)
      /\ "hints" \in printed' => ~req.found
  BY <1>1 DEF ActionReturned, StepReturned, Exit
<1>5. AInv'
  BY <1>2, SameRun
<1>6. LineInv'
  BY <1>1, <1>2 DEF LineInv
<1>7. ExitMatchesScreen'
  BY <1>1, <1>2, <1>3, <1>4 DEF ExitMatchesScreen
<1>. QED BY <1>5, <1>6, <1>7

\* A whole stage has been run.
LEMMA WholeStageKeepsInv == ASSUME LInv, RunWholeStage PROVE LInv'
<1> USE DEF LInv
<1>1. PICK e \in BOOLEAN, t \in BOOLEAN :
        /\ err' = e /\ cancelled' = t
        /\ summary' = IF t THEN "TERMINATED" ELSE IF e THEN "FAILED" ELSE "SUCCESS"
        /\ Exit(IF e THEN 1 ELSE 0, {})
  BY DEF RunWholeStage
<1>2. /\ at = "stage" /\ pc = "idle" /\ Fresh /\ plan = "none" /\ printed = {}
      /\ UNCHANGED <<asked, pc, told, shown, recorded, started, executed, outcome, inv, file, plan>>
  BY DEF RunWholeStage, LineInv, cb
<1>3. at' = "exit" /\ code' = (IF e THEN 1 ELSE 0) /\ printed' = {}
  BY <1>1, <1>2 DEF Exit
<1>4. AInv'
  BY <1>1, <1>2, IdleRun DEF Fresh, Silent
<1>5. LineInv'
  BY <1>2, <1>3 DEF LineInv
<1>6. ExitMatchesScreen'
  BY <1>1, <1>2, <1>3 DEF ExitMatchesScreen, Fresh, Silent
<1>. QED BY <1>4, <1>5, <1>6

\* The plan of a stage has been shown, or a condition has stopped it.
LEMMA DryStageKeepsInv == ASSUME LInv, DryRunStage PROVE LInv'
<1> USE DEF LInv
<1>1. /\ at = "stage" /\ at' = "exit" /\ UNCHANGED <<avars, inv, file>>
      /\ \/ code' = 0 /\ plan' = "shown"
         \/ code' = 1 /\ plan' = "stopped"
  BY DEF DryRunStage, Exit
<1>2. pc = "idle" /\ Fresh /\ printed' = {}
  BY <1>1 DEF LineInv, DryRunStage, Exit
<1>3. UNCHANGED <<told, shown, executed, err, summary, pc, req>>
  BY <1>1 DEF avars, asked, cb
<1>4. AInv'
  BY <1>1, SameRun
<1>5. LineInv'
  BY <1>1, <1>2, <1>3 DEF LineInv
<1>6. ExitMatchesScreen'
  BY <1>1, <1>2, <1>3 DEF ExitMatchesScreen, Fresh, Silent
<1>. QED BY <1>4, <1>5, <1>6

\* The invariant of the command.
LEMMA LineInvariance == LSpec => []LInv
<1>1. LInit => LInv
  <2> SUFFICES ASSUME LInit PROVE LInv
    OBVIOUS
  <2>1. told \in Seq({"ok", "error", "skipped"})
    BY DEF LInit, AInit
  <2>2. AInv
    BY <2>1 DEF LInit, AInit, AInv, ATypeOK, PlaceInv, CauseInv
  <2>3. LineInv
    BY DEF LInit, AInit, LineInv, Fresh, Silent
  <2>4. ExitMatchesScreen
    BY DEF LInit, AInit, ExitMatchesScreen
  <2>. QED BY <2>2, <2>3, <2>4 DEF LInv
<1>2. LInv /\ [LNext]_vars => LInv'
  <2> SUFFICES ASSUME LInv, [LNext]_vars PROVE LInv'
    OBVIOUS
  <2>1. LineInv /\ AInv
    BY DEF LInv
  <2>2. CASE Refuse \/ LoadAgainFails \/ StageNotFound
    BY <2>2, LeaveEarly DEF Refuse, LoadAgainFails, StageNotFound, LoadFails
  <2>3. CASE ListActions \/ ListStages \/ ListSteps \/ Validate
    <3>1. at = "list" /\ OnlyHere
      BY <2>3 DEF ListActions, ListStages, ListSteps, Validate, Show
    <3>2. Exit(1, {"error"}) \/ Exit(0, {"listing"})
      BY <2>3 DEF ListActions, ListStages, ListSteps, Validate, Show, LoadFails
    <3>. QED BY <3>1, <3>2, LeaveEarly
  <2>4. CASE Root
    <3>1. at = "root" /\ OnlyHere
      BY <2>4 DEF Root
    <3>2. CASE Exit(0, {"version"}) \/ Exit(0, {"help"}) \/ Exit(1, {"error"})
      BY <3>1, <3>2, LeaveEarly
    <3>3. CASE GoTo("action") \/ GoTo("stage")
      BY <2>1, <3>1, <3>3, MoveOn DEF GoTo, OnlyHere, LineInv
    <3>. QED BY <2>4, <3>2, <3>3 DEF Root
  <2>5. CASE Dispatch
    <3>1. at = "parse" /\ OnlyHere /\ at' \in {"stage", "root", "action", "list"}
          /\ UNCHANGED <<code, printed>>
      BY <2>5 DEF Dispatch, GoTo
    <3>. QED BY <2>1, <3>1, MoveOn DEF OnlyHere, LineInv
  <2>6. CASE Edit
    BY <2>1, <2>6, MoveOn DEF Edit, LineInv
  <2>7. CASE RunActionDirect
    <3> DEFINE r == [entry |-> IF inv.name # NoUses THEN "builtin" ELSE "action", name |-> inv.name,
                     dry |-> inv.dry, found |-> inv.name # NoUses \/ file.action]
    <3>1. PICK a \in IF r.entry = "action" /\ r.found THEN Actions ELSE {NoAction} : Ask(r, a)
      BY <2>7 DEF RunActionDirect
    <3>2. r \in Requests
      BY <2>1, Arguments DEF Requests
    <3>3. a \in Actions \cup {NoAction}
      OBVIOUS
    <3>4. at = "action" /\ GoTo("busy") /\ UNCHANGED <<inv, file, edits, plan>>
      BY <2>7 DEF RunActionDirect
    <3>5. r.dry = inv.dry
      OBVIOUS
    <3> HIDE DEF r
    <3>. QED BY <3>1, <3>2, <3>3, <3>4, <3>5, AskKeepsInv
  <2>8. CASE RunStepDirect
    <3> DEFINE r == [entry |-> "step", name |-> NoUses, dry |-> inv.dry, found |-> file.step]
    <3>1. PICK a \in IF r.found THEN Actions ELSE {NoAction} : Ask(r, a)
      BY <2>8 DEF RunStepDirect
    <3>2. r \in Requests
      BY <2>1, Arguments DEF Requests
    <3>3. a \in Actions \cup {NoAction}
      OBVIOUS
    <3>4. at = "stage" /\ GoTo("busy") /\ UNCHANGED <<inv, file, edits, plan>>
      BY <2>8 DEF RunStepDirect
    <3>5. r.dry = inv.dry
      OBVIOUS
    <3> HIDE DEF r
    <3>. QED BY <3>1, <3>2, <3>3, <3>4, <3>5, AskKeepsInv
  <2>9. CASE Work
    <3>1. at = "busy" /\ ANext /\ UNCHANGED lvars
      BY <2>9 DEF Work
    <3>2. AInv'
      BY <2>1, <3>1, RunKeepsInv
    <3>3. UNCHANGED <<inv, file, at, plan, printed, code>>
      BY <3>1 DEF lvars
    <3>4. pc # "idle" /\ pc' # "idle" /\ req' = req
      BY <3>1 DEF ANext, NotFound, Found, RunBuiltIn, RunActionInternal, DryRun, Report, Summary,
                  Interrupt, asked
    <3>5. LineInv'
      BY <2>1, <3>1, <3>3, <3>4 DEF LineInv
    <3>6. ExitMatchesScreen'
      BY <3>1, <3>3 DEF ExitMatchesScreen
    <3>. QED BY <3>2, <3>5, <3>6 DEF LInv
  <2>10. CASE UNCHANGED vars
    <3>1. UNCHANGED <<avars, req, pc, told, shown, recorded, started, executed, err, summary, inv,
                      file, at, plan, printed, code>>
      BY <2>10 DEF vars, avars, asked, cb, lvars
    <3>2. AInv'
      BY <2>1, <3>1, SameRun
    <3>3. LineInv'
      BY <2>1, <3>1 DEF LineInv, Fresh, Silent
    <3>4. ExitMatchesScreen'
      BY <3>1 DEF LInv, ExitMatchesScreen
    <3>. QED BY <3>2, <3>3, <3>4 DEF LInv
  <2>. QED
    BY <2>2, <2>3, <2>4, <2>5, <2>6, <2>7, <2>8, <2>9, <2>10, ReturnKeepsInv, WholeStageKeepsInv,
       DryStageKeepsInv
       DEF LNext, Exited
<1>. QED BY <1>1, <1>2, PTL DEF LSpec

\* What is executed was selected by the first condition that is not false and
\* prepared, its completion is reported, and a dry run executes nothing.
THEOREM OnlyTheSelectedRuns == LSpec => []OnlySelectedRuns
<1>1. LInv => OnlySelectedRuns
  <2> SUFFICES ASSUME LInv PROVE OnlySelectedRuns
    OBVIOUS
  <2>1. AInv
    BY DEF LInv
  <2>2. ASSUME executed, req.entry # "builtin"
        PROVE  /\ act.prepared
               /\ act.variants = <<>> \/ \E i \in DOMAIN act.variants :
                    act.variants[i] = "true" /\ \A j \in 1..(i - 1) : act.variants[j] = "false"
    <3>1. act.prepared /\ SelectVariant(act.variants) \in {"direct", "true"} /\ pc # "idle"
      BY <2>1, <2>2 DEF AInv, CauseInv
    <3>2. act \in Actions
      BY <2>1, <3>1 DEF AInv, ATypeOK, NoAction
    <3>3. act.variants \in Seq({"true", "false", "error"})
      BY <3>2, VariantsAssumption DEF Actions
    <3>. QED BY <3>1, <3>3, VariantSelected
  <2>3. pc = "end" => (started <=> told # <<>>)
    BY <2>1 DEF AInv, PlaceInv, Silent
  <2>4. req.dry /\ req.entry # "step" => ~executed
    BY <2>1 DEF AInv, CauseInv
  <2>. QED BY <2>2, <2>3, <2>4 DEF OnlySelectedRuns
<1>. QED BY <1>1, LineInvariance, PTL

\* The exit code and the screen agree, whatever was asked for, however it ended
\* and whatever happened to the configuration file between its two readings.
THEOREM ExitCodeIsShown == LSpec => []ExitMatchesScreen
<1>1. LInv => ExitMatchesScreen
  BY DEF LInv
<1>. QED BY <1>1, LineInvariance, PTL

\* In every repository a check of the working tree fails only for a cause, and
\* passes only if git could be asked; git@untracked misses no file.
THEOREM ChecksAreJustified == LSpec => []ChecksFailForCause
<1>1. LInv => ChecksFailForCause
  <2> SUFFICES ASSUME LInv, at = "exit", executed, req.name \in GitChecks
               PROVE  /\ code = 1 => ~repo.git \/ cancelled \/ Lists(repo, Documented(req.name))
                      /\ code = 0 =>
                           /\ repo.git
                           /\ req.name = "git@untracked" => ~Lists(repo, {Untracked})
    BY DEF ChecksFailForCause, CheckDone
  <2>1. AInv /\ LineInv
    BY DEF LInv
  <2>2. pc # "idle" /\ req \in Requests /\ IsRepository(repo) /\ (code = 0 <=> ~err)
    BY <2>1, RepositoriesAssumption DEF AInv, ATypeOK, CauseInv, LineInv
  <2>3. req.entry = "builtin"
    BY <2>2 DEF Requests, GitChecks, NoUses
  <2>4. outcome \in RunIn(req.name) /\ err = outcome.err
    BY <2>1, <2>3 DEF AInv, CauseInv
  <2>5. CASE outcome = RunOf(req.name, repo)
    BY <2>2, <2>4, <2>5, FailureHasCause, PassHasCause
  <2>6. CASE cancelled /\ outcome = RunOf(req.name, [repo EXCEPT !.git = FALSE])
    <3>1. err
      BY <2>2, <2>4, <2>6, NoGitNoPass
    <3>. QED BY <2>2, <2>6, <3>1
  <2>. QED BY <2>4, <2>5, <2>6 DEF RunIn
<1>. QED BY <1>1, LineInvariance, PTL

-----------------------------------------------------------------------------
(* Running a command and reading its output *)

\* A line goes into one of the pipes, or ends a command that has no reader.
LEMMA WriteKeepsInv == ASSUME MInv, NEW s \in Streams, ProcWrite(s) PROVE MInv'
<1> USE DEF MInv, MTypeOK
<1>0. CASE ~open /\ child' = "none" /\ UNCHANGED <<written, pipe>>
  <2>1. UNCHANGED <<script, shell, left, held, delivered, open, reader, waiter, main, result, ctxDone>>
    BY DEF ProcWrite
  <2>2. \A t \in Streams : Taken(t)' = Taken(t)
    BY <2>1 DEF Taken
  <2>3. MTypeOK' /\ LifeInv'
    BY <1>0, <2>1 DEF LifeInv, Ended
  <2>4. StreamInv' /\ StopInv'
    BY <1>0, <2>1, <2>2 DEF StreamInv, Numbered, StopInv
  <2>. QED BY <2>3, <2>4
<1> SUFFICES ASSUME open /\ Len(pipe[s]) < PipeSize /\ UNCHANGED child
                    /\ written' = [written EXCEPT ![s] = @ + 1]
                    /\ pipe' = [pipe EXCEPT ![s] = Append(@, written[s] + 1)]
             PROVE  MInv'
  BY <1>0 DEF ProcWrite
<1>1. /\ written' = [written EXCEPT ![s] = @ + 1]
      /\ pipe' = [pipe EXCEPT ![s] = Append(@, written[s] + 1)]
      /\ shell = "running" \/ child # "none"
      /\ written[s] < Len(script[s])
      /\ UNCHANGED <<script, procs, held, delivered, open, reader, waiter, main, result, ctxDone>>
  BY DEF ProcWrite, procs
<1>2. MTypeOK'
  BY <1>1 DEF procs
<1>3. StreamInv'
  <2>1. ASSUME NEW t \in Streams, t # s PROVE Numbered(t)'
    BY <1>1, <2>1 DEF StreamInv, Numbered, Taken
  <2>2. Numbered(s)'
    <3>1. /\ Taken(s) \in Nat /\ Len(pipe[s]) \in Nat /\ written[s] \in Nat
          /\ Len(script[s]) \in Nat /\ Taken(s)' = Taken(s) /\ Numbered(s)
      BY <1>1 DEF Taken, StreamInv
    <3>2. pipe'[s] = Append(pipe[s], written[s] + 1) /\ written'[s] = written[s] + 1
      BY <1>1
    <3>3. /\ Len(pipe'[s]) = Len(pipe[s]) + 1 /\ pipe'[s][Len(pipe[s]) + 1] = written[s] + 1
          /\ \A k \in DOMAIN pipe[s] : pipe'[s][k] = pipe[s][k]
          /\ DOMAIN pipe[s] = 1..Len(pipe[s]) /\ DOMAIN pipe'[s] = 1..(Len(pipe[s]) + 1)
      BY <3>2
    <3>4. UNCHANGED <<script, held, delivered, reader>> /\ written[s] < Len(script[s])
      BY <1>1
    <3>5. reader[s] # "done" =>
            /\ written'[s] = Taken(s) + Len(pipe'[s])
            /\ \A k \in DOMAIN pipe'[s] : pipe'[s][k] = Taken(s) + k
      BY <3>1, <3>2, <3>3 DEF Numbered
    <3>6. written'[s] <= Len(script[s])
      BY <3>1, <3>2, <3>4
    <3>. QED BY <3>1, <3>4, <3>5, <3>6 DEF Numbered
  <2>. QED BY <2>1, <2>2 DEF StreamInv
<1>4. StopInv'
  BY <1>1 DEF StopInv, Taken, procs, Ended
<1>5. LifeInv'
  BY <1>1 DEF LifeInv, procs, Ended
<1>. QED BY <1>2, <1>3, <1>4, <1>5

\* A reader takes a line out of its pipe, or stops.
LEMMA ScanKeepsInv == ASSUME MInv, NEW s \in Streams, Scan(s) PROVE MInv'
<1> USE DEF MInv, MTypeOK
<1>1. /\ reader[s] = "reading" /\ held[s] = 0
      /\ UNCHANGED <<script, shell, child, left, written, delivered, open, waiter, main, result, ctxDone>>
  BY DEF Scan, procs
<1>2. LifeInv /\ main # "start"
  BY <1>1 DEF LifeInv
<1>3. CASE /\ open /\ pipe[s] # <<>> /\ pipe' = [pipe EXCEPT ![s] = Tail(@)]
  <2> DEFINE h == Head(pipe[s])
  <2>1. /\ Len(pipe[s]) > 0 /\ Len(pipe[s]) \in Nat /\ h = pipe[s][1]
        /\ Tail(pipe[s]) \in Seq(Nat) /\ Len(Tail(pipe[s])) = Len(pipe[s]) - 1
        /\ \A k \in 1..(Len(pipe[s]) - 1) : Tail(pipe[s])[k] = pipe[s][k + 1]
        /\ DOMAIN Tail(pipe[s]) = 1..(Len(pipe[s]) - 1) /\ DOMAIN pipe[s] = 1..Len(pipe[s])
    BY <1>3
  <2>2. Taken(s) = Len(delivered[s]) /\ Len(delivered[s]) \in Nat
    BY <1>1 DEF Taken
  <2>3. /\ h = Len(delivered[s]) + 1 /\ written[s] = Len(delivered[s]) + Len(pipe[s])
        /\ \A k \in 1..Len(pipe[s]) : pipe[s][k] = Len(delivered[s]) + k
        /\ written[s] <= Len(script[s])
    <3>1. Numbered(s)
      BY DEF StreamInv
    <3>2. /\ written[s] = Taken(s) + Len(pipe[s]) /\ written[s] <= Len(script[s])
          /\ \A k \in DOMAIN pipe[s] : pipe[s][k] = Taken(s) + k
      BY <1>1, <3>1 DEF Numbered
    <3>3. 1 \in DOMAIN pipe[s]
      BY <2>1
    <3>. QED BY <2>1, <2>2, <3>2, <3>3
  <2>4. h \in DOMAIN script[s] /\ h \in Nat /\ h # 0
    BY <2>1, <2>2, <2>3
  <2>5. pipe'[s] = Tail(pipe[s]) /\ \A t \in Streams : t # s => pipe'[t] = pipe[t]
    BY <1>3
  <2>6. CASE script[s][h] = "short"
    <3>1. held' = [held EXCEPT ![s] = h] /\ UNCHANGED reader
      BY <1>1, <1>3, <2>6 DEF Scan
    <3>2. MTypeOK'
      BY <1>1, <1>3, <2>1, <2>4, <3>1
    <3>3. \A t \in Streams : t # s => Taken(t)' = Taken(t)
      BY <1>1, <3>1 DEF Taken
    <3>4. Taken(s)' = Len(delivered[s]) + 1
      BY <1>1, <3>1, <2>4 DEF Taken
    <3>5. \A t \in Streams : t # s =>
            /\ held'[t] = held[t] /\ reader'[t] = reader[t] /\ pipe'[t] = pipe[t]
      BY <2>5, <3>1
    <3>6. held'[s] = Len(delivered[s]) + 1
      BY <2>3, <3>1
    <3>7. ASSUME NEW k \in DOMAIN pipe'[s] PROVE pipe'[s][k] = Len(delivered[s]) + 1 + k
      <4>1. k \in 1..(Len(pipe[s]) - 1) /\ k + 1 \in 1..Len(pipe[s])
        BY <2>1, <2>5
      <4>2. pipe'[s][k] = pipe[s][k + 1]
        BY <2>1, <2>5, <4>1
      <4>3. pipe[s][k + 1] = Len(delivered[s]) + (k + 1)
        BY <2>3, <4>1
      <4>. QED BY <2>2, <4>1, <4>2, <4>3
    <3>8. written[s] = Len(delivered[s]) + 1 + Len(pipe'[s])
      BY <2>1, <2>2, <2>3, <2>5
    <3>9. StreamInv'
      <4>1. Numbered(s)'
        BY <1>1, <3>1, <3>4, <3>6, <3>7, <3>8, <2>3 DEF StreamInv, Numbered
      <4>2. ASSUME NEW t \in Streams, t # s PROVE Numbered(t)'
        BY <1>1, <3>3, <3>5, <4>2 DEF StreamInv, Numbered
      <4>. QED BY <4>1, <4>2 DEF StreamInv
    <3>10. StopInv' /\ LifeInv'
      BY <1>1, <1>2, <3>1, <3>3 DEF StopInv, LifeInv, Ended
    <3>. QED BY <3>2, <3>9, <3>10
  <2>7. CASE script[s][h] # "short"
    <3>1. reader' = [reader EXCEPT ![s] = "done"] /\ UNCHANGED held
      BY <1>1, <1>3, <2>7 DEF Scan
    <3>2. MTypeOK'
      BY <1>1, <1>3, <2>1, <3>1
    <3>3. \A t \in Streams : Taken(t)' = Taken(t)
      BY <1>1, <3>1 DEF Taken
    <3>4. StreamInv'
      BY <1>1, <2>5, <3>1, <3>3 DEF StreamInv, Numbered
    <3>5. StopInv'
      BY <1>1, <2>4, <2>7, <3>1, <3>3 DEF StopInv, Ended
    <3>6. LifeInv'
      BY <1>1, <1>2 DEF LifeInv, Ended
    <3>. QED BY <3>2, <3>4, <3>5, <3>6
  <2>. QED BY <2>6, <2>7
<1>4. CASE /\ ~open \/ (pipe[s] = <<>> /\ Ended /\ child = "none")
           /\ reader' = [reader EXCEPT ![s] = "done"] /\ UNCHANGED <<pipe, held>>
  <2>1. MTypeOK'
    BY <1>1, <1>4
  <2>2. \A t \in Streams : Taken(t)' = Taken(t) /\ Taken(t) \in Nat
    BY <1>1, <1>4 DEF Taken
  <2>3. StreamInv'
    BY <1>1, <1>4, <2>2 DEF StreamInv, Numbered
  <2>4. pipe[s] = <<>> => written[s] = Taken(s)
    <3>1. Numbered(s)
      BY DEF StreamInv
    <3>2. written[s] = Taken(s) + Len(pipe[s])
      BY <1>1, <3>1 DEF Numbered
    <3>. QED BY <2>2, <3>2
  <2>5. StopInv'
    BY <1>1, <1>4, <2>2, <2>4 DEF StopInv, Ended
  <2>6. LifeInv'
    BY <1>1, <1>2 DEF LifeInv, Ended
  <2>. QED BY <2>1, <2>3, <2>5, <2>6
<1>. QED BY <1>3, <1>4 DEF Scan

\* A reader hands its line on.
LEMMA DeliverKeepsInv == ASSUME MInv, NEW s \in Streams, Deliver(s) PROVE MInv'
<1> USE DEF MInv, MTypeOK
<1>1. /\ held[s] # 0 /\ held[s] \in Nat
      /\ delivered' = [delivered EXCEPT ![s] = Append(@, held[s])]
      /\ held' = [held EXCEPT ![s] = 0]
      /\ UNCHANGED <<script, shell, child, left, written, pipe, open, reader, waiter, main, result, ctxDone>>
  BY DEF Deliver, procs
<1>2. MTypeOK'
  BY <1>1
<1>3. /\ Len(delivered[s]) \in Nat /\ delivered'[s] = Append(delivered[s], held[s])
      /\ Len(delivered'[s]) = Len(delivered[s]) + 1 /\ held'[s] = 0
      /\ held[s] = Len(delivered[s]) + 1 /\ reader[s] = "reading"
  BY <1>1 DEF StreamInv, Numbered
<1>4. \A k \in DOMAIN delivered'[s] : delivered'[s][k] = k
  BY <1>1, <1>3 DEF StreamInv, Numbered
<1>5. \A t \in Streams : t # s => held'[t] = held[t] /\ delivered'[t] = delivered[t]
  BY <1>1
<1>6. \A t \in Streams : Taken(t)' = Taken(t)
  <2>1. \A t \in Streams : t # s => Taken(t)' = Taken(t)
    BY <1>5 DEF Taken
  <2>2. Taken(s)' = Taken(s)
    BY <1>1, <1>3 DEF Taken
  <2>. QED BY <2>1, <2>2
<1>7. StreamInv'
  BY <1>1, <1>3, <1>4, <1>5, <1>6 DEF StreamInv, Numbered
<1>8. StopInv' /\ LifeInv'
  BY <1>1, <1>6 DEF StopInv, LifeInv, Ended
<1>. QED BY <1>2, <1>7, <1>8

\* The other steps leave the lines where they are.
LEMMA LifeKeepsInv ==
  ASSUME MInv,
         \/ Start \/ ShellStarts \/ ChildEnds \/ ShellExits \/ ContextKill
         \/ Wait \/ Completed \/ Cancelled \/ CancelContext
  PROVE  MInv'
<1> USE DEF MInv, MTypeOK
<1>1. UNCHANGED <<script, written, pipe, held, delivered>>
  BY DEF Start, ShellStarts, ChildEnds, ShellExits, ContextKill, Wait, Completed, Cancelled,
         CancelContext, io
<1>2. \A s \in Streams : Taken(s)' = Taken(s)
  BY <1>1 DEF Taken
<1>3. CASE Start
  <2>1. MTypeOK'
    BY <1>1, <1>3 DEF Start
  <2>2. StreamInv' /\ StopInv'
    BY <1>1, <1>2, <1>3 DEF Start, StreamInv, Numbered, StopInv, LifeInv, Ended
  <2>3. LifeInv'
    BY <1>3 DEF Start, LifeInv, Ended
  <2>. QED BY <2>1, <2>2, <2>3
<1>4. CASE ShellStarts \/ ChildEnds \/ ShellExits
  <2>1. UNCHANGED <<reader, open, waiter, main, result, ctxDone>> /\ shell # "new"
    BY <1>4 DEF ShellStarts, ChildEnds, ShellExits, LifeInv
  <2>2. MTypeOK'
    BY <1>1, <1>4, <2>1 DEF ShellStarts, ChildEnds, ShellExits
  <2>3. StreamInv' /\ StopInv'
    BY <1>1, <1>2, <1>4, <2>1
       DEF ShellStarts, ChildEnds, ShellExits, StreamInv, Numbered, StopInv, Ended
  <2>4. LifeInv'
    BY <1>1, <1>4, <2>1 DEF ShellStarts, ChildEnds, ShellExits, LifeInv, Ended
  <2>. QED BY <2>2, <2>3, <2>4
<1>5. CASE ContextKill \/ Wait \/ Completed \/ Cancelled \/ CancelContext
  <2>1. /\ UNCHANGED <<reader, child, left>>
        /\ shell' # shell => shell = "running" /\ shell' = "killed"
        /\ ~open => ~open'
    BY <1>5 DEF ContextKill, Wait, Completed, Cancelled, CancelContext, procs
  <2>2. MTypeOK'
    <3>1. CASE ContextKill
      BY <1>1, <2>1, <3>1 DEF ContextKill
    <3>2. CASE Wait
      BY <1>1, <2>1, <3>2 DEF Wait, procs
    <3>3. CASE CancelContext
      BY <1>1, <2>1, <3>3 DEF CancelContext, procs
    <3>4. CASE Completed
      BY <1>1, <2>1, <3>4 DEF Completed, procs
    <3>5. CASE Cancelled
      BY <1>1, <2>1, <3>5 DEF Cancelled
    <3>. QED BY <1>5, <3>1, <3>2, <3>3, <3>4, <3>5
  <2>3. StreamInv' /\ StopInv'
    BY <1>1, <1>2, <2>1 DEF StreamInv, Numbered, StopInv, Ended
  <2>4. LifeInv'
    BY <1>1, <2>1, <1>5
       DEF ContextKill, Wait, Completed, Cancelled, CancelContext, LifeInv, Ended, procs
  <2>. QED BY <2>2, <2>3, <2>4
<1>. QED BY <1>3, <1>4, <1>5

\* The invariant of a running command: no line is lost, repeated or moved
\* between the command and OnStepOutput.
LEMMA StreamInvariance == MSpec => []MInv
<1>1. MInit => MInv
  <2> SUFFICES ASSUME MInit PROVE MInv
    OBVIOUS
  <2> DEFINE none == <<>>
  <2>0. none \in Seq(Nat) /\ Len(none) = 0
    OBVIOUS
  <2>1. /\ pipe = [s \in Streams |-> none] /\ delivered = [s \in Streams |-> none]
        /\ written = [s \in Streams |-> 0] /\ held = [s \in Streams |-> 0]
        /\ reader = [s \in Streams |-> "off"] /\ script \in Scripts /\ shell = "new"
        /\ child = "none" /\ left = MaxCommands
        /\ open = TRUE /\ waiter = "off" /\ main = "start" /\ result = "none"
        /\ ctxDone = FALSE
    BY DEF MInit, Zero
  <2> HIDE DEF none
  <2>2. MTypeOK
    BY <2>0, <2>1, ScriptsAssumption, PipeAssumption DEF MTypeOK
  <2>3. \A s \in Streams : /\ written[s] = 0 /\ held[s] = 0 /\ pipe[s] = none
                            /\ delivered[s] = none /\ reader[s] = "off" /\ Taken(s) = 0
    <3>1. \A s \in Streams : /\ written[s] = 0 /\ held[s] = 0 /\ pipe[s] = none
                              /\ delivered[s] = none /\ reader[s] = "off"
      BY <2>1
    <3>2. ASSUME NEW s \in Streams PROVE Taken(s) = 0
      <4>1. Len(delivered[s]) = 0 /\ held[s] = 0
        BY <2>0, <3>1, Zenon
      <4>. QED BY <4>1 DEF Taken
    <3>. QED BY <3>1, <3>2
  <2>4. StreamInv /\ StopInv
    BY <2>0, <2>2, <2>3 DEF StreamInv, Numbered, StopInv, MTypeOK
  <2>5. LifeInv
    BY <2>1, <2>3 DEF LifeInv, Ended
  <2>. QED BY <2>2, <2>4, <2>5 DEF MInv
<1>2. MInv /\ [MNext]_mvars => MInv'
  <2> SUFFICES ASSUME MInv, [MNext]_mvars PROVE MInv'
    OBVIOUS
  <2>1. CASE UNCHANGED mvars
    BY <2>1 DEF mvars, procs, io, MInv, MTypeOK, StreamInv, Numbered, StopInv, LifeInv, Taken, Ended
  <2>. QED
    BY <2>1, WriteKeepsInv, ScanKeepsInv, DeliverKeepsInv, LifeKeepsInv
       DEF MNext, Process, Caller, Reading, Idle
<1>. QED BY <1>1, <1>2, PTL DEF MSpec

\* When executeCommandWithStreaming returns, its shell has ended or been killed;
\* nil is returned only for a shell that was waited for to its end; and a
\* command the script waits for is left behind only by a cancellation.
THEOREM NoShellOutlivesTheCall == MSpec => []ShellEndsWithCall
<1>1. MInv => ShellEndsWithCall
  BY DEF MInv, MTypeOK, LifeInv, ShellEndsWithCall, Ended
<1>. QED BY <1>1, StreamInvariance, PTL

\* What the two reader goroutines give OnStepOutput is always the beginning of
\* what was written, and all of it where the code promises that.
THEOREM OutputIsNeverReordered == MSpec => []OutputIsPrefix
<1>1. MInv => OutputIsPrefix
  <2> SUFFICES ASSUME MInv, NEW s \in Streams
               PROVE  /\ \A k \in DOMAIN delivered[s] : delivered[s][k] = k
                      /\ reader[s] = "done" /\ open /\ held[s] = 0
                           /\ (\A k \in DOMAIN script[s] : script[s][k] = "short") =>
                           Len(delivered[s]) = written[s]
    BY DEF OutputIsPrefix
  <2>. QED BY DEF MInv, MTypeOK, StreamInv, Numbered, StopInv, Taken
<1>. QED BY <1>1, StreamInvariance, PTL
============================================================================
