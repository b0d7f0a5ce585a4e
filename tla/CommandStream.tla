--------------------------- MODULE CommandStream ---------------------------
(***************************************************************************)
(* executeCommandWithStreaming of pkg/buildfab/buildfab.go: a shell that    *)
(* runs a script, with a pipe for each of its two streams, one reader      *)
(* goroutine per pipe, a goroutine in cmd.Wait and the caller, which waits *)
(* for it or for the context.                                              *)
(*                                                                         *)
(* The shell and the commands of its script are different processes, and   *)
(* they are in no process group of their own: Kill ends the shell, and a   *)
(* command it was running goes on, holding the writing ends of the pipes.  *)
(*                                                                         *)
(* External, from the documentation of os/exec, bufio and the shell: a     *)
(* process blocks on a full pipe and is ended by a write to a pipe without *)
(* a reading end; a pipe is at its end when no process has it open for     *)
(* writing; Wait returns when the shell has ended and closes the reading   *)
(* ends, whatever is still in them; CommandContext kills the shell when    *)
(* the context is cancelled; a Scanner stops at a line that does not fit   *)
(* into its buffer of 64 KiB; a shell waits for a command in the           *)
(* foreground, and not for one in the background.                          *)
(***************************************************************************)
EXTENDS Naturals, Sequences

CONSTANTS Streams,    \* stdout, stderr
          Scripts,    \* what a script writes: per stream its lines
          PipeSize,   \* bound: lines a pipe holds
          MaxCommands \* bound: commands a script runs, one at a time

\* "long" stands for a line beyond the buffer of the Scanner.
LineKinds == {"short", "long"}

ASSUME ScriptsAssumption == Scripts \subseteq [Streams -> Seq(LineKinds)]
ASSUME PipeAssumption    == PipeSize \in Nat \ {0} /\ MaxCommands \in Nat

VARIABLES
  script,
  shell,      \* new, running, exited, killed
  child,      \* the command it has started: none, fore, back (ground)
  left,       \* commands the script may still run
  written,    \* lines written to each stream
  pipe,       \* what a pipe holds: numbers of lines
  open,       \* the reading ends are open
  reader,     \* off, reading, done
  held,       \* line a reader has scanned and not delivered, 0 for none
  delivered,  \* lines handed to OnStepOutput
  waiter,     \* off, waiting, done
  main,       \* start, select, returned
  result,     \* none, nil, exit (a status), start, ctx
  ctxDone     \* ctx.Err() != nil

io    == <<written, pipe, held, delivered>>
procs == <<shell, child, left>>
mvars == <<script, procs, io, open, reader, waiter, main, result, ctxDone>>

Zero == [s \in Streams |-> 0]

MInit ==
  /\ script \in Scripts /\ shell = "new" /\ child = "none" /\ left = MaxCommands
  /\ written = Zero /\ pipe = [s \in Streams |-> <<>>] /\ held = Zero
  /\ delivered = [s \in Streams |-> <<>>] /\ open = TRUE
  /\ reader = [s \in Streams |-> "off"] /\ waiter = "off"
  /\ main = "start" /\ result = "none" /\ ctxDone = FALSE

\* Faulty variant: only one of the pipes is read.
StartOneReader ==
  /\ main = "start"
  /\ main' = "select" /\ shell' = "running" /\ waiter' = "waiting" /\ UNCHANGED result
  /\ reader' = [s \in Streams |-> IF s = CHOOSE t \in Streams : TRUE THEN "reading" ELSE "off"]
  /\ UNCHANGED <<script, io, open, ctxDone, child, left>>

\* cmd.Start fails, or the three goroutines are started.
Start ==
  /\ main = "start"
  /\ \/ /\ main' = "returned" /\ result' = "start"
        /\ UNCHANGED <<shell, reader, waiter>>
     \/ /\ main' = "select" /\ shell' = "running" /\ waiter' = "waiting"
        /\ reader' = [s \in Streams |-> "reading"] /\ UNCHANGED result
  /\ UNCHANGED <<script, child, left, io, open, ctxDone>>

ShellStarts ==
  /\ shell = "running" /\ child = "none" /\ left > 0
  /\ child' \in {"fore", "back"} /\ left' = left - 1
  /\ UNCHANGED <<script, shell, io, open, reader, waiter, main, result, ctxDone>>

\* A line is written by the shell or by its command; once the reading end is
\* closed the command, which alone can still be there, ends on SIGPIPE.
ProcWrite(s) ==
  /\ shell = "running" \/ child # "none"
  /\ written[s] < Len(script[s])
  /\ \/ /\ open /\ Len(pipe[s]) < PipeSize
        /\ written' = [written EXCEPT ![s] = @ + 1]
        /\ pipe' = [pipe EXCEPT ![s] = Append(@, written[s] + 1)]
        /\ UNCHANGED child
     \/ /\ ~open /\ child' = "none" /\ UNCHANGED <<written, pipe>>
  /\ UNCHANGED <<script, shell, left, held, delivered, open, reader, waiter, main, result, ctxDone>>

ChildEnds ==
  /\ child # "none" /\ child' = "none"
  /\ UNCHANGED <<script, shell, left, io, open, reader, waiter, main, result, ctxDone>>

\* The script is at its end, or has nothing left but a command in the background.
ShellExits ==
  /\ shell = "running" /\ child # "fore"
  /\ child = "back" \/ \A s \in Streams : written[s] = Len(script[s])
  /\ shell' = "exited"
  /\ UNCHANGED <<script, child, left, io, open, reader, waiter, main, result, ctxDone>>

Ended == shell \in {"exited", "killed"}

\* scanner.Scan returns a line; or false, for good, on a line that is too
\* long, at the end of the stream, or because Wait has closed the pipe.
Scan(s) ==
  /\ reader[s] = "reading" /\ held[s] = 0
  /\ \/ /\ open /\ pipe[s] # <<>>
        /\ pipe' = [pipe EXCEPT ![s] = Tail(@)]
        /\ IF script[s][Head(pipe[s])] = "short"
           THEN held' = [held EXCEPT ![s] = Head(pipe[s])] /\ UNCHANGED reader
           ELSE reader' = [reader EXCEPT ![s] = "done"] /\ UNCHANGED held
     \/ /\ ~open \/ (pipe[s] = <<>> /\ Ended /\ child = "none")
        /\ reader' = [reader EXCEPT ![s] = "done"] /\ UNCHANGED <<pipe, held>>
  /\ UNCHANGED <<script, procs, written, delivered, open, waiter, main, result, ctxDone>>

\* Faulty variant: the line is not forgotten.
DeliverAgain(s) ==
  /\ held[s] # 0
  /\ delivered' = [delivered EXCEPT ![s] = Append(@, held[s])]
  /\ UNCHANGED <<script, procs, written, pipe, held, open, reader, waiter, main, result, ctxDone>>

\* The reader calls OnStepOutput.
Deliver(s) ==
  /\ held[s] # 0
  /\ delivered' = [delivered EXCEPT ![s] = Append(@, held[s])]
  /\ held' = [held EXCEPT ![s] = 0]
  /\ UNCHANGED <<script, procs, written, pipe, open, reader, waiter, main, result, ctxDone>>

\* cmd.Wait returns, whatever the shell has left running; done has room for
\* its result.
Wait ==
  /\ waiter = "waiting" /\ Ended
  /\ waiter' = "done" /\ open' = FALSE
  /\ UNCHANGED <<script, procs, io, reader, main, result, ctxDone>>

\* case err := <-done
Completed ==
  /\ main = "select" /\ waiter = "done"
  /\ \/ shell = "exited" /\ result' \in {"nil", "exit"}
     \/ shell = "killed" /\ result' = "exit"
  /\ main' = "returned"
  /\ UNCHANGED <<script, procs, io, open, reader, waiter, ctxDone>>

\* Faulty variant: nothing is killed.
CancelledNoKill ==
  /\ main = "select" /\ ctxDone
  /\ main' = "returned" /\ result' = "ctx"
  /\ UNCHANGED <<script, procs, io, open, reader, waiter, ctxDone>>

\* case <-ctx.Done(): the shell is killed, and not waited for.
Cancelled ==
  /\ main = "select" /\ ctxDone
  /\ shell' = IF shell = "running" THEN "killed" ELSE shell
  /\ main' = "returned" /\ result' = "ctx"
  /\ UNCHANGED <<script, child, left, io, open, reader, waiter, ctxDone>>

\* exec.CommandContext kills the shell of a cancelled context as well.
ContextKill ==
  /\ shell = "running" /\ ctxDone /\ shell' = "killed"
  /\ UNCHANGED <<script, child, left, io, open, reader, waiter, main, result, ctxDone>>

CancelContext ==
  /\ ~ctxDone /\ main # "returned" /\ ctxDone' = TRUE
  /\ UNCHANGED <<script, procs, io, open, reader, waiter, main, result>>

Idle == main = "returned" /\ UNCHANGED mvars

Process ==
  ShellStarts \/ ChildEnds \/ ShellExits \/ ContextKill \/ \E s \in Streams : ProcWrite(s)
Caller     == Start \/ Completed \/ Cancelled
Reading(s) == Scan(s) \/ Deliver(s)

MNext ==
  \/ Process \/ Caller \/ Wait \/ CancelContext \/ Idle
  \/ \E s \in Streams : Reading(s)

\* The goroutines are scheduled and the command goes on when it can.
MSpec ==
  /\ MInit /\ [][MNext]_mvars
  /\ WF_mvars(Process) /\ WF_mvars(Caller) /\ WF_mvars(Wait)
  /\ \A s \in Streams : WF_mvars(Reading(s))

-----------------------------------------------------------------------------
\* When the call returns its shell has ended or been killed, also if the context
\* was cancelled while it was writing; success is returned only for a shell that
\* came to its end and was waited for; and a command the script was waiting for
\* is left behind only if the context was cancelled.  The code promises no more:
\* Kill reaches the shell alone, so that command goes on, as does one that the
\* script has put into the background.
ShellEndsWithCall ==
  main = "returned" =>
    /\ shell # "running"
    /\ result = "nil" => shell = "exited" /\ waiter = "done"
    /\ child = "fore" => ctxDone

\* What OnStepOutput was given is the beginning of what was written, in order and
\* each line once; and it is all of it once the reader is done, unless a line
\* was too long or Wait had closed the pipe before its end, which it does as
\* soon as the shell has ended.
OutputIsPrefix ==
  \A s \in Streams :
    /\ \A k \in DOMAIN delivered[s] : delivered[s][k] = k
    /\ reader[s] = "done" /\ open /\ held[s] = 0
         /\ (\A k \in DOMAIN script[s] : script[s][k] = "short") =>
         Len(delivered[s]) = written[s]

\* Lines of a stream that have left its pipe for good or are being delivered.
Taken(s) == Len(delivered[s]) + (IF held[s] = 0 THEN 0 ELSE 1)

MTypeOK ==
  /\ script \in [Streams -> Seq(LineKinds)]
  /\ shell \in {"new", "running", "exited", "killed"}
  /\ child \in {"none", "fore", "back"} /\ left \in Nat
  /\ written \in [Streams -> Nat] /\ held \in [Streams -> Nat]
  /\ pipe \in [Streams -> Seq(Nat)] /\ delivered \in [Streams -> Seq(Nat)]
  /\ open \in BOOLEAN /\ reader \in [Streams -> {"off", "reading", "done"}]
  /\ waiter \in {"off", "waiting", "done"} /\ main \in {"start", "select", "returned"}
  /\ result \in {"none", "nil", "exit", "start", "ctx"} /\ ctxDone \in BOOLEAN

\* The lines of a stream are numbered through: first those delivered, then the
\* one held, then, as long as the reader reads, those in the pipe, the last of
\* which is the last one written.
Numbered(s) ==
  /\ \A k \in DOMAIN delivered[s] : delivered[s][k] = k
  /\ held[s] # 0 => held[s] = Len(delivered[s]) + 1 /\ reader[s] = "reading"
  /\ written[s] <= Len(script[s])
  /\ reader[s] # "done" =>
       /\ written[s] = Taken(s) + Len(pipe[s])
       /\ \A k \in DOMAIN pipe[s] : pipe[s][k] = Taken(s) + k

StreamInv == \A s \in Streams : Numbered(s)

\* Why a reader has stopped: the pipe was closed, a line was too long, or nobody
\* was left to write and the last line had been read.
StopInv ==
  \A s \in Streams : reader[s] = "done" =>
    \/ ~open
    \/ \E k \in DOMAIN script[s] : script[s][k] # "short"
    \/ Ended /\ child = "none" /\ written[s] = Taken(s)

LifeInv ==
  /\ main = "start" => shell = "new" /\ \A s \in Streams : reader[s] = "off"
  /\ main = "returned" => shell # "running"
  /\ result # "none" => main = "returned"
  /\ result = "nil" => shell = "exited" /\ waiter = "done"
  /\ shell = "new" => child = "none" /\ open
  /\ ~open => Ended
  /\ shell = "exited" => child # "fore"
  /\ shell = "killed" => ctxDone

\* The inductive invariant behind ShellEndsWithCall and OutputIsPrefix.
MInv == MTypeOK /\ StreamInv /\ StopInv /\ LifeInv

\* The call returns: a command that fills one pipe is not left waiting by a
\* reader that waits for the other.  A line too long for the Scanner is
\* excepted: its reader stops, the pipe fills and the command never ends.
CommandReturns ==
  (\A s \in Streams : "long" \notin {script[s][k] : k \in DOMAIN script[s]})
    => <>(main = "returned")
=============================================================================
