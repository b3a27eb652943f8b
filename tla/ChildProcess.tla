---------------------------- MODULE ChildProcess ----------------------------
(***************************************************************************)
(* One external command: a child started in a process group (Unix) or a    *)
(* job (Windows) of its own, both of its pipes drained in turn by the one  *)
(* thread that also watches the deadline and waits for the child, and the  *)
(* whole tree put down at the end (infrastructure/process.rs).             *)
(*                                                                         *)
(* The child writes, forks a helper that inherits its pipes, closes pipes  *)
(* and exits whenever it likes; the helper may leave the group.  Bytes are *)
(* counted in units, a read takes at most Chunk of them.                   *)
(***************************************************************************)
EXTENDS Naturals

CONSTANTS Timeout,        \* ticks until the deadline
          Chunk,          \* what one read takes
          PipeCapacity,   \* what a pipe holds before its writer blocks
          OutputLimit,    \* OUTPUT_LIMIT: of stdout, and of both together
          StderrLimit,    \* STDERR_LIMIT
          MaxOutput       \* bound: what the tree writes to one pipe

ASSUME CommandAssumption ==
  /\ {Timeout, PipeCapacity, OutputLimit, StderrLimit, MaxOutput} \subseteq Nat
  /\ Chunk \in Nat \ {0}

Streams   == {"out", "err"}
Processes == {"child", "helper"}
Limit     == [out |-> OutputLimit, err |-> StderrLimit]

VARIABLES system,     \* "unix" or "windows"
          call,       \* where run_command stands
          clock,      \* start.elapsed()
          process,    \* [Processes -> state]
          grouped,    \* the processes still in the group or job
          holders,    \* [Streams -> processes that hold its write end]
          written,    \* [Streams -> units written so far]
          taken,      \* [Streams -> units read so far]
          eof,        \* the streams seen to their end
          progress,   \* something was read in this turn of the loop
          completion  \* "None", "Exited", "TimedOut", "OutputLimit", "Error"

callVars  == <<call, clock, taken, eof, progress, completion>>
childVars == <<process, grouped, holders, written>>
processVars == <<system, callVars, childVars>>

Alive(p)  == process[p] \in {"suspended", "running"}
Total     == taken["out"] + taken["err"]
Smaller(a, b) == IF a < b THEN a ELSE b
Kept(s)   == Smaller(taken[s], Limit[s])

ProcessInit ==
  /\ system \in {"unix", "windows"}
  /\ call = "Spawn" /\ clock = 0
  /\ process = [p \in Processes |-> "absent"] /\ grouped = {}
  /\ holders = [s \in Streams |-> {}]
  /\ written = [s \in Streams |-> 0] /\ taken = [s \in Streams |-> 0]
  /\ eof = {} /\ progress = FALSE /\ completion = "None"
-----------------------------------------------------------------------------
(***************************************************************************)
(* The caller.                                                             *)
(***************************************************************************)
\* A child that does not start leaves nothing to put down.
SpawnFails ==
  /\ call = "Spawn" /\ call' = "Returned" /\ completion' = "Error"
  /\ UNCHANGED <<system, clock, taken, eof, progress, childVars>>

\* On Windows the child is created suspended, for the job.
Spawn ==
  /\ call = "Spawn"
  /\ process' = [process EXCEPT !["child"] = IF system = "unix" THEN "running" ELSE "suspended"]
  /\ grouped' = IF system = "unix" THEN {"child"} ELSE {}
  /\ holders' = [s \in Streams |-> {"child"}]
  /\ call' = IF system = "unix" THEN "Prepare" ELSE "Assign"
  /\ UNCHANGED <<system, clock, written, taken, eof, progress, completion>>

\* assign_and_resume: either call may fail, and the child is in the job or not.
AssignAndResume ==
  /\ call = "Assign"
  /\ \/ /\ grouped' = {"child"} /\ process' = [process EXCEPT !["child"] = "running"]
        /\ call' = "Prepare" /\ UNCHANGED completion
     \/ /\ grouped' \in {{}, {"child"}}
        /\ call' = "Terminate" /\ completion' = "Error" /\ UNCHANGED process
  /\ UNCHANGED <<system, clock, holders, written, taken, eof, progress>>

\* prepare_pipe, on both.
PreparePipes ==
  /\ call = "Prepare"
  /\ \/ call' = "Deadline" /\ UNCHANGED completion
     \/ call' = "Terminate" /\ completion' = "Error"
  /\ UNCHANGED <<system, clock, taken, eof, progress, childVars>>

\* A mutant: the deadline is the child's, not that of what it started.
CheckDeadlineOfChild ==
  /\ call = "Deadline"
  /\ IF clock >= Timeout /\ Alive("child")
       THEN call' = "Terminate" /\ completion' = "TimedOut" /\ UNCHANGED progress
       ELSE call' = "out" /\ progress' = FALSE /\ UNCHANGED completion
  /\ UNCHANGED <<system, clock, taken, eof, childVars>>

\* The top of the loop.
CheckDeadline ==
  /\ call = "Deadline"
  /\ IF clock >= Timeout
       THEN call' = "Terminate" /\ completion' = "TimedOut" /\ UNCHANGED progress
       ELSE call' = "out" /\ progress' = FALSE /\ UNCHANGED completion
  /\ UNCHANGED <<system, clock, taken, eof, childVars>>

\* drain: one read; nothing there and an interrupted call are not the end.
Read(s) ==
  LET left == written[s] - taken[s]
  IN IF s \in eof THEN UNCHANGED <<taken, eof, progress>>
     ELSE CASE left > 0 -> /\ taken' = [taken EXCEPT ![s] = @ + Smaller(Chunk, left)]
                           /\ progress' = TRUE /\ UNCHANGED eof
            [] left = 0 /\ holders[s] = {} -> eof' = eof \union {s} /\ UNCHANGED <<taken, progress>>
            [] OTHER -> UNCHANGED <<taken, eof, progress>>

Drain(s) ==
  /\ call = s
  /\ \/ /\ Read(s)
        /\ call' = IF s = "out" THEN "err" ELSE "Wait"
        /\ UNCHANGED completion
     \/ /\ s \notin eof
        /\ call' = "Terminate" /\ completion' = "Error"
        /\ UNCHANGED <<taken, eof, progress>>
  /\ UNCHANGED <<system, clock, childVars>>

\* A mutant: the pipes of a child that has exited are taken to be empty.
FinishedWithoutEof == process["child"] \in {"exited", "reaped"}

\* The end of the loop's body: the budget, then the child and both pipes' ends.
Finished == process["child"] \in {"exited", "reaped"} /\ eof = Streams

CheckChild ==
  /\ call = "Wait"
  /\ IF Total > OutputLimit
       THEN call' = "Terminate" /\ completion' = "OutputLimit" /\ UNCHANGED process
       ELSE /\ process' = [process EXCEPT !["child"] = IF @ = "exited" THEN "reaped" ELSE @]
            /\ IF Finished THEN call' = "Terminate" /\ completion' = "Exited"
               ELSE /\ call' = IF progress THEN "Deadline" ELSE "Sleep"
                    /\ UNCHANGED completion
  /\ UNCHANGED <<system, clock, taken, eof, progress, grouped, holders, written>>

\* The clock passes anywhere; the sleep is over no later than the deadline.
Wake ==
  /\ call = "Sleep" /\ call' = "Deadline"
  /\ UNCHANGED <<system, clock, taken, eof, progress, completion, childVars>>

Tick ==
  /\ call \notin {"Spawn", "Returned"} /\ clock < Timeout
  /\ clock' = clock + 1
  /\ UNCHANGED <<system, call, taken, eof, progress, completion, childVars>>

\* What the job's last handle or the signal to the group, then to the child,
\* puts down.
Doomed == {p \in grouped \union {"child"} : Alive(p)}

Terminate ==
  /\ call = "Terminate"
  /\ process' = [p \in Processes |->
                   IF p = "child" THEN "reaped"
                   ELSE IF p \in Doomed THEN "exited"
                   ELSE process[p]]
  /\ holders' = [s \in Streams |-> holders[s] \ (Doomed \union {"child"})]
  /\ call' = "Returned"
  /\ UNCHANGED <<system, clock, taken, eof, progress, completion, grouped, written>>
-----------------------------------------------------------------------------
(***************************************************************************)
(* The command.                                                            *)
(***************************************************************************)
Running(p) == process[p] = "running" /\ UNCHANGED <<system, callVars>>

\* A full pipe blocks its writer.
Write(p, s) ==
  /\ Running(p) /\ p \in holders[s]
  /\ written[s] < MaxOutput /\ written[s] - taken[s] < PipeCapacity
  /\ call # "Returned"
  /\ written' = [written EXCEPT ![s] = @ + 1]
  /\ UNCHANGED <<process, grouped, holders>>

Close(p, s) ==
  /\ Running(p) /\ p \in holders[s]
  /\ holders' = [holders EXCEPT ![s] = @ \ {p}]
  /\ UNCHANGED <<process, grouped, written>>

\* What the child starts inherits its pipes and its group or job.
Fork ==
  /\ Running("child") /\ process["helper"] = "absent"
  /\ process' = [process EXCEPT !["helper"] = "running"]
  /\ grouped' = IF "child" \in grouped THEN grouped \union {"helper"} ELSE grouped
  /\ holders' = [s \in Streams |->
                   IF "child" \in holders[s] THEN holders[s] \union {"helper"} ELSE holders[s]]
  /\ UNCHANGED written

\* setsid: a group can be left, a job cannot.
LeaveGroup ==
  /\ Running("helper") /\ system = "unix"
  /\ grouped' = grouped \ {"helper"} /\ UNCHANGED <<process, holders, written>>

Exit(p) ==
  /\ Running(p)
  /\ process' = [process EXCEPT ![p] = "exited"]
  /\ holders' = [s \in Streams |-> holders[s] \ {p}]
  /\ UNCHANGED <<grouped, written>>

RunCommand ==
  \/ AssignAndResume \/ PreparePipes \/ CheckDeadline
  \/ (\E s \in Streams : Drain(s)) \/ CheckChild \/ Wake \/ Terminate

Command ==
  \/ \E p \in Processes : Exit(p) \/ (\E s \in Streams : Write(p, s) \/ Close(p, s))
  \/ Fork \/ LeaveGroup

ProcessNext == SpawnFails \/ Spawn \/ RunCommand \/ Tick \/ Command

ProcessSpec == ProcessInit /\ [][ProcessNext]_processVars

\* The thread runs and time passes; of the command nothing is assumed.
ProcessFairness == WF_processVars(RunCommand) /\ WF_processVars(Tick)
-----------------------------------------------------------------------------
(***************************************************************************)
(* Properties.                                                             *)
(***************************************************************************)
\* check_output answers with stdout only when the command exited: the text is
\* then all that the command and whatever it started ever wrote, cut nowhere,
\* although the pipes were read in turns while the tree wrote to both.  And by
\* whichever way the call returns, nothing of the command is left running: on
\* Windows nothing at all, on Unix only what left the group.
CommandsSettle ==
  /\ completion = "Exited" =>
       /\ taken = written /\ holders = [s \in Streams |-> {}]
       /\ Kept("out") = written["out"]
  /\ call = "Returned" =>
       \A p \in Processes : Alive(p) => system = "unix" /\ p \notin grouped

\* Once the child is started the call returns, whatever the command does with
\* its pipes: holds them open, floods them, or hands them to a helper.
CallReturns == call # "Spawn" ~> call = "Returned"
=============================================================================
