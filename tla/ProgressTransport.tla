------------------------- MODULE ProgressTransport -------------------------
(***************************************************************************)
(* How a critical operation's worker reports to the terminal interface     *)
(* (src/src/tui/task.rs, task_progress.rs, progress_transport.rs): ordinary *)
(* work snapshots wait in a one-place slot where a newer one replaces them, *)
(* everything else goes through an unbounded channel, and past a budget    *)
(* into a log file whose existence one last notice reports.                *)
(*                                                                         *)
(* Two threads: the worker, and the interface's loop, which drains the     *)
(* channel under the slot's lock and joins the worker while it holds it.   *)
(***************************************************************************)
EXTENDS Integers, Sequences

CONSTANTS
  Scripts,     \* the runs of events a worker may publish
  MaxOps,      \* how many operations are started
  PollLimit,   \* messages one poll takes (512)
  MaxOthers,   \* bound on the answers of other workers in the channel
  Retained     \* events an operation may send before they spill (256)

\* An event belongs to a stream (operation, phase, step and activity) and is
\* "reliable" (never coalesced), "middle" (a snapshot strictly inside its
\* work) or "edge" (a snapshot of no work, or of all of it).
Event == [stream : {"write", "verify"}, kind : {"reliable", "middle", "edge"}]

ASSUME TransportAssumption ==
  /\ Scripts \subseteq Seq(Event)
  /\ MaxOps \in Nat /\ MaxOthers \in Nat
  /\ PollLimit \in Nat \ {0} /\ Retained \in Nat

VARIABLES
  operation, \* active_operation, 0 when there is none
  started,   \* next_operation_id
  worker,    \* what the worker's thread is doing
  style,     \* "slot" for a ProgressPublisher, "direct" for a restore
  script,    \* what the worker will publish if nothing stops it
  published, \* how much of it was published
  sent,      \* retention: events let through
  spilled,   \* retention: events written to the log instead
  slot,      \* the pending snapshot: << >> or <<message>>
  channel,   \* the queue of messages
  ui,        \* what the interface's thread is doing
  taken,     \* messages taken by the running poll
  batch,     \* the updates of the running poll
  seen,      \* the progress of this operation the interface has applied
  answered   \* the interface has applied this operation's result

workerVars == <<worker, style, script, published, sent, spilled>>
uiVars     == <<ui, taken, batch, seen, answered>>
transportVars == <<operation, started, workerVars, slot, channel, uiVars>>

Message(what, at) == [op |-> started, what |-> what, at |-> at]

Coalescible(i) == script[i].kind # "reliable"
SameStream(i, j) == script[i].stream = script[j].stream

\* The slot's lock: the interface has it for a whole poll, the worker for
\* one step.
LockFree == ui \notin {"Polling", "Joining"}
-----------------------------------------------------------------------------
TransportInit ==
  /\ operation = 0 /\ started = 0
  /\ worker = "None" /\ style = "slot" /\ script = << >> /\ published = 0
  /\ sent = 0 /\ spilled = {}
  /\ slot = << >> /\ channel = << >>
  /\ ui = "Idle" /\ taken = 0 /\ batch = << >> /\ seen = << >>
  /\ answered = FALSE

\* begin_operation, then the worker's thread is started.
Begin ==
  /\ ui = "Idle"
  /\ operation = 0
  /\ started < MaxOps
  /\ started' = started + 1
  /\ operation' = started + 1
  /\ worker' = "Publish"
  /\ style' \in {"slot", "direct"}
  /\ script' \in Scripts
  /\ published' = 0 /\ sent' = 0 /\ spilled' = {}
  /\ seen' = << >> /\ answered' = FALSE
  /\ UNCHANGED <<slot, channel, ui, taken, batch>>
-----------------------------------------------------------------------------
(***************************************************************************)
(* The worker.                                                             *)
(***************************************************************************)
\* ProgressPublisher::send on a sequence of messages: what the budget lets
\* through is queued, the rest is spilled.
Send(messages) ==
  LET pass == IF spilled # {} THEN 0
              ELSE IF sent + Len(messages) <= Retained THEN Len(messages)
              ELSE Retained - sent
      rest == SubSeq(messages, pass + 1, Len(messages))
  IN  /\ sent' = sent + pass
      /\ channel' = channel \o SubSeq(messages, 1, pass)
      /\ spilled' = spilled \union {rest[i].at : i \in 1..Len(rest)}

PublishToSlot(i) ==
  LET event == Message("event", i)
      snapshot == script[i].kind = "middle"
      same == slot # << >> /\ slot[1].op = event.op /\ SameStream(slot[1].at, i)
      older == IF snapshot /\ same THEN << >> ELSE slot
  IN  /\ slot' = IF snapshot THEN <<event>> ELSE << >>
      /\ Send(older \o (IF snapshot THEN << >> ELSE <<event>>))

Publish ==
  /\ worker = "Publish"
  /\ published < Len(script)
  /\ published' = published + 1
  /\ \/ style = "slot" /\ LockFree /\ PublishToSlot(published + 1)
     \/ /\ style = "direct"
        /\ channel' = Append(channel, Message("event", published + 1))
        /\ UNCHANGED <<sent, spilled, slot>>
  /\ UNCHANGED <<operation, started, worker, style, script, uiVars>>

\* Wrong variant, to test OperationEnds: the worker leaves the last flush to
\* its end, after the result.
ReturnFlushesLate ==
  /\ worker = "Publish"
  /\ worker' = IF style = "slot" THEN "Flush" ELSE "Report"
  /\ channel' = IF style = "slot" THEN Append(channel, Message("result", 0))
                ELSE channel
  /\ UNCHANGED <<operation, started, style, script, published, sent, spilled,
                 slot, uiVars>>

\* The operation returns, fails early or panics: catch_unwind makes a result
\* of it in every case.
Return ==
  /\ worker = "Publish"
  /\ worker' = IF style = "slot" THEN "Flush" ELSE "Report"
  /\ UNCHANGED <<operation, started, style, script, published, sent, spilled,
                 slot, channel, uiVars>>

\* Wrong variant, to test NothingLostSilently: the slot is cleared, not sent.
FlushForgetsSlot ==
  /\ worker = "Flush"
  /\ LockFree
  /\ channel' = IF spilled = {} THEN channel
                ELSE Append(channel, Message("notice", 0))
  /\ slot' = << >>
  /\ worker' = "Report"
  /\ UNCHANGED <<operation, started, style, script, published, sent, spilled,
                 uiVars>>

\* ProgressPublisher::flush: the slot, then the notice of a spill.  It holds
\* the slot's lock all along.
Flush ==
  /\ worker = "Flush"
  /\ LockFree
  /\ LET queued == SubSeq(slot, 1,
                     IF spilled = {} /\ sent < Retained THEN Len(slot) ELSE 0)
         lost == {slot[i].at : i \in (Len(queued) + 1)..Len(slot)}
     IN  /\ spilled' = spilled \union lost
         /\ sent' = sent + Len(queued)
         /\ channel' = channel \o queued \o
              (IF spilled' = {} THEN << >> ELSE <<Message("notice", 0)>>)
  /\ slot' = << >>
  /\ worker' = "Report"
  /\ UNCHANGED <<operation, started, style, script, published, uiVars>>

Report ==
  /\ worker = "Report"
  /\ channel' = Append(channel, Message("result", 0))
  /\ worker' = "Exit"
  /\ UNCHANGED <<operation, started, style, script, published, sent, spilled,
                 slot, uiVars>>

Exit ==
  /\ worker = "Exit"
  /\ worker' = "None"
  /\ UNCHANGED <<operation, started, style, script, published, sent, spilled,
                 slot, channel, uiVars>>

Worker == Publish \/ Return \/ Flush \/ Report \/ Exit

Other == [op |-> 0, what |-> "other", at |-> 0]

\* A scan or an inspection answers on the same channel (it matters only while
\* an operation's messages are there, too).
OtherAnswer ==
  /\ operation # 0
  /\ Len(SelectSeq(channel, LAMBDA m : m = Other)) < MaxOthers
  /\ channel' = Append(channel, Other)
  /\ UNCHANGED <<operation, started, workerVars, slot, uiVars>>
-----------------------------------------------------------------------------
(***************************************************************************)
(* The interface's loop.                                                   *)
(***************************************************************************)
\* push_progress_coalesced: a snapshot replaces the one before it.
Push(b, m) ==
  LET last == b[Len(b)]
  IN  IF /\ b # << >>
         /\ m.what = "event" /\ Coalescible(m.at)
         /\ last.what = "event" /\ Coalescible(last.at)
         /\ SameStream(last.at, m.at)
      THEN [b EXCEPT ![Len(b)] = m]
      ELSE Append(b, m)

StartPoll ==
  /\ ui = "Idle"
  /\ ui' = "Polling" /\ taken' = 0 /\ batch' = << >>
  /\ UNCHANGED <<operation, started, workerVars, slot, channel, seen, answered>>

TakeMessage ==
  /\ ui = "Polling"
  /\ taken < PollLimit
  /\ channel # << >>
  /\ taken' = taken + 1
  /\ channel' = Tail(channel)
  /\ LET m == Head(channel)
     IN  \/ /\ m.op # operation \/ m = Other
            /\ UNCHANGED <<ui, batch>>
         \/ /\ m.op = operation /\ m.what \in {"event", "notice"}
            /\ batch' = IF style = "slot" THEN Push(batch, m)
                                          ELSE Append(batch, m)
            /\ UNCHANGED ui
         \/ /\ m.op = operation /\ m.what = "result"
            /\ ui' = "Joining"
            /\ UNCHANGED batch
  /\ UNCHANGED <<operation, started, workerVars, slot, seen, answered>>

\* finish_operation: the worker's thread is joined under the slot's lock.
Join ==
  /\ ui = "Joining"
  /\ worker = "None"
  /\ operation' = 0
  /\ answered' = TRUE
  /\ ui' = "Polling"
  /\ UNCHANGED <<started, workerVars, slot, channel, taken, batch, seen>>

\* Wrong variant, to test NeverBackwards: the slot is drained although
\* messages are left in the queue.
EndPollAlwaysDrains ==
  /\ ui = "Polling"
  /\ taken = PollLimit \/ channel = << >>
  /\ LET pending == IF slot # << >> /\ slot[1].op = operation
                    THEN Push(batch, slot[1]) ELSE batch
     IN  /\ slot' = << >>
         /\ seen' = seen \o pending
  /\ ui' = "Idle" /\ taken' = 0 /\ batch' = << >>
  /\ UNCHANGED <<operation, started, workerVars, channel, answered>>

\* The slot is drained only when the queue is known to be empty; then
\* apply_task_updates shows the batch.
EndPoll ==
  /\ ui = "Polling"
  /\ taken = PollLimit \/ channel = << >>
  /\ LET drains == taken < PollLimit
         pending == IF drains /\ slot # << >> /\ slot[1].op = operation
                    THEN Push(batch, slot[1]) ELSE batch
     IN  /\ slot' = IF drains THEN << >> ELSE slot
         /\ seen' = seen \o pending
  /\ ui' = "Idle" /\ taken' = 0 /\ batch' = << >>
  /\ UNCHANGED <<operation, started, workerVars, channel, answered>>

\* Wrong variant, to test TerminalLossWaits: the loop's error is returned
\* at once.
TerminalFailsAtOnce ==
  /\ ui = "Idle"
  /\ ui' = "Gone"
  /\ UNCHANGED <<operation, started, workerVars, slot, channel, taken, batch,
                 seen, answered>>

\* Drawing, polling or reading the terminal fails: the loop ends, and a
\* critical worker is waited for.
TerminalFails ==
  /\ ui = "Idle"
  /\ ui' = IF operation # 0 THEN "Waiting" ELSE "Gone"
  /\ UNCHANGED <<operation, started, workerVars, slot, channel, taken, batch,
                 seen, answered>>

\* wait_for_critical_operation.
Waited ==
  /\ ui = "Waiting"
  /\ worker = "None"
  /\ ui' = "Gone"
  /\ operation' = 0
  /\ UNCHANGED <<started, workerVars, slot, channel, taken, batch, seen,
                 answered>>

Interface == StartPoll \/ TakeMessage \/ Join \/ EndPoll \/ Waited

TransportNext == Begin \/ Worker \/ OtherAnswer \/ Interface \/ TerminalFails

\* Both threads run, and an operation's device calls return.  The worker may
\* find the slot's lock taken, but not for ever: between two polls the
\* interface draws and waits for a key without it.  Nothing obliges the user
\* to start an operation, or the terminal to fail.
TransportSpec ==
  /\ TransportInit /\ [][TransportNext]_transportVars
  /\ SF_transportVars(Worker) /\ WF_transportVars(Interface)
-----------------------------------------------------------------------------
Shown == {seen[k].at : k \in {j \in 1..Len(seen) : seen[j].what = "event"}}

Told == \E k \in 1..Len(seen) : seen[k].what = "notice"

\* What the user can still read: on the screen, or in the log he was told of.
Kept == IF Told THEN Shown \union spilled ELSE Shown

\* A later snapshot of its stream is kept, and nothing shown lies between.
Superseded(i) ==
  /\ Coalescible(i)
  /\ \E j \in Kept :
        /\ i < j /\ Coalescible(j) /\ SameStream(i, j)
        /\ \A k \in (i + 1)..(j - 1) : k \notin Shown

(***************************************************************************)
(* When the interface shows an operation's result it can account for every *)
(* published event: it has shown it, or told that it is in the log, or has  *)
(* done so with a later snapshot in its place.  An event that is no         *)
(* snapshot is never replaced, and a snapshot only by one that follows it   *)
(* without a change of stream or a diagnostic on the screen between them.   *)
(***************************************************************************)
NothingLostSilently ==
  answered /\ ui = "Idle" =>
    \A i \in 1..published : i \in Kept \/ Superseded(i)

(***************************************************************************)
(* The interface shows an operation's events in the order of their         *)
(* publication although they take two ways, and the notice after them.     *)
(***************************************************************************)
NeverBackwards ==
  \A j, k \in 1..Len(seen) :
    j < k => seen[j].what = "event" /\
             (seen[k].what = "event" => seen[j].at < seen[k].at)

(***************************************************************************)
(* Losing the terminal does not abandon a worker between a write and its   *)
(* rollback: the loop's error goes on to the end of the process only when  *)
(* no worker runs.  The loop asks whether an operation is counted, so none *)
(* may run while none is counted.  An exit that the user asks for is not   *)
(* of this module: see OperationGate.                                      *)
(***************************************************************************)
TerminalLossWaits == operation = 0 \/ ui = "Gone" => worker = "None"

(***************************************************************************)
(* The join under the slot's lock cannot deadlock with the worker's last   *)
(* flush: every operation ends for the interface.                          *)
(***************************************************************************)
OperationEnds == operation # 0 ~> operation = 0
=============================================================================
