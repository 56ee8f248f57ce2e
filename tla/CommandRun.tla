----------------------------- MODULE CommandRun -----------------------------
(***************************************************************************)
(* One shell command and the threads that run it: with pipes               *)
(* (core/src/tools/shell.rs, execute_child) or on a pseudo-terminal        *)
(* (core/src/tools/pty.rs, spawn_pty) whose events a consumer reads.       *)
(*                                                                         *)
(* The command is a leader, sh, that may start a helper.  Output comes in  *)
(* chunks; stdout and stderr are one stream, as each has a reader thread   *)
(* of its own.  The waiter polls the leader, its deadline and the          *)
(* cancellation token, signals the process group and reaps; the reader     *)
(* drains the stream meanwhile.                                            *)
(***************************************************************************)
EXTENDS Integers, Sequences, FiniteSetsExt

CONSTANTS
    PipeSize,     \* chunks the pipe or terminal holds
    OutputCap,    \* MAX_TOOL_OUTPUT, max_output: chunks that are kept
    ChannelSize,  \* events the channel holds
    MaxChunks     \* bound: chunks the command ever writes

ASSUME CommandAssumption ==
    {PipeSize, OutputCap, ChannelSize, MaxChunks} \subseteq Nat \ {0}

VARIABLES
    mode,       \* "pipe" or "pty"
    proc,       \* [Procs -> "none", "run", "zombie", "gone"]: gone is reaped
    deaf,       \* the processes that ignore SIGINT and SIGHUP
    away,       \* the helper has left the process group
    pipe, made, \* chunks written and not read, chunks written
    due,        \* the deadline has passed
    cancelled,  \* the token is set
    waiter,     \* [pc, verdict, cut]: cut says that the grace of the drain ended first
    reader,     \* "none", "top", "read", "got", "send", "notice", "done"
    kept,       \* chunks in the buffer, or forwarded
    terminal_sent,
    sent, taken, \* the events sent, and how many were received
    consumer    \* "on" or "off"

tree == <<proc, away, pipe, made>>
channel == <<sent, taken, consumer>>
fixed == <<mode, deaf>>
vars == <<fixed, tree, due, cancelled, waiter, reader, kept, terminal_sent, channel>>

Procs == {"leader", "helper"}
Terminals == {"exited", "cancelled", "timed_out", "error"}

Running == {p \in Procs : proc[p] = "run"}

----------------------------------------------------------------------------
(* The processes *)

\* Processes that end: the leader waits to be reaped by us.
Ended(S) ==
    [p \in Procs |-> IF p \notin S THEN proc[p] ELSE IF p = "leader" THEN "zombie" ELSE "gone"]

InGroup(p) == p = "leader" \/ ~ away

\* Whom a signal to the group ends.
Struck(signal) == {p \in Running : InGroup(p) /\ (signal = "KILL" \/ p \notin deaf)}

\* The leader starts a helper, perhaps in a session of its own.
Fork ==
    /\ proc["leader"] = "run"
    /\ proc["helper"] = "none"
    /\ proc' = [proc EXCEPT !["helper"] = "run"]
    /\ away' \in BOOLEAN
    /\ UNCHANGED <<fixed, pipe, made, due, cancelled, waiter, reader, kept, terminal_sent, channel>>

\* run_pty keeps both ends of the terminal until it returns.
KeptOpen == mode = "pty" /\ waiter.pc \notin {"spawn", "report", "done"}

\* The reader has the other end, or is about to be given it.
ReadEndOpen == reader \notin {"none", "done"} \/ waiter.pc = "readers" \/ KeptOpen

\* A writer that finds the pipe full waits.
Write(p) ==
    /\ p \in Running
    /\ ReadEndOpen
    /\ made < MaxChunks
    /\ pipe < PipeSize
    /\ pipe' = pipe + 1
    /\ made' = made + 1
    /\ UNCHANGED <<fixed, proc, away, due, cancelled, waiter, reader, kept, terminal_sent, channel>>

\* When the leader of a terminal's session ends, the group is hung up.
Exit(p) ==
    /\ p \in Running
    /\ proc' = Ended({p} \cup IF p = "leader" /\ mode = "pty" THEN Struck("HUP") ELSE {})
    /\ UNCHANGED <<fixed, away, pipe, made, due, cancelled, waiter, reader, kept, terminal_sent,
                   channel>>

----------------------------------------------------------------------------
(* The waiter *)

At(pc) == waiter.pc = pc

Goto(pc) == waiter' = [waiter EXCEPT !.pc = pc]

Decide(pc, verdict) == waiter' = [waiter EXCEPT !.pc = pc, !.verdict = verdict]

Reap == proc' = [proc EXCEPT !["leader"] = "gone"]

\* Where a run goes on that has no reader to wait for, or has waited for it.
Concluded(verdict) ==
    IF mode = "pipe" THEN "return" ELSE IF verdict = "error" THEN "report" ELSE "mark"

AfterWait(verdict) == IF reader = "none" THEN Concluded(verdict) ELSE "drain"

Spawn ==
    /\ At("spawn")
    /\ Goto("readers")
    /\ proc' = [proc EXCEPT !["leader"] = "run"]
    /\ UNCHANGED <<fixed, away, pipe, made, due, cancelled, reader, kept, terminal_sent, channel>>

SpawnFails ==
    /\ At("spawn")
    /\ Decide(Concluded("error"), "error")
    /\ UNCHANGED <<fixed, tree, due, cancelled, reader, kept, terminal_sent, channel>>

spawn_pipe_readers ==
    /\ At("readers")
    /\ Goto("poll")
    /\ reader' = IF mode = "pipe" THEN "read" ELSE "top"
    /\ UNCHANGED <<fixed, tree, due, cancelled, kept, terminal_sent, channel>>

\* A terminal whose reading end cannot be cloned: the run is given up and the
\* child left as it is, neither killed nor reaped.
ReaderNotCloned ==
    /\ At("readers")
    /\ mode = "pty"
    /\ Decide("report", "error")
    /\ UNCHANGED <<fixed, tree, due, cancelled, reader, kept, terminal_sent, channel>>

\* No thread: the child is killed (with its group on a terminal) and reaped.
NoReader ==
    /\ At("readers")
    /\ Decide("wait", "error")
    /\ proc' = Ended(IF mode = "pipe" THEN Running \cap {"leader"} ELSE Struck("KILL"))
    /\ UNCHANGED <<fixed, away, pipe, made, due, cancelled, reader, kept, terminal_sent, channel>>

\* try_wait reaps a leader that has ended ...
PollExited ==
    /\ At("poll")
    /\ proc["leader"] = "zombie"
    /\ Reap
    /\ Decide("drain", "exited")
    /\ UNCHANGED <<fixed, away, pipe, made, due, cancelled, reader, kept, terminal_sent, channel>>

\* ... and otherwise cancellation comes before the deadline.
PollStops ==
    /\ At("poll")
    /\ proc["leader"] = "run"
    /\ \/ mode = "pty" /\ cancelled /\ Decide("interrupt", "cancelled")
       \/ mode = "pty" /\ ~ cancelled /\ due /\ Decide("interrupt", "timed_out")
       \/ mode = "pipe" /\ due /\ Decide("kill", "timed_out")
    /\ UNCHANGED <<fixed, tree, due, cancelled, reader, kept, terminal_sent, channel>>

PollFails ==
    /\ At("poll")
    /\ Decide("kill", "error")
    /\ UNCHANGED <<fixed, tree, due, cancelled, reader, kept, terminal_sent, channel>>

Interrupt ==
    /\ At("interrupt")
    /\ Goto("grace")
    /\ proc' = Ended(Struck("INT"))
    /\ UNCHANGED <<fixed, away, pipe, made, due, cancelled, reader, kept, terminal_sent, channel>>

\* Mutant: the group is killed after the grace in any case.
wait_for_exit_escalates ==
    /\ At("grace")
    /\ proc["leader"] = "zombie"
    /\ Reap
    /\ Goto("kill")
    /\ UNCHANGED <<fixed, away, pipe, made, due, cancelled, reader, kept, terminal_sent, channel>>

\* The leader ends within the grace, and is reaped.
wait_for_exit ==
    /\ At("grace")
    /\ proc["leader"] = "zombie"
    /\ Reap
    /\ Goto("drain")
    /\ UNCHANGED <<fixed, away, pipe, made, due, cancelled, reader, kept, terminal_sent, channel>>

KillGraceOver ==
    /\ At("grace")
    /\ proc["leader"] = "run"
    /\ Goto("kill")
    /\ UNCHANGED <<fixed, tree, due, cancelled, reader, kept, terminal_sent, channel>>

terminate_group ==
    /\ At("kill")
    /\ Goto("wait")
    /\ proc' = Ended(Struck("KILL"))
    /\ UNCHANGED <<fixed, away, pipe, made, due, cancelled, reader, kept, terminal_sent, channel>>

Wait ==
    /\ At("wait")
    /\ proc["leader"] = "zombie"
    /\ Reap
    /\ Goto(AfterWait(waiter.verdict))
    /\ UNCHANGED <<fixed, away, pipe, made, due, cancelled, reader, kept, terminal_sent, channel>>

\* Waiting goes on failing after a failed poll.
WaitFails ==
    /\ At("wait")
    /\ waiter.verdict = "error"
    /\ Goto(AfterWait("error"))
    /\ UNCHANGED <<fixed, tree, due, cancelled, reader, kept, terminal_sent, channel>>

\* Mutant: the output is taken as soon as the child has ended.
join_readers_skipped ==
    /\ At("drain")
    /\ Goto(Concluded(waiter.verdict))
    /\ UNCHANGED <<fixed, tree, due, cancelled, reader, kept, terminal_sent, channel>>

\* join_readers, wait_reader_done: the reader is done ...
join_readers ==
    /\ At("drain")
    /\ reader = "done"
    /\ Goto(Concluded(waiter.verdict))
    /\ UNCHANGED <<fixed, tree, due, cancelled, reader, kept, terminal_sent, channel>>

\* ... or the grace is over.
DrainGraceOver ==
    /\ At("drain")
    /\ waiter' = [waiter EXCEPT !.pc = Concluded(waiter.verdict), !.cut = TRUE]
    /\ UNCHANGED <<fixed, tree, due, cancelled, reader, kept, terminal_sent, channel>>

\* The buffer is read and the call returns.
Return ==
    /\ At("return")
    /\ Goto("done")
    /\ UNCHANGED <<fixed, tree, due, cancelled, reader, kept, terminal_sent, channel>>

\* Mutant: a receiver that is gone is waited for.
CanSend_receiver_only == Len(sent) - taken < ChannelSize

\* A send waits for room; without a receiver it is dropped.
CanSend == consumer # "on" \/ Len(sent) - taken < ChannelSize

Send(event) ==
    /\ CanSend
    /\ sent' = IF consumer = "on" THEN Append(sent, event) ELSE sent
    /\ UNCHANGED <<taken, consumer>>

\* emit_terminal marks first and sends then.
emit_terminal ==
    /\ At("mark")
    /\ terminal_sent' = TRUE
    /\ Goto("send")
    /\ UNCHANGED <<fixed, tree, due, cancelled, reader, kept, channel>>

SendTerminal ==
    /\ At("send")
    /\ Send(waiter.verdict)
    /\ Goto("done")
    /\ UNCHANGED <<fixed, tree, due, cancelled, reader, kept, terminal_sent>>

\* Mutant: the worker drops the error.
run_pty_worker_silent ==
    /\ At("report")
    /\ Goto("done")
    /\ UNCHANGED <<fixed, tree, due, cancelled, reader, kept, terminal_sent, channel>>

\* The worker reports the error of a run that sent no terminal event; the mark
\* is not set.
run_pty_worker ==
    /\ At("report")
    /\ IF terminal_sent THEN UNCHANGED channel ELSE Send("error")
    /\ Goto("done")
    /\ UNCHANGED <<fixed, tree, due, cancelled, reader, kept, terminal_sent>>

----------------------------------------------------------------------------
(* The reader thread *)

AtEOF == pipe = 0 /\ Running = {} /\ ~ KeptOpen

\* Mutant: a full buffer pushes back.
drain_into_until_full ==
    /\ mode = "pipe" /\ reader = "read"
    /\ kept < OutputCap
    /\ pipe > 0
    /\ pipe' = pipe - 1
    /\ kept' = kept + 1
    /\ UNCHANGED <<fixed, proc, away, made, due, cancelled, waiter, reader, terminal_sent, channel>>

\* What does not fit is read and dropped.
drain_into ==
    /\ mode = "pipe" /\ reader = "read"
    /\ pipe > 0
    /\ pipe' = pipe - 1
    /\ kept' = Min({kept + 1, OutputCap})
    /\ UNCHANGED <<fixed, proc, away, made, due, cancelled, waiter, reader, terminal_sent, channel>>

\* read_loop stops at the mark ...
CheckMark ==
    /\ mode = "pty"
    /\ \/ reader = "top" /\ reader' = IF terminal_sent THEN "done" ELSE "read"
       \/ reader = "got" /\ reader' = IF terminal_sent THEN "done"
                                      ELSE IF kept < OutputCap THEN "send" ELSE "top"
    /\ UNCHANGED <<fixed, tree, due, cancelled, waiter, kept, terminal_sent, channel>>

ReadChunk ==
    /\ mode = "pty" /\ reader = "read"
    /\ pipe > 0
    /\ pipe' = pipe - 1
    /\ reader' = "got"
    /\ UNCHANGED <<fixed, proc, away, made, due, cancelled, waiter, kept, terminal_sent, channel>>

\* ... which is checked before a send that may have to wait.  The last chunk
\* that is kept may be cut, and a notice follows.
Forward ==
    /\ reader = "send"
    /\ Send("output")
    /\ kept' = kept + 1
    /\ reader' \in IF kept' = OutputCap THEN {"top", "notice"} ELSE {"top"}
    /\ UNCHANGED <<fixed, tree, due, cancelled, waiter, terminal_sent>>

Notice ==
    /\ reader = "notice"
    /\ IF terminal_sent THEN UNCHANGED channel ELSE Send("output")
    /\ reader' = "top"
    /\ UNCHANGED <<fixed, tree, due, cancelled, waiter, kept, terminal_sent>>

ReadEOF ==
    /\ reader = "read"
    /\ AtEOF
    /\ reader' = "done"
    /\ UNCHANGED <<fixed, tree, due, cancelled, waiter, kept, terminal_sent, channel>>

----------------------------------------------------------------------------
(* The consumer, the clock and the user *)

\* execute_stream reads up to the first terminal event.
Receive ==
    /\ consumer = "on"
    /\ taken < Len(sent)
    /\ taken' = taken + 1
    /\ consumer' = IF sent[taken + 1] \in Terminals THEN "off" ELSE "on"
    /\ UNCHANGED <<fixed, tree, due, cancelled, waiter, reader, kept, terminal_sent, sent>>

\* Whoever reads the stream drops it.
HangUp ==
    /\ mode = "pty" /\ consumer = "on"
    /\ consumer' = "off"
    /\ UNCHANGED <<fixed, tree, due, cancelled, waiter, reader, kept, terminal_sent, sent, taken>>

DeadlinePasses ==
    /\ ~ due
    /\ due' = TRUE
    /\ UNCHANGED <<fixed, tree, cancelled, waiter, reader, kept, terminal_sent, channel>>

Cancel ==
    /\ mode = "pty" /\ ~ cancelled
    /\ cancelled' = TRUE
    /\ UNCHANGED <<fixed, tree, due, waiter, reader, kept, terminal_sent, channel>>

----------------------------------------------------------------------------
Init ==
    /\ mode \in {"pipe", "pty"}
    /\ deaf \in SUBSET Procs
    /\ proc = [p \in Procs |-> "none"]
    /\ away = FALSE
    /\ pipe = 0 /\ made = 0
    /\ due = FALSE /\ cancelled = FALSE
    /\ waiter = [pc |-> "spawn", verdict |-> "none", cut |-> FALSE]
    /\ reader = "none" /\ kept = 0
    /\ terminal_sent = FALSE
    /\ sent = << >> /\ taken = 0 /\ consumer = "on"

WaiterStep ==
    \/ Spawn \/ spawn_pipe_readers
    \/ PollExited \/ PollStops
    \/ Interrupt \/ wait_for_exit \/ KillGraceOver
    \/ terminate_group \/ Wait
    \/ join_readers \/ DrainGraceOver
    \/ Return \/ emit_terminal \/ SendTerminal \/ run_pty_worker

WaiterFault == SpawnFails \/ ReaderNotCloned \/ NoReader \/ PollFails \/ WaitFails

ReaderStep == drain_into \/ CheckMark \/ ReadChunk \/ Forward \/ Notice \/ ReadEOF

Next ==
    \/ Fork
    \/ \E p \in Procs : Write(p) \/ Exit(p)
    \/ WaiterStep
    \/ WaiterFault
    \/ ReaderStep
    \/ Receive
    \/ HangUp
    \/ DeadlinePasses
    \/ Cancel

\* Threads run, time passes and the consumer goes on receiving; processes need
\* not do anything.
Fairness ==
    /\ WF_vars(WaiterStep)
    /\ WF_vars(ReaderStep)
    /\ WF_vars(Receive)
    /\ WF_vars(DeadlinePasses)

Spec == Init /\ [][Next]_vars /\ Fairness

----------------------------------------------------------------------------
(* Properties *)

\* A run on a terminal sends one terminal event, whichever of exit, cancel,
\* deadline and failure come together, and when all senders are gone a receiver
\* that is still there finds one (emit_terminal, run_pty_worker).
EndsOnce ==
    LET endings == {i \in DOMAIN sent : sent[i] \in Terminals}
    IN  /\ Cardinality(endings) <= 1
        /\ mode = "pty" /\ At("done") /\ reader \in {"none", "done"} /\ consumer = "on"
              => endings # {}

\* A command that has exited returns all its output up to the cap, unless
\* some process held the stream open past the grace (join_readers).
CompleteOutput ==
    mode = "pipe" /\ At("return") /\ waiter.verdict = "exited" /\ ~ waiter.cut
    => kept = Min({made, OutputCap})

\* The group is never signalled after its leader was reaped, when its id may be
\* somebody else's already.
SignalsOwnGroup == waiter.pc \in {"interrupt", "kill"} => proc["leader"] # "gone"

\* Every run ends, whatever its processes ignore, keep open or write, and its
\* consumer is released.
RunsEnd == <>(At("done") /\ (mode = "pty" => consumer # "on"))

\* No writer waits for ever on a full pipe: the stream is drained past the cap,
\* during and after the run, and while the consumer is slow.
WriterNotStuck ==
    pipe = PipeSize /\ Running # {} ~> pipe < PipeSize \/ Running = {} \/ ~ ReadEndOpen
=============================================================================
