---------------------------- MODULE SandboxProofs ----------------------------
(***************************************************************************)
(* Proofs about what sandbox_test and sandbox_build do.  First CommandRun: *)
(* for every size of the pipe, the buffer and the channel, any amount of   *)
(* output and any interleaving of the processes, the waiter, the reader    *)
(* and the consumer.  Then EvidenceJournal: for any workspace, any         *)
(* invocations and retention limits, and any number of handlers, recorded  *)
(* runs, edits, commits and corruptions of the file.                       *)
(***************************************************************************)
EXTENDS CommandRun, EvidenceJournal, TLAPS, FiniteSetTheorems, SequenceTheorems,
        WellFoundedInduction

----------------------------------------------------------------------------
(* Type correctness *)

Pcs == {"spawn", "readers", "poll", "interrupt", "grace", "kill", "wait", "drain",
        "return", "mark", "send", "report", "done"}

WaiterRecord == [pc : Pcs, verdict : Terminals \cup {"none"}, cut : BOOLEAN]

ReaderStates == {"none", "top", "read", "got", "send", "notice", "done"}

Events == Terminals \cup {"output"}

ProcStates == {"none", "run", "zombie", "gone"}

TypeOK ==
    /\ mode \in {"pipe", "pty"}
    /\ proc \in [Procs -> ProcStates]
    /\ pipe \in Nat /\ made \in Nat /\ kept \in Nat
    /\ waiter \in WaiterRecord
    /\ reader \in ReaderStates
    /\ sent \in Seq(Events)
    /\ taken \in 0 .. Len(sent)
    /\ consumer \in {"on", "off"}

\* What the edits of the waiter's record do.
LEMMA GotoFields ==
    ASSUME waiter \in WaiterRecord, NEW pc \in Pcs, Goto(pc)
    PROVE  /\ waiter' \in WaiterRecord
           /\ waiter'.pc = pc
           /\ waiter'.verdict = waiter.verdict
           /\ waiter'.cut = waiter.cut
  BY DEF Goto, WaiterRecord

LEMMA DecideFields ==
    ASSUME waiter \in WaiterRecord, NEW pc \in Pcs, NEW v \in Terminals, Decide(pc, v)
    PROVE  /\ waiter' \in WaiterRecord
           /\ waiter'.pc = pc
           /\ waiter'.verdict = v
           /\ waiter'.cut = waiter.cut
  BY DEF Decide, WaiterRecord

LEMMA CutFields ==
    ASSUME waiter \in WaiterRecord, NEW pc \in Pcs,
           waiter' = [waiter EXCEPT !.pc = pc, !.cut = TRUE]
    PROVE  /\ waiter' \in WaiterRecord
           /\ waiter'.pc = pc
           /\ waiter'.verdict = waiter.verdict
           /\ waiter'.cut = TRUE
  BY DEF WaiterRecord

LEMMA ConcludedPc == ASSUME NEW v PROVE Concluded(v) \in {"return", "report", "mark"}
  BY DEF Concluded

LEMMA SendEffect ==
    ASSUME NEW e \in Events, TypeOK, Send(e)
    PROVE  /\ sent' \in Seq(Events)
           /\ taken' = taken /\ taken' \in 0 .. Len(sent')
           /\ consumer' = consumer
           /\ Len(sent') \in {Len(sent), Len(sent) + 1}
           /\ \A i \in DOMAIN sent : i \in DOMAIN sent' /\ sent'[i] = sent[i]
           /\ \A i \in DOMAIN sent' : i \in DOMAIN sent \/ (i = Len(sent) + 1 /\ sent'[i] = e)
           /\ consumer = "on" => Len(sent) + 1 \in DOMAIN sent' /\ sent'[Len(sent) + 1] = e
  BY DEF Send, TypeOK

\* What happens to the processes.
LEMMA ProcTypes ==
    ASSUME TypeOK
    PROVE  /\ \A S : Ended(S) \in [Procs -> ProcStates]
           /\ [proc EXCEPT !["leader"] = "gone"] \in [Procs -> ProcStates]
           /\ [proc EXCEPT !["leader"] = "run"] \in [Procs -> ProcStates]
           /\ [proc EXCEPT !["helper"] = "run"] \in [Procs -> ProcStates]
           /\ [proc EXCEPT !["leader"] = "run"]["leader"] = "run"
           /\ [proc EXCEPT !["helper"] = "run"]["leader"] = proc["leader"]
  BY DEF TypeOK, Ended, Procs, ProcStates

LEMMA EndedLeader ==
    ASSUME TypeOK, NEW S \in SUBSET Running
    PROVE  Ended(S)["leader"] \in {proc["leader"], "zombie"}
  BY DEF TypeOK, Ended, Procs, Running

LEMMA StruckRun == ASSUME NEW signal PROVE Struck(signal) \in SUBSET Running
  BY DEF Struck

\* Min of two numbers, as the buffer uses it.
LEMMA MinOfTwo ==
    ASSUME NEW a \in Nat, NEW b \in Nat
    PROVE  Min({a, b}) = IF a <= b THEN a ELSE b
  BY DEF Min

----------------------------------------------------------------------------
(* The inductive invariant *)

\* There is a verdict once the polling is over, and the leader did not exit by
\* itself when it has to be stopped.
VerdictInv ==
    /\ waiter.pc \notin {"spawn", "readers", "poll"} => waiter.verdict \in Terminals
    /\ waiter.pc \in {"interrupt", "grace", "kill", "wait"} => waiter.verdict # "exited"

\* Up to the last signal the leader has not been reaped.
GroupInv ==
    waiter.pc \in {"readers", "poll", "interrupt", "grace", "kill"}
        => proc["leader"] \in {"run", "zombie"}

IsEnding(i) == sent[i] \in Terminals

\* The terminal event is the last thing the worker sends, and only a receiver
\* that is gone misses it.
EndingInv ==
    /\ waiter.pc = "return" => mode = "pipe"
    /\ terminal_sent => waiter.pc \in {"send", "done"}
    /\ waiter.pc # "done" => \A i \in DOMAIN sent : ~ IsEnding(i)
    /\ \A i, j \in DOMAIN sent : IsEnding(i) /\ IsEnding(j) => i = j
    /\ mode = "pty" /\ waiter.pc = "done" /\ consumer = "on"
          => \E i \in DOMAIN sent : IsEnding(i)

\* What a pipe's reader has kept is what it has read, up to the cap; it is done
\* when nothing is left, and nothing is written after that.
OutputInv ==
    /\ waiter.pc \in {"spawn", "readers"} => reader = "none"
    /\ mode = "pipe" =>
          /\ reader \in {"none", "read", "done"}
          /\ pipe <= made
          /\ kept = IF made - pipe <= OutputCap THEN made - pipe ELSE OutputCap
          /\ reader = "done" => pipe = 0
          /\ waiter.pc = "return" /\ waiter.verdict = "exited" /\ ~ waiter.cut
                => reader = "done"

IInv == TypeOK /\ VerdictInv /\ GroupInv /\ EndingInv /\ OutputInv

\* What a send adds to the events.
LEMMA OutputSent ==
    ASSUME TypeOK, EndingInv, Send("output"), UNCHANGED <<mode, waiter, terminal_sent>>
    PROVE  EndingInv'
  BY SendEffect DEF TypeOK, EndingInv, IsEnding, Events, Terminals

LEMMA EndingSent ==
    ASSUME TypeOK, EndingInv, NEW e \in Terminals, Send(e),
           waiter.pc # "done", waiter'.pc = "done", mode' = mode
    PROVE  EndingInv'
  <1> USE DEF IsEnding
  <1>1. \A i \in DOMAIN sent' : i \notin DOMAIN sent => i = Len(sent) + 1
    BY SendEffect DEF Events
  <1>2. \A i \in DOMAIN sent : sent'[i] \notin Terminals
    BY SendEffect DEF Events, EndingInv
  <1>3. consumer' = "on" => Len(sent) + 1 \in DOMAIN sent' /\ sent'[Len(sent) + 1] \in Terminals
    BY SendEffect DEF Events, TypeOK
  <1> QED
    BY <1>1, <1>2, <1>3 DEF EndingInv

LEMMA WaiterPreserves ==
    ASSUME IInv, WaiterStep
    PROVE  IInv'
  <1> USE GotoFields, DecideFields, CutFields, ConcludedPc, ProcTypes, EndedLeader,
          StruckRun, SendEffect, CommandAssumption, MinOfTwo DEF TypeOK, VerdictInv, GroupInv, EndingInv, IsEnding, OutputInv, IInv,
          channel, fixed, tree
  <1>1. CASE Spawn
    BY <1>1 DEF Spawn, At, Pcs
  <1>2. CASE spawn_pipe_readers
    BY <1>2 DEF spawn_pipe_readers, At, Pcs, ReaderStates
  <1>3. CASE PollExited
    BY <1>3 DEF PollExited, At, Reap, Pcs, Terminals
  <1>4. CASE PollStops
    BY <1>4 DEF PollStops, At, Pcs, Terminals
  <1>5. CASE Interrupt
    BY <1>5 DEF Interrupt, At, Pcs
  <1>6. CASE wait_for_exit
    BY <1>6 DEF wait_for_exit, At, Reap, Pcs
  <1>7. CASE KillGraceOver
    BY <1>7 DEF KillGraceOver, At, Pcs
  <1>8. CASE terminate_group
    BY <1>8 DEF terminate_group, At, Pcs
  <1>9. CASE Wait
    BY <1>9 DEF Wait, At, Reap, Pcs, AfterWait, Concluded
  <1>10. CASE join_readers
    BY <1>10 DEF join_readers, At, Pcs, Concluded
  <1>11. CASE DrainGraceOver
    BY <1>11 DEF DrainGraceOver, At, Pcs, Concluded
  <1>12. CASE Return
    BY <1>12 DEF Return, At, Pcs
  <1>13. CASE emit_terminal
    BY <1>13 DEF emit_terminal, At, Pcs
  <1>14. CASE SendTerminal
    <2>1. TypeOK' /\ waiter'.pc = "done"
      BY <1>14 DEF SendTerminal, At, Pcs, Events
    <2>2. EndingInv'
      BY <1>14, <2>1, EndingSent DEF SendTerminal, At, Pcs
    <2> QED
      BY <1>14, <2>1, <2>2 DEF SendTerminal, At, Pcs
  <1>15. CASE run_pty_worker
    BY <1>15, EndingSent DEF run_pty_worker, At, Pcs, Events, Terminals
  <1> QED
    BY <1>1, <1>2, <1>3, <1>4, <1>5, <1>6, <1>7, <1>8, <1>9, <1>10, <1>11, <1>12, <1>13, <1>14, <1>15 DEF WaiterStep

LEMMA FaultPreserves ==
    ASSUME IInv, WaiterFault
    PROVE  IInv'
  <1> USE GotoFields, DecideFields, CutFields, ConcludedPc, ProcTypes, EndedLeader,
          StruckRun, SendEffect, CommandAssumption, MinOfTwo DEF TypeOK, VerdictInv, GroupInv, EndingInv, IsEnding, OutputInv, IInv,
          channel, fixed, tree
  <1>1. CASE SpawnFails
    BY <1>1 DEF SpawnFails, At, Pcs, Concluded, Terminals
  <1>2. CASE NoReader
    BY <1>2 DEF NoReader, At, Pcs, Terminals
  <1>3. CASE ReaderNotCloned
    BY <1>3 DEF ReaderNotCloned, At, Pcs, Terminals
  <1>4. CASE PollFails
    BY <1>4 DEF PollFails, At, Pcs, Terminals
  <1>5. CASE WaitFails
    BY <1>5 DEF WaitFails, At, Pcs, AfterWait, Concluded
  <1> QED
    BY <1>1, <1>2, <1>3, <1>4, <1>5 DEF WaiterFault

LEMMA ReaderPreserves ==
    ASSUME IInv, ReaderStep
    PROVE  IInv'
  <1> USE DEF IInv
  <1>1. CASE drain_into
    <2> USE <1>1 DEF drain_into, fixed, channel
    <2>1. kept' = IF kept + 1 <= OutputCap THEN kept + 1 ELSE OutputCap
      BY MinOfTwo, CommandAssumption DEF TypeOK
    <2>2. pipe' = pipe - 1 /\ pipe > 0 /\ made' = made /\ reader' = "read" /\ mode' = "pipe"
      OBVIOUS
    <2>3. TypeOK'
      BY <2>1, <2>2, CommandAssumption DEF TypeOK
    <2>4. OutputInv'
      BY <2>1, <2>2, CommandAssumption DEF TypeOK, OutputInv
    <2> QED
      BY <2>3, <2>4 DEF VerdictInv, GroupInv, EndingInv, IsEnding
  <1>2. CASE CheckMark
    BY <1>2 DEF CheckMark, ReaderStates, fixed, channel, tree, TypeOK, VerdictInv, GroupInv,
                EndingInv, IsEnding, OutputInv
  <1>3. CASE ReadChunk
    <2>1. TypeOK' /\ OutputInv'
      BY <1>3 DEF ReadChunk, ReaderStates, fixed, channel, TypeOK, OutputInv
    <2> QED
      BY <1>3, <2>1 DEF ReadChunk, fixed, channel, VerdictInv, GroupInv, EndingInv, IsEnding
  <1>4. CASE Forward
    <2> USE <1>4 DEF Forward, fixed, tree
    <2>1. TypeOK'
      BY SendEffect DEF TypeOK, ReaderStates, Events
    <2>2. EndingInv'
      BY OutputSent
    <2>3. OutputInv'
      BY DEF TypeOK, OutputInv
    <2> QED
      BY <2>1, <2>2, <2>3 DEF VerdictInv, GroupInv
  <1>5. CASE Notice
    <2> USE <1>5 DEF Notice, fixed, tree
    <2>1. TypeOK' /\ EndingInv'
      <3>1. CASE terminal_sent
        BY <3>1 DEF TypeOK, ReaderStates, EndingInv, IsEnding, channel
      <3>2. CASE ~ terminal_sent
        BY <3>2, SendEffect, OutputSent DEF TypeOK, ReaderStates, Events
      <3> QED
        BY <3>1, <3>2
    <2>2. OutputInv'
      BY DEF TypeOK, OutputInv
    <2> QED
      BY <2>1, <2>2 DEF VerdictInv, GroupInv
  <1>6. CASE ReadEOF
    BY <1>6 DEF ReadEOF, AtEOF, fixed, channel, tree, ReaderStates, TypeOK, VerdictInv,
                GroupInv, EndingInv, IsEnding, OutputInv
  <1> QED
    BY <1>1, <1>2, <1>3, <1>4, <1>5, <1>6 DEF ReaderStep

\* The processes, the consumer, the clock and the user.
LEMMA ForkPreserves ==
    ASSUME IInv, Fork
    PROVE  IInv'
  BY ProcTypes DEF Fork, fixed, channel, IInv, TypeOK, VerdictInv, GroupInv, EndingInv,
                   IsEnding, OutputInv

\* Nothing is written to a pipe whose reader is done.
LEMMA WritePreserves ==
    ASSUME IInv, NEW p \in Procs, Write(p)
    PROVE  IInv'
  <1> USE DEF Write, IInv, fixed, channel
  <1>1. TypeOK'
    BY DEF TypeOK
  <1>2. OutputInv'
    BY CommandAssumption DEF TypeOK, OutputInv, ReadEndOpen, KeptOpen
  <1> QED
    BY <1>1, <1>2 DEF VerdictInv, GroupInv, EndingInv, IsEnding

LEMMA ExitPreserves ==
    ASSUME IInv, NEW p \in Procs, Exit(p)
    PROVE  IInv'
  <1> USE DEF Exit, IInv, fixed, channel
  <1>1. PICK S \in SUBSET Running : proc' = Ended(S)
    BY StruckRun
  <1>2. TypeOK' /\ GroupInv'
    BY <1>1, ProcTypes, EndedLeader DEF TypeOK, GroupInv
  <1> QED
    BY <1>2 DEF VerdictInv, EndingInv, IsEnding, OutputInv

LEMMA ReceivePreserves ==
    ASSUME IInv, Receive \/ HangUp
    PROVE  IInv'
  <1>1. TypeOK'
    BY DEF Receive, HangUp, IInv, fixed, tree, TypeOK
  <1>2. consumer' = "on" => consumer = "on"
    BY DEF Receive, HangUp, IInv, TypeOK
  <1> QED
    BY <1>1, <1>2 DEF Receive, HangUp, fixed, tree, IInv, VerdictInv, GroupInv, EndingInv,
                      IsEnding, OutputInv

LEMMA ClockPreserves ==
    ASSUME IInv, DeadlinePasses \/ Cancel \/ UNCHANGED vars
    PROVE  IInv'
  BY DEF DeadlinePasses, Cancel, vars, fixed, tree, channel, IInv, TypeOK, VerdictInv,
         GroupInv, EndingInv, IsEnding, OutputInv

LEMMA InitIInv == Init => IInv
  <1> SUFFICES ASSUME Init PROVE IInv
    OBVIOUS
  <1>1. TypeOK
    BY DEF Init, TypeOK, ProcStates, WaiterRecord, Pcs, ReaderStates
  <1> QED
    BY <1>1, CommandAssumption DEF Init, IInv, VerdictInv, GroupInv, EndingInv, IsEnding,
                                   OutputInv

LEMMA IInvInvariant == Spec => []IInv
  <1>1. IInv /\ [Next]_vars => IInv'
    BY WaiterPreserves, FaultPreserves, ReaderPreserves, ForkPreserves, WritePreserves,
       ExitPreserves, ReceivePreserves, ClockPreserves DEF Next
  <1> QED
    BY InitIInv, <1>1, PTL DEF Spec

----------------------------------------------------------------------------
(* The theorems *)

(***************************************************************************)
(* The waiter never signals the process group after it has reaped the      *)
(* leader: not after an exit that try_wait saw, not after the grace of an  *)
(* interrupt, not after a failed poll.                                     *)
(***************************************************************************)
THEOREM OwnGroupOnly == Spec => []SignalsOwnGroup
  <1>1. IInv => SignalsOwnGroup
    BY DEF IInv, GroupInv, SignalsOwnGroup
  <1> QED
    BY <1>1, IInvInvariant, PTL

(***************************************************************************)
(* However exit, cancellation, deadline and failures meet, one terminal    *)
(* event at most is sent, and a receiver that stays finds one when all     *)
(* senders are gone (emit_terminal, run_pty_worker).                       *)
(***************************************************************************)
THEOREM EndsOnceCorrect == Spec => []EndsOnce
  <1>1. IInv => EndsOnce
    <2> SUFFICES ASSUME IInv PROVE EndsOnce
      OBVIOUS
    <2> DEFINE endings == {i \in DOMAIN sent : sent[i] \in Terminals}
    <2>1. Cardinality(endings) <= 1
      <3>1. CASE endings = {}
        BY <3>1, FS_EmptySet
      <3>2. CASE endings # {}
        <4>1. PICK i : endings = {i}
          BY <3>2 DEF IInv, EndingInv, IsEnding
        <4> QED
          BY <4>1, FS_Singleton
      <3> QED
        BY <3>1, <3>2
    <2>2. mode = "pty" /\ At("done") /\ consumer = "on" => endings # {}
      BY DEF IInv, EndingInv, IsEnding, At
    <2> QED
      BY <2>1, <2>2 DEF EndsOnce
  <1> QED
    BY <1>1, IInvInvariant, PTL

(***************************************************************************)
(* A command that exits returns all it wrote, up to the cap, unless a      *)
(* process held its pipe open past the grace (execute_child, join_readers, *)
(* drain_into).                                                            *)
(***************************************************************************)
THEOREM OutputComplete == Spec => []CompleteOutput
  <1>1. IInv => CompleteOutput
    BY MinOfTwo, CommandAssumption DEF IInv, TypeOK, OutputInv, CompleteOutput, At
  <1> QED
    BY <1>1, IInvInvariant, PTL

----------------------------------------------------------------------------
(* The evidence journal: types and the invariant *)


Hashes == {WorkingTreeHash(h, w) : h \in Tree, w \in Tree}

\* A record is of an invocation, clamped.
Observation ==
    {r \in [command : {Prefix(i.command, MaxTokens) : i \in Invocations},
            filter : {Prefix(i.filter, MaxFilter) : i \in Invocations},
            invocation : Invocations, class : Outcomes, tree : Hashes, at : Nat] :
        /\ r.command = Prefix(r.invocation.command, MaxTokens)
        /\ r.filter = Prefix(r.invocation.filter, MaxFilter)}

HandlerPcs == {"idle", "run", "capture", "lock", "read", "quarantine", "use"}

HandlerRecord ==
    [pc : HandlerPcs, stage : {None, "prior", "record", "assess", "gate"},
     seen : Seq(Observation), since : Nat, upto : Nat, invocation : Invocations \cup {None},
     class : Outcomes \cup {None}, at : Nat, tree : Hashes \cup {None}]

Completion == [tree : Hashes \cup {None}, at : Nat, since : Nat, upto : Nat]

JournalType ==
    /\ head \in Tree /\ work \in Tree
    /\ file \in [records : Seq(Observation), state : {"absent", "corrupt", "valid"}]
    /\ aside \subseteq {"corrupt", "valid"}
    /\ lock \in Handlers \cup {None}
    /\ now \in Nat
    /\ call \in [Handlers -> HandlerRecord]
    /\ observed \in Seq(Observation)
    /\ completions \subseteq Completion
    /\ edits \in Nat /\ commits \in Nat /\ corruptions \in Nat

\* Between TakeLock and Report: load, append and rename are under the lock.
Recording(k) == k.pc \in {"read", "quarantine", "use"} /\ k.stage \in {"prior", "record", "assess"}

\* The records are the last of the first n observations, and while nobody
\* corrupts the file all those that retention protects.
Ends(records, obs, n) ==
    /\ Len(records) <= n
    /\ \A i \in DOMAIN records : records[i] = obs[n - Len(records) + i]

Protected(records, obs, n, t) ==
    \A i \in 1 .. n : i > n - MaxRecords /\ t - obs[i].at <= MaxAge => i > n - Len(records)

Holds(records, obs, n, t, bad) ==
    Ends(records, obs, n) /\ (bad = 0 => Protected(records, obs, n, t))

\* Observations are in the order of their times.
Timed(obs, t) ==
    /\ \A i, j \in DOMAIN obs : i <= j => obs[i].at <= obs[j].at
    /\ \A i \in DOMAIN obs : obs[i].at <= t

\* What a handler knows: what it is to record comes after all that has been
\* recorded, what it has read is the journal of some time since it asked.
HandlerOK(k, obs, t, bad) ==
    /\ k.pc \in {"read", "quarantine", "use"} => k.stage \in {"prior", "record", "assess", "gate"}
    /\ k.pc \in {"run", "capture", "lock"} \/ Recording(k) => k.invocation \in Invocations
    /\ k.pc \in {"capture", "lock"} \/ Recording(k) => k.class \in Outcomes
    /\ k.pc = "lock" \/ Recording(k) => k.tree \in Hashes
    /\ Recording(k) => k.at <= t /\ \A i \in DOMAIN obs : obs[i].at <= k.at
    /\ k.stage = "gate" /\ k.pc \in {"read", "quarantine", "use"} =>
          k.tree \in Hashes /\ k.since <= Len(obs)
    /\ k.pc = "quarantine" => bad # 0
    /\ k.pc \in {"quarantine", "use"} =>
          /\ k.upto <= Len(obs)
          /\ k.stage = "gate" => k.since <= k.upto
          /\ k.stage = "record" => k.upto = Len(obs)
          /\ Holds(k.seen, obs, k.upto, t, bad)

Seen(done, obs) == done.since <= done.upto /\ done.upto <= Len(obs)

JournalInv ==
    /\ JournalType
    /\ \A c \in Handlers : Recording(call[c]) => lock = c
    /\ Timed(observed, now)
    /\ file.state = "corrupt" => corruptions # 0
    /\ file.state # "valid" => file.records = <<>>
    /\ Holds(file.records, observed, Len(observed), now, corruptions)
    /\ \A c \in Handlers : HandlerOK(call[c], observed, now, corruptions)
    /\ \A done \in completions : Seen(done, observed)

----------------------------------------------------------------------------
(* Retention *)

LEMMA Least ==
    ASSUME NEW T, T \subseteq Nat, T # {}
    PROVE  \E m \in T : \A k \in T : m <= k
<1> DEFINE R == {ss \in Nat \X Nat : ss[1] < ss[2]}
<1>1. IsWellFoundedOn(R, Nat)  BY NatLessThanWellFounded DEF OpToRel
<1>2. \A a, b \in Nat : <<a, b>> \in R <=> a < b  OBVIOUS
<1> HIDE DEF R
<1>3. PICK x \in T : \A y \in T : ~ (<<y, x>> \in R)  BY <1>1, WFMin
<1>4. ASSUME NEW y \in T PROVE x <= y
  <2>1. x \in Nat /\ y \in Nat  OBVIOUS
  <2>2. ~ (y < x)  BY <1>2, <1>3, <2>1
  <2> QED  BY <2>1, <2>2
<1> QED  BY <1>4

\* A part of a sequence, longer by one.
LEMMA SubSeqGrows ==
    ASSUME NEW S, NEW s \in Seq(S), NEW m \in 0 .. Len(s), NEW i \in (m + 1) .. Len(s)
    PROVE  SubSeq(s, m + 1, i) = Append(SubSeq(s, m + 1, i - 1), s[i])
<1>1. Len(s) \in Nat /\ \A j \in 1 .. Len(s) : s[j] \in S  BY LenProperties
<1>2. SubSeq(s, m + 1, i) = SubSeq(s, m + 1, i - 1) \o <<s[i]>>
  BY <1>1, SubSeqRecursiveSecond
<1>3. SubSeq(s, m + 1, i - 1) \in Seq(S)
  <2>1. \A j \in (m + 1) .. (i - 1) : s[j] \in S  BY <1>1
  <2>2. m + 1 \in Int /\ i - 1 \in Int  BY <1>1
  <2> QED  BY ONLY <2>1, <2>2, SubSeqProperties
<1>4. s[i] \in S  BY <1>1
<1> QED  BY <1>2, <1>3, <1>4, AppendIsConcat

\* The last of the records that were made in time, as Young keeps them: the
\* records are in the order of their times, so what is over-age is at the
\* front.  Young is a recursive function; the proof names what it is at every
\* length and shows that no other function satisfies its equation.
LEMMA YoungIsEnd ==
    ASSUME NEW s \in Seq(Observation), NEW t \in Nat,
           \A i, j \in DOMAIN s : i <= j => s[i].at <= s[j].at
    PROVE  \E m \in 0 .. Len(s) :
              /\ Young(s, t) = SubSeq(s, m + 1, Len(s))
              /\ \A i \in 1 .. m : t - s[i].at > MaxAge
<1> DEFINE n == Len(s)
           Fresh(i) == t - s[i].at <= MaxAge
           Cuts == {m \in 0 .. n : \A i \in (m + 1) .. n : Fresh(i)}
<1>1. n \in Nat /\ DOMAIN s = 1 .. n /\ \A i \in 1 .. n : s[i] \in Observation /\ s[i].at \in Nat
  BY DEF Observation
<1>2. MaxAge \in Nat  BY JournalAssumption
<1>3. n \in Cuts  BY <1>1
<1>4. PICK m \in Cuts : \A k \in Cuts : m <= k
  <2>1. Cuts \subseteq Nat /\ Cuts # {}  BY <1>1, <1>3
  <2> QED  BY <2>1, Least
<1>5. m \in 0 .. n /\ \A i \in (m + 1) .. n : Fresh(i)  BY <1>4
<1>6. \A i \in 1 .. m : ~ Fresh(i)
  <2>1. ASSUME m > 0, Fresh(m) PROVE FALSE
    <3>1. m - 1 \in Cuts  BY <2>1, <1>1, <1>5
    <3>2. m <= m - 1  BY <3>1, <1>4
    <3> QED  BY <3>2, <1>1, <1>5
  <2>2. ASSUME NEW i \in 1 .. m, Fresh(i) PROVE FALSE
    <3>1. i \in DOMAIN s /\ m \in DOMAIN s /\ i <= m  BY <1>1, <1>5
    <3>2. s[i].at <= s[m].at /\ s[i].at \in Nat /\ s[m].at \in Nat  BY <3>1, <1>1
    <3>3. Fresh(m)  BY <2>2, <3>2, <1>2
    <3> QED  BY <2>1, <3>3, <1>5
  <2> QED  BY <2>2
<1> DEFINE Extended(f, i) == IF i = 0 THEN <<>>
                         ELSE IF t - s[i].at <= MaxAge THEN Append(f[i - 1], s[i]) ELSE f[i - 1]
           g == [i \in 0 .. n |-> SubSeq(s, m + 1, i)]
<1>11. \A i \in 0 .. n : g[i] = SubSeq(s, m + 1, i)  OBVIOUS
<1>12. g = [i \in 0 .. n |-> g[i]]  OBVIOUS
<1> HIDE DEF g
<1>7. g = [i \in 0 .. n |-> Extended(g, i)]
  <2> SUFFICES ASSUME NEW i \in 0 .. n PROVE g[i] = Extended(g, i)
    BY <1>12
  <2>1. g[i] = SubSeq(s, m + 1, i)  BY <1>11
  <2>2. i \in Nat /\ m \in Nat  BY <1>1, <1>5
  <2>3. CASE i = 0
    <3>1. m + 1 \in Int /\ i \in Int /\ i < m + 1  BY <2>2, <2>3
    <3>2. SubSeq(s, m + 1, i) = <<>>  BY ONLY <3>1, SubSeqEmpty
    <3> QED  BY <2>1, <2>3, <3>2
  <2>4. CASE i # 0
    <3>4. i - 1 \in 0 .. n  BY <2>2, <2>4, <1>1
    <3>1. g[i - 1] = SubSeq(s, m + 1, i - 1)  BY <3>4, <1>11
    <3>2. CASE i <= m
      <4>1. ~ Fresh(i)  BY <3>2, <2>2, <2>4, <1>6
      <4>2. m + 1 \in Int /\ i \in Int /\ i - 1 \in Int /\ i < m + 1 /\ i - 1 < m + 1
        BY <3>2, <2>2
      <4>3. SubSeq(s, m + 1, i) = <<>> /\ SubSeq(s, m + 1, i - 1) = <<>>
        BY ONLY <4>2, SubSeqEmpty
      <4> QED  BY <4>1, <4>3, <3>1, <2>1, <2>4
    <3>3. CASE i > m
      <4>1. Fresh(i)  BY <3>3, <2>2, <1>5, <1>1
      <4>2. m \in 0 .. Len(s) /\ i \in (m + 1) .. Len(s)  BY <3>3, <1>1, <1>5
      <4>3. SubSeq(s, m + 1, i) = Append(SubSeq(s, m + 1, i - 1), s[i])
        BY <4>2, SubSeqGrows
      <4> QED  BY <4>1, <4>3, <3>1, <2>1, <2>4
    <3> QED  BY <3>2, <3>3, <2>2
  <2> QED  BY <2>3, <2>4
<1>8. ASSUME NEW f, f = [i \in 0 .. n |-> Extended(f, i)] PROVE f[n] = g[n]
  <2> DEFINE Bad == {i \in 0 .. n : f[i] # g[i]}
  <2>7. n \in 0 .. n  BY <1>1
  <2>1. SUFFICES ASSUME Bad # {} PROVE FALSE
    BY <2>7
  <2>2. PICK k \in Bad : \A j \in Bad : k <= j
    <3>1. Bad \subseteq Nat  BY <1>1
    <3> QED  BY <2>1, <3>1, Least
  <2>3. k \in 0 .. n /\ f[k] # g[k]  BY <2>2
  <2>4. f[k] = Extended(f, k) /\ g[k] = Extended(g, k)  BY <2>3, <1>7, <1>8
  <2>5. CASE k = 0  BY <2>3, <2>4, <2>5
  <2>6. CASE k # 0
    <3>1. k - 1 \in 0 .. n /\ k - 1 < k  BY <2>3, <2>6, <1>1
    <3>2. ~ (k <= k - 1)  BY <2>3, <1>1
    <3>3. f[k - 1] = g[k - 1]  BY <3>1, <3>2, <2>2
    <3> QED  BY <3>3, <2>3, <2>4, <2>6
  <2> QED  BY <2>5, <2>6
<1>9. Young(s, t) = g[n]
  <2> DEFINE F == CHOOSE f : f = [i \in 0 .. n |-> Extended(f, i)]
  <2>1. Young(s, t) = F[n]  BY DEF Young
  <2>2. F = [i \in 0 .. n |-> Extended(F, i)]  BY <1>7
  <2> HIDE DEF F
  <2> QED  BY <2>1, <2>2, <1>8
<1>10. g[n] = SubSeq(s, m + 1, n)
  <2>1. n \in 0 .. n  BY <1>1
  <2> QED  BY <2>1, <1>11
<1>13. \A i \in 1 .. m : t - s[i].at > MaxAge
  <2> SUFFICES ASSUME NEW i \in 1 .. m PROVE t - s[i].at > MaxAge
    OBVIOUS
  <2>1. i \in 1 .. n  BY <1>1, <1>5
  <2>2. s[i].at \in Nat /\ ~ (t - s[i].at <= MaxAge)  BY <2>1, <1>1, <1>6
  <2> QED  BY <2>2, <1>2
<1>14. Young(s, t) = SubSeq(s, m + 1, Len(s))  BY <1>9, <1>10
<1>15. m \in 0 .. Len(s)  BY <1>5
<1> QED  BY <1>13, <1>14, <1>15

\* What record leaves in the file: the end of the log with the new record, and
\* everything that retention protects of what was there before.
LEMMA RetainedFacts ==
    ASSUME NEW obs \in Seq(Observation), NEW seen \in Seq(Observation), NEW r \in Observation,
           Ends(seen, obs, Len(obs)), Timed(obs, r.at)
    PROVE  /\ Retained(seen, r) \in Seq(Observation)
           /\ Ends(Retained(seen, r), Append(obs, r), Len(obs) + 1)
           /\ \A t \in Nat : t >= r.at /\ Protected(seen, obs, Len(obs), t)
                => Protected(Retained(seen, r), Append(obs, r), Len(obs) + 1, t)
<1> DEFINE n == Len(obs)
           k == Len(seen)
           young == Young(seen, r.at)
           all == Append(young, r)
           obs2 == Append(obs, r)
<1>1. /\ n \in Nat /\ k \in Nat /\ DOMAIN obs = 1 .. n /\ DOMAIN seen = 1 .. k
      /\ \A i \in 1 .. n : obs[i] \in Observation /\ obs[i].at \in Nat
      /\ r.at \in Nat
  BY DEF Observation
<1>2. MaxAge \in Nat /\ MaxRecords \in Nat /\ MaxRecords > 0  BY JournalAssumption
<1>3. k <= n /\ \A i \in 1 .. k : seen[i] = obs[n - k + i]  BY <1>1 DEF Ends
<1>4. PICK m \in 0 .. k : /\ young = SubSeq(seen, m + 1, k)
                          /\ \A i \in 1 .. m : r.at - seen[i].at > MaxAge
  <2>1. \A i, j \in DOMAIN seen : i <= j => seen[i].at <= seen[j].at
    <3> SUFFICES ASSUME NEW i \in 1 .. k, NEW j \in 1 .. k, i <= j PROVE seen[i].at <= seen[j].at
      BY <1>1
    <3> HIDE DEF k, n
    <3>1. n - k + i \in 1 .. n /\ n - k + j \in 1 .. n /\ n - k + i <= n - k + j  BY <1>1, <1>3
    <3>2. obs[n - k + i].at <= obs[n - k + j].at  BY <3>1, <1>1 DEF Timed
    <3> QED  BY <3>2, <1>3
  <2> QED  BY <2>1, <1>1, YoungIsEnd
<1>5. /\ young \in Seq(Observation) /\ Len(young) = k - m
      /\ \A i \in 1 .. (k - m) : young[i] = seen[m + i]
  <2>1. \A i \in (m + 1) .. k : seen[i] \in Observation  BY <1>1
  <2>2. m + 1 \in Int /\ k \in Int  BY <1>1
  <2>3. /\ SubSeq(seen, m + 1, k) \in Seq(Observation)
        /\ Len(SubSeq(seen, m + 1, k)) = IF m + 1 <= k THEN k - (m + 1) + 1 ELSE 0
        /\ \A i \in 1 .. k - (m + 1) + 1 : SubSeq(seen, m + 1, k)[i] = seen[m + 1 + i - 1]
    BY ONLY <2>1, <2>2, SubSeqProperties
  <2>4. m \in Nat /\ m <= k  BY <1>1
  <2>7. Len(young) = IF m + 1 <= k THEN k - (m + 1) + 1 ELSE 0  BY <2>3, <1>4
  <2> HIDE DEF k, young
  <2>5. Len(young) = k - m  BY <2>4, <2>7, <1>1
  <2>6. ASSUME NEW i \in 1 .. (k - m) PROVE young[i] = seen[m + i]
    <3>1. i \in 1 .. k - (m + 1) + 1 /\ m + 1 + i - 1 = m + i  BY <2>4, <1>1
    <3> QED  BY <3>1, <2>3, <1>4
  <2> QED  BY <2>3, <2>5, <2>6, <1>4
<1> HIDE DEF young
<1> DEFINE l == k - m + 1
<1>6. /\ all \in Seq(Observation) /\ Len(all) = l /\ l \in Nat /\ l >= 1
      /\ \A i \in 1 .. (k - m) : all[i] = seen[m + i]
      /\ all[l] = r
  <2>1. /\ all \in Seq(Observation) /\ Len(all) = Len(young) + 1
        /\ \A i \in 1 .. Len(young) : all[i] = young[i]
        /\ all[Len(young) + 1] = r
    BY <1>5, AppendProperties
  <2> QED  BY <2>1, <1>1, <1>5
<1>7. /\ obs2 \in Seq(Observation) /\ Len(obs2) = n + 1
      /\ \A i \in 1 .. n : obs2[i] = obs[i]
      /\ obs2[n + 1] = r
  BY AppendProperties
<1> HIDE DEF all, obs2
<1>8. \A i \in 1 .. l : all[i] = obs2[n + 1 - l + i]
  <2> SUFFICES ASSUME NEW i \in 1 .. l PROVE all[i] = obs2[n + 1 - l + i]
    OBVIOUS
  <2>1. CASE i = l
    <3>1. n + 1 - l + i = n + 1  BY <2>1, <1>1, <1>6
    <3> QED  BY <3>1, <2>1, <1>6, <1>7
  <2>2. CASE i # l
    <3>1. i \in 1 .. (k - m)  BY <2>2, <1>1
    <3>2. m + i \in 1 .. k /\ n - k + (m + i) \in 1 .. n  BY <3>1, <1>1, <1>3
    <3>3. all[i] = obs[n - k + (m + i)]  BY <3>1, <3>2, <1>3, <1>6
    <3>4. n - k + (m + i) = n + 1 - l + i  BY <3>1, <1>1
    <3> QED  BY <3>2, <3>3, <3>4, <1>7
  <2> QED  BY <2>1, <2>2
<1> DEFINE from == IF l > MaxRecords THEN l - MaxRecords + 1 ELSE 1
           left == Retained(seen, r)
<1>9. left = SubSeq(all, from, l)
  BY <1>6 DEF Retained, all, young
<1>10. from \in Nat /\ from >= 1 /\ from <= l  BY <1>2, <1>6
<1> HIDE DEF from, left
<1>11. /\ left \in Seq(Observation) /\ Len(left) = l - from + 1
       /\ \A i \in 1 .. (l - from + 1) : left[i] = all[from + i - 1]
  <2>1. \A i \in from .. l : all[i] \in Observation  BY <1>6, <1>10
  <2>2. from \in Int /\ l \in Int /\ from <= l  BY <1>6, <1>10
  <2> HIDE DEF l
  <2> QED  BY <2>1, <2>2, <1>9, SubSeqProperties
<1>12. Ends(left, obs2, n + 1)
  <2>1. l <= n + 1 /\ Len(left) <= n + 1  BY <1>1, <1>3, <1>6, <1>10, <1>11
  <2>2. DOMAIN left = 1 .. (l - from + 1)  BY <1>11
  <2>3. ASSUME NEW i \in 1 .. (l - from + 1) PROVE left[i] = obs2[n + 1 - Len(left) + i]
    <3>1. from + i - 1 \in 1 .. l  BY <1>6, <1>10
    <3>2. n + 1 - l + (from + i - 1) = n + 1 - Len(left) + i  BY <1>1, <1>6, <1>10, <1>11
    <3> QED  BY <3>1, <3>2, <1>8, <1>11
  <2> QED  BY <2>1, <2>2, <2>3 DEF Ends
<1>13. ASSUME NEW t \in Nat, t >= r.at, Protected(seen, obs, n, t)
       PROVE  Protected(left, obs2, n + 1, t)
  <2>1. \A i \in 1 .. (n + 1) : i > (n + 1) - MaxRecords /\ t - obs2[i].at <= MaxAge
           => i > (n + 1) - Len(left)
    <3> SUFFICES ASSUME NEW i \in 1 .. (n + 1),
                        i > (n + 1) - MaxRecords /\ t - obs2[i].at <= MaxAge
                 PROVE  i > (n + 1) - Len(left)
      OBVIOUS
    <3>0. i > (n + 1) - MaxRecords /\ t - obs2[i].at <= MaxAge  OBVIOUS
    <3>1. CASE i = n + 1  BY <3>0, <3>1, <1>1, <1>6, <1>10, <1>11
    <3>2. CASE i # n + 1
      <4>1. i \in 1 .. n /\ obs2[i] = obs[i]  BY <3>2, <1>1, <1>7
      <4>2. i > n - k  BY <3>0, <4>1, <1>1, <1>2, <1>13 DEF Protected
      <4>3. i - (n - k) \in 1 .. k /\ seen[i - (n - k)] = obs[i]
        <5>1. i - (n - k) \in 1 .. k /\ n - k + (i - (n - k)) = i  BY <4>1, <4>2, <1>1
        <5> QED  BY <5>1, <1>3
      <4>4. ~ (i - (n - k) \in 1 .. m)
        <5>1. obs[i].at \in Nat /\ t - obs[i].at <= MaxAge  BY <3>0, <4>1, <1>1
        <5>2. ~ (r.at - obs[i].at > MaxAge)  BY <5>1, <1>1, <1>2, <1>13
        <5> QED  BY <5>2, <4>3, <1>4
      <4>5. i > n - k + m  BY <4>1, <4>3, <4>4, <1>1
      <4>6. CASE l > MaxRecords
        <5>1. Len(left) = MaxRecords  BY <4>6, <1>2, <1>6, <1>11 DEF from
        <5> QED  BY <3>0, <5>1, <1>1, <1>2, <4>1
      <4>7. CASE ~ (l > MaxRecords)
        <5>1. Len(left) = l  BY <4>7, <1>2, <1>6, <1>11 DEF from
        <5> QED  BY <5>1, <4>5, <1>1, <1>3, <4>1
      <4> QED  BY <4>6, <4>7
    <3> QED  BY <3>1, <3>2
  <2> HIDE DEF n
  <2> QED  BY ONLY <2>1 DEF Protected
<1> QED  BY <1>11, <1>12, <1>13 DEF left, obs2

----------------------------------------------------------------------------
(* The inductive invariant *)

LEMMA JournalInitHolds == JournalInit => JournalInv
<1> SUFFICES ASSUME JournalInit PROVE JournalInv
  OBVIOUS
<1> USE DEF JournalInit
<1>1. \A c \in Handlers : call[c] = Idle  OBVIOUS
<1>2. Idle \in HandlerRecord  BY DEF Idle, HandlerRecord, HandlerPcs
<1>3. call \in [Handlers -> HandlerRecord]  BY <1>2
<1>4. JournalType
  <2>1. file \in [records : Seq(Observation), state : {"absent", "corrupt", "valid"}]
    BY DEF AbsentFile
  <2>2. observed \in Seq(Observation)  OBVIOUS
  <2> QED  BY <1>3, <2>1, <2>2 DEF JournalType
<1>5. \A c \in Handlers : ~ Recording(call[c])  BY <1>1 DEF Recording, Idle
<1>6. Timed(observed, now)  BY DEF Timed
<1>7. file.state # "corrupt" /\ file.records = <<>>  BY DEF AbsentFile
<1>8. Holds(file.records, observed, Len(observed), now, corruptions)
  BY <1>7 DEF Holds, Ends, Protected
<1>9. \A c \in Handlers : HandlerOK(call[c], observed, now, corruptions)
  BY <1>1 DEF HandlerOK, Recording, Idle
<1> QED  BY <1>4, <1>5, <1>6, <1>7, <1>8, <1>9 DEF JournalInv

\* A step of one handler that leaves the journal, the clock and the log alone.
LEMMA HandlerStep ==
    ASSUME JournalInv, NEW c \in Handlers, NEW k \in HandlerRecord,
           call' = [call EXCEPT ![c] = k],
           lock' \in Handlers \cup {None},
           Recording(k) => lock' = c,
           \A d \in Handlers : d # c /\ Recording(call[d]) => lock' = d,
           HandlerOK(k, observed, now, corruptions),
           completions' \subseteq Completion,
           \A done \in completions' : Seen(done, observed),
           UNCHANGED <<repo, journal, now, corruptions>>
    PROVE  JournalInv'
<1>1. /\ head' = head /\ work' = work /\ file' = file /\ aside' = aside
      /\ observed' = observed /\ edits' = edits /\ commits' = commits
      /\ now' = now /\ corruptions' = corruptions
  BY DEF repo, journal
<1>2. \A d \in Handlers : call'[d] = IF d = c THEN k ELSE call[d]
  BY DEF JournalInv, JournalType
<1>3. call' \in [Handlers -> HandlerRecord]  BY DEF JournalInv, JournalType
<1>4. JournalType'  BY <1>1, <1>3 DEF JournalInv, JournalType
<1>5. \A d \in Handlers : Recording(call'[d]) => lock' = d  BY <1>2
<1>6. \A d \in Handlers : HandlerOK(call'[d], observed', now', corruptions')
  BY <1>1, <1>2 DEF JournalInv
<1>7. /\ Timed(observed', now')
      /\ file'.state = "corrupt" => corruptions' # 0
      /\ file'.state # "valid" => file'.records = <<>>
      /\ Holds(file'.records, observed', Len(observed'), now', corruptions')
  BY <1>1 DEF JournalInv
<1>8. \A done \in completions' : Seen(done, observed')  BY <1>1
<1> QED  BY <1>4, <1>5, <1>6, <1>7, <1>8 DEF JournalInv

\* What the invariant says of one handler.
LEMMA HandlerFacts ==
    ASSUME JournalInv, NEW c \in Handlers
    PROVE  /\ call[c] \in HandlerRecord
           /\ call[c].pc \in HandlerPcs
           /\ call[c].stage \in {None, "prior", "record", "assess", "gate"}
           /\ call[c].seen \in Seq(Observation)
           /\ call[c].since \in Nat /\ call[c].upto \in Nat /\ call[c].at \in Nat
           /\ call[c].invocation \in Invocations \cup {None}
           /\ call[c].class \in Outcomes \cup {None}
           /\ call[c].tree \in Hashes \cup {None}
           /\ HandlerOK(call[c], observed, now, corruptions)
           /\ Recording(call[c]) => lock = c
           /\ lock \in Handlers \cup {None}
           /\ \A d \in Handlers : d # c /\ lock = c => ~ Recording(call[d])
           /\ completions \subseteq Completion
           /\ \A done \in completions : Seen(done, observed)
<1>1. call[c] \in HandlerRecord  BY DEF JournalInv, JournalType
<1>2. /\ call[c].pc \in HandlerPcs
      /\ call[c].stage \in {None, "prior", "record", "assess", "gate"}
      /\ call[c].seen \in Seq(Observation)
      /\ call[c].since \in Nat /\ call[c].upto \in Nat /\ call[c].at \in Nat
      /\ call[c].invocation \in Invocations \cup {None}
      /\ call[c].class \in Outcomes \cup {None}
      /\ call[c].tree \in Hashes \cup {None}
  BY <1>1 DEF HandlerRecord
<1> QED  BY <1>1, <1>2 DEF JournalInv, JournalType


\* The tree a handler captures is a tree identity.
LEMMA CapturedHash == JournalInv => WorkingTreeHash(head, work) \in Hashes
  BY DEF JournalInv, JournalType, Hashes

LEMMA IdleOK ==
    ASSUME NEW obs, NEW t, NEW bad
    PROVE  Idle \in HandlerRecord /\ ~ Recording(Idle) /\ HandlerOK(Idle, obs, t, bad)
  BY DEF Idle, HandlerRecord, HandlerPcs, Recording, HandlerOK

LEMMA VerifyStep ==
    ASSUME JournalInv, NEW c \in Handlers, Verify(c) PROVE JournalInv'
<1> USE HandlerFacts
<1>1. PICK inv \in Invocations :
        call' = [call EXCEPT ![c] = [Idle EXCEPT !.pc = "run", !.invocation = inv]]
  BY DEF Verify
<1> DEFINE k == [Idle EXCEPT !.pc = "run", !.invocation = inv]
<1>9. Idle \in HandlerRecord  BY IdleOK
<1>2. k.pc = "run" /\ k.invocation = inv /\ k \in HandlerRecord
  BY <1>9 DEF HandlerRecord, HandlerPcs
<1> HIDE DEF k
<1>3. ~ Recording(k)  BY <1>2 DEF Recording
<1>4. HandlerOK(k, observed, now, corruptions)  BY <1>2, <1>3 DEF HandlerOK
<1>5. lock' = lock /\ completions' = completions /\ UNCHANGED <<repo, journal, now, corruptions>>
  BY DEF Verify
<1>6. call' = [call EXCEPT ![c] = k]  BY <1>1 DEF k
<1>7. ~ Recording(call[c])  BY DEF Verify, Recording
<1>8. \A d \in Handlers : d # c /\ Recording(call[d]) => lock' = d  BY <1>5
<1> QED  BY <1>2, <1>3, <1>4, <1>5, <1>6, <1>8, HandlerStep

LEMMA ExecuteStep ==
    ASSUME JournalInv, NEW c \in Handlers, Execute(c) PROVE JournalInv'
<1> USE HandlerFacts
<1>1. PICK class \in Outcomes :
        call' = [call EXCEPT ![c].pc = "capture", ![c].class = class]
  BY DEF Execute
<1> DEFINE k == [call[c] EXCEPT !.pc = "capture", !.class = class]
<1>2. /\ k.pc = "capture" /\ k.class = class /\ k.invocation = call[c].invocation
      /\ k.stage = call[c].stage /\ k \in HandlerRecord
  BY DEF HandlerRecord, HandlerPcs
<1>3. call' = [call EXCEPT ![c] = k]  BY <1>1
<1> HIDE DEF k
<1>4. k.invocation \in Invocations  BY <1>2 DEF HandlerOK, Execute
<1>5. ~ Recording(k)  BY <1>2 DEF Recording
<1>6. HandlerOK(k, observed, now, corruptions)  BY <1>2, <1>4, <1>5 DEF HandlerOK
<1>7. lock' = lock /\ completions' = completions /\ UNCHANGED <<repo, journal, now, corruptions>>
  BY DEF Execute
<1>8. \A d \in Handlers : d # c /\ Recording(call[d]) => lock' = d  BY <1>7
<1> QED  BY <1>2, <1>3, <1>5, <1>6, <1>7, <1>8, HandlerStep

\* A call that ends, or was not under the lock when it ended.
LEMMA IdleStep ==
    ASSUME JournalInv, NEW c \in Handlers,
           call' = [call EXCEPT ![c] = Idle],
           lock' = lock \/ (lock' = None /\ lock = c), completions' = completions,
           UNCHANGED <<repo, journal, now, corruptions>>
    PROVE  JournalInv'
<1> USE HandlerFacts
<1>1. Idle \in HandlerRecord /\ ~ Recording(Idle) /\ HandlerOK(Idle, observed, now, corruptions)
  BY IdleOK
<1>2. \A d \in Handlers : d # c /\ Recording(call[d]) => lock' = d  OBVIOUS
<1> QED  BY <1>1, <1>2, HandlerStep

LEMMA CaptureTreeStep ==
    ASSUME JournalInv, NEW c \in Handlers, CaptureTree(c) PROVE JournalInv'
<1> USE HandlerFacts
<1> DEFINE hash == WorkingTreeHash(head, work)
           k == [call[c] EXCEPT !.pc = "lock", !.tree = hash]
<1>1. hash \in Hashes  BY CapturedHash
<1>2. call' = [call EXCEPT ![c] = k]  BY DEF CaptureTree
<1> HIDE DEF hash
<1>3. /\ k.pc = "lock" /\ k.class = call[c].class /\ k.invocation = call[c].invocation
      /\ k.stage = call[c].stage /\ k.tree = hash /\ k \in HandlerRecord
  BY <1>1 DEF HandlerRecord, HandlerPcs
<1> HIDE DEF k
<1>4. k.invocation \in Invocations /\ k.class \in Outcomes
  BY <1>3 DEF HandlerOK, CaptureTree
<1>5. ~ Recording(k)  BY <1>3 DEF Recording
<1>6. HandlerOK(k, observed, now, corruptions)  BY <1>1, <1>3, <1>4, <1>5 DEF HandlerOK
<1>7. lock' = lock /\ completions' = completions /\ UNCHANGED <<repo, journal, now, corruptions>>
  BY DEF CaptureTree
<1>8. \A d \in Handlers : d # c /\ Recording(call[d]) => lock' = d  BY <1>7
<1> QED  BY <1>2, <1>3, <1>5, <1>6, <1>7, <1>8, HandlerStep

LEMMA TakeLockStep ==
    ASSUME JournalInv, NEW c \in Handlers, TakeLock(c) PROVE JournalInv'
<1> USE HandlerFacts
<1> DEFINE k == [call[c] EXCEPT !.pc = "read", !.stage = "prior", !.at = now]
<1>0. now \in Nat  BY DEF JournalInv, JournalType
<1>1. /\ k.pc = "read" /\ k.class = call[c].class /\ k.invocation = call[c].invocation
      /\ k.stage = "prior" /\ k.tree = call[c].tree /\ k.at = now /\ k \in HandlerRecord
  BY <1>0 DEF HandlerRecord, HandlerPcs
<1>2. call' = [call EXCEPT ![c] = k]  BY DEF TakeLock
<1> HIDE DEF k
<1>3. k.invocation \in Invocations /\ k.class \in Outcomes /\ k.tree \in Hashes
  BY <1>1 DEF HandlerOK, TakeLock
<1>4. k.at <= now /\ \A i \in DOMAIN observed : observed[i].at <= k.at
  BY <1>0, <1>1 DEF JournalInv, Timed
<1>5. HandlerOK(k, observed, now, corruptions)  BY <1>1, <1>3, <1>4 DEF HandlerOK
<1>6. lock' = c /\ completions' = completions /\ UNCHANGED <<repo, journal, now, corruptions>>
  BY DEF TakeLock
<1>7. \A d \in Handlers : ~ Recording(call[d])
  BY JournalAssumption DEF TakeLock
<1> QED  BY <1>1, <1>2, <1>5, <1>6, <1>7, HandlerStep

\* What load has read.
LEMMA LoadStep ==
    ASSUME JournalInv, NEW c \in Handlers, Load(c) PROVE JournalInv'
<1> USE HandlerFacts
<1> DEFINE next == IF file.state = "corrupt" THEN "quarantine" ELSE "use"
           k == [call[c] EXCEPT !.pc = next, !.seen = file.records, !.upto = Len(observed)]
<1>0. file.records \in Seq(Observation) /\ Len(observed) \in Nat
  BY DEF JournalInv, JournalType
<1>1. call' = [call EXCEPT ![c] = k]  BY DEF Load
<1>2. next \in {"quarantine", "use"} /\ (next = "quarantine" => corruptions # 0)
  BY DEF JournalInv
<1> HIDE DEF next
<1>3. /\ k.pc = next /\ k.class = call[c].class /\ k.invocation = call[c].invocation
      /\ k.stage = call[c].stage /\ k.tree = call[c].tree /\ k.at = call[c].at
      /\ k.seen = file.records /\ k.upto = Len(observed) /\ k.since = call[c].since
      /\ k \in HandlerRecord
  BY <1>0, <1>2 DEF HandlerRecord, HandlerPcs
<1> HIDE DEF k
<1>4. Recording(k) <=> Recording(call[c])  BY <1>2, <1>3 DEF Load, Recording
<1>5. Holds(k.seen, observed, k.upto, now, corruptions)  BY <1>3 DEF JournalInv
<1>6. k.stage = "gate" => k.tree \in Hashes /\ k.since <= Len(observed)
  BY <1>3 DEF HandlerOK, Load
<1>9. k.stage \in {"prior", "record", "assess", "gate"}  BY <1>3 DEF HandlerOK, Load
<1>10. Recording(k) =>
          /\ k.invocation \in Invocations /\ k.class \in Outcomes /\ k.tree \in Hashes
          /\ k.at <= now /\ \A i \in DOMAIN observed : observed[i].at <= k.at
  BY <1>3, <1>4 DEF HandlerOK
<1>7. HandlerOK(k, observed, now, corruptions)
  BY <1>0, <1>2, <1>3, <1>5, <1>6, <1>9, <1>10 DEF HandlerOK
<1>8. lock' = lock /\ completions' = completions /\ UNCHANGED <<repo, journal, now, corruptions>>
  BY DEF Load
<1> QED  BY <1>3, <1>4, <1>1, <1>7, <1>8, HandlerStep

\* A recording handler that goes on to read the journal again.
LEMMA ReadAgain ==
    ASSUME NEW k \in HandlerRecord, NEW stage \in {"record", "assess"},
           NEW obs, NEW t, NEW bad, k.pc = "use", Recording(k), HandlerOK(k, obs, t, bad)
    PROVE  LET again == [k EXCEPT !.pc = "read", !.stage = stage, !.seen = <<>>]
           IN  /\ again \in HandlerRecord /\ Recording(again)
               /\ HandlerOK(again, obs, t, bad)
<1> DEFINE again == [k EXCEPT !.pc = "read", !.stage = stage, !.seen = <<>>]
<1>1. /\ again.pc = "read" /\ again.class = k.class /\ again.invocation = k.invocation
      /\ again.stage = stage /\ again.tree = k.tree /\ again.at = k.at
  BY DEF HandlerRecord
<1>4. again \in HandlerRecord
  <2>1. <<>> \in Seq(Observation) /\ "read" \in HandlerPcs  BY DEF HandlerPcs
  <2> HIDE DEF HandlerPcs
  <2> QED  BY <2>1 DEF HandlerRecord
<1> HIDE DEF again
<1>2. Recording(again)  BY <1>1 DEF Recording
<1>3. HandlerOK(again, obs, t, bad)  BY <1>1, <1>2 DEF HandlerOK
<1> QED  BY <1>2, <1>3, <1>4 DEF again

LEMMA SummarizePriorStep ==
    ASSUME JournalInv, NEW c \in Handlers, SummarizePrior(c) \/ RecordFails(c) PROVE JournalInv'
<1> USE HandlerFacts
<1>1. PICK stage \in {"record", "assess"} :
        /\ call' = [call EXCEPT ![c].pc = "read", ![c].stage = stage, ![c].seen = <<>>]
        /\ call[c].pc = "use" /\ Recording(call[c])
  BY DEF SummarizePrior, RecordFails, Recording
<1> DEFINE k == [call[c] EXCEPT !.pc = "read", !.stage = stage, !.seen = <<>>]
<1>2. call' = [call EXCEPT ![c] = k]  BY <1>1
<1>3. k \in HandlerRecord /\ Recording(k) /\ HandlerOK(k, observed, now, corruptions)
  BY <1>1, ReadAgain
<1> HIDE DEF k
<1>4. lock' = lock /\ completions' = completions /\ UNCHANGED <<repo, journal, now, corruptions>>
  BY DEF SummarizePrior, RecordFails
<1> QED  BY <1>1, <1>2, <1>3, <1>4, HandlerStep

LEMMA AskCompletionStep ==
    ASSUME JournalInv, NEW c \in Handlers, AskCompletion(c) PROVE JournalInv'
<1> USE HandlerFacts
<1> DEFINE hash == WorkingTreeHash(head, work)
           k == [Idle EXCEPT !.pc = "read", !.stage = "gate", !.tree = hash,
                             !.since = Len(observed)]
<1>0. hash \in Hashes /\ Len(observed) \in Nat  BY CapturedHash DEF JournalInv, JournalType
<1>1. call' = [call EXCEPT ![c] = k]  BY DEF AskCompletion
<1> HIDE DEF hash
<1>7. Idle \in HandlerRecord  BY IdleOK
<1>2. /\ k.pc = "read" /\ k.stage = "gate" /\ k.tree = hash /\ k.since = Len(observed)
      /\ k \in HandlerRecord
  BY <1>0, <1>7 DEF HandlerRecord, HandlerPcs
<1> HIDE DEF k
<1>3. ~ Recording(k)  BY <1>2 DEF Recording
<1>4. HandlerOK(k, observed, now, corruptions)  BY <1>0, <1>2, <1>3 DEF HandlerOK
<1>5. lock' = lock /\ completions' = completions /\ UNCHANGED <<repo, journal, now, corruptions>>
  BY DEF AskCompletion
<1>6. \A d \in Handlers : d # c /\ Recording(call[d]) => lock' = d  BY <1>5
<1> QED  BY <1>1, <1>2, <1>3, <1>4, <1>5, <1>6, HandlerStep

LEMMA CompleteUnknownStep ==
    ASSUME JournalInv, NEW c \in Handlers, CompleteUnknown(c) PROVE JournalInv'
<1> USE HandlerFacts
<1> DEFINE done == [tree |-> None, at |-> now, since |-> Len(observed), upto |-> Len(observed)]
<1>0. Len(observed) \in Nat /\ now \in Nat  BY DEF JournalInv, JournalType
<1>1. completions' = {done}  BY DEF CompleteUnknown
<1>2. done \in Completion /\ Seen(done, observed)  BY <1>0 DEF Completion, Seen
<1>3. call' = [call EXCEPT ![c] = call[c]]
  BY DEF CompleteUnknown, JournalInv, JournalType
<1>4. lock' = lock /\ UNCHANGED <<repo, journal, now, corruptions>>  BY DEF CompleteUnknown
<1> HIDE DEF done
<1>5. completions' \subseteq Completion /\ \A d \in completions' : Seen(d, observed)
  BY <1>1, <1>2
<1> QED  BY <1>3, <1>4, <1>5, HandlerStep

LEMMA CompleteStep ==
    ASSUME JournalInv, NEW c \in Handlers, Complete(c) PROVE JournalInv'
<1> USE HandlerFacts
<1> DEFINE done == [tree |-> call[c].tree, at |-> now, since |-> call[c].since,
                    upto |-> call[c].upto]
<1>0. now \in Nat  BY DEF JournalInv, JournalType
<1>1. completions' = completions \cup {done}  BY DEF Complete
<1>2. call[c].since <= call[c].upto /\ call[c].upto <= Len(observed)
  BY DEF Complete, HandlerOK
<1>3. done \in Completion /\ Seen(done, observed)  BY <1>0, <1>2 DEF Completion, Seen
<1>4. call' = [call EXCEPT ![c] = Idle] /\ lock' = lock
      /\ UNCHANGED <<repo, journal, now, corruptions>>
  BY DEF Complete
<1> HIDE DEF done
<1>5. completions' \subseteq Completion /\ \A d \in completions' : Seen(d, observed)
  BY <1>1, <1>3
<1>6. Idle \in HandlerRecord /\ ~ Recording(Idle) /\ HandlerOK(Idle, observed, now, corruptions)
  BY IdleOK
<1>7. \A d \in Handlers : d # c /\ Recording(call[d]) => lock' = d  BY <1>4
<1> QED  BY <1>4, <1>5, <1>6, <1>7, HandlerStep


\* A corrupt file, or what has replaced it, is moved aside: the journal is empty
\* again, which is no loss once the file has been corrupted.
LEMMA QuarantineStep ==
    ASSUME JournalInv, NEW c \in Handlers, Quarantine(c) PROVE JournalInv'
<1> USE HandlerFacts
<1> DEFINE k == [call[c] EXCEPT !.pc = "use"]
<1>1. call' = [call EXCEPT ![c] = k]  BY DEF Quarantine
<1>2. /\ k.pc = "use" /\ k.class = call[c].class /\ k.invocation = call[c].invocation
      /\ k.stage = call[c].stage /\ k.tree = call[c].tree /\ k.at = call[c].at
      /\ k.seen = call[c].seen /\ k.upto = call[c].upto /\ k.since = call[c].since
      /\ k \in HandlerRecord
  BY DEF HandlerRecord, HandlerPcs
<1> HIDE DEF k
<1>3. Recording(k) <=> Recording(call[c])  BY <1>2 DEF Quarantine, Recording
<1>4. HandlerOK(k, observed, now, corruptions) /\ corruptions # 0
  BY <1>2, <1>3 DEF HandlerOK, Quarantine
<1>5. /\ head' = head /\ work' = work /\ edits' = edits /\ commits' = commits
      /\ observed' = observed /\ lock' = lock /\ now' = now /\ completions' = completions
      /\ corruptions' = corruptions
  BY DEF Quarantine, repo
<1>6. \/ file' = AbsentFile /\ aside' = aside \cup ({file.state} \ {"absent"})
      \/ file' = file /\ aside' = aside
  BY DEF Quarantine
<1>7. /\ AbsentFile.records = <<>> /\ AbsentFile.state = "absent"
      /\ AbsentFile \in [records : Seq(Observation), state : {"absent", "corrupt", "valid"}]
  BY DEF AbsentFile
<1>8. /\ file' \in [records : Seq(Observation), state : {"absent", "corrupt", "valid"}]
      /\ aside' \subseteq {"corrupt", "valid"}
  BY <1>6, <1>7 DEF JournalInv, JournalType
<1>9. call' \in [Handlers -> HandlerRecord]
      /\ \A d \in Handlers : call'[d] = IF d = c THEN k ELSE call[d]
  BY <1>1, <1>2 DEF JournalInv, JournalType
<1>10. JournalType'  BY <1>5, <1>8, <1>9 DEF JournalInv, JournalType
<1>11. Holds(file'.records, observed, Len(observed), now, corruptions)
  <2>1. Len(observed) \in Nat  BY DEF JournalInv, JournalType
  <2>2. Holds(<<>>, observed, Len(observed), now, corruptions)
    BY <1>4, <2>1 DEF Holds, Ends
  <2> QED  BY <1>6, <1>7, <2>2 DEF JournalInv
<1>12. /\ file'.state = "corrupt" => corruptions # 0
       /\ file'.state # "valid" => file'.records = <<>>
  BY <1>6, <1>7 DEF JournalInv
<1>13. \A d \in Handlers : Recording(call'[d]) => lock = d  BY <1>3, <1>9
<1>14. \A d \in Handlers : HandlerOK(call'[d], observed, now, corruptions)  BY <1>4, <1>9
<1>15. Timed(observed, now) /\ \A done \in completions : Seen(done, observed)
  BY DEF JournalInv
<1> QED  BY <1>5, <1>10, <1>11, <1>12, <1>13, <1>14, <1>15 DEF JournalInv

\* What a handler has read stays the end of what had been observed by then.
LEMMA HoldsMore ==
    ASSUME NEW records \in Seq(Observation), NEW obs \in Seq(Observation), NEW r \in Observation,
           NEW n \in Nat, n <= Len(obs), NEW t \in Nat, NEW bad, Holds(records, obs, n, t, bad)
    PROVE  Holds(records, Append(obs, r), n, t, bad)
<1>1. Len(obs) \in Nat /\ Len(records) \in Nat /\ DOMAIN records = 1 .. Len(records)
  OBVIOUS
<1>2. \A i \in 1 .. Len(obs) : Append(obs, r)[i] = obs[i]  BY AppendProperties
<1>3. Ends(records, Append(obs, r), n)
  <2>1. Len(records) <= n /\ \A i \in DOMAIN records : records[i] = obs[n - Len(records) + i]
    BY DEF Holds, Ends
  <2>2. ASSUME NEW i \in DOMAIN records PROVE records[i] = Append(obs, r)[n - Len(records) + i]
    <3>1. n - Len(records) + i \in 1 .. Len(obs)  BY <1>1, <2>1
    <3> QED  BY <3>1, <2>1, <1>2
  <2> QED  BY <2>1, <2>2 DEF Ends
<1>4. ASSUME bad = 0 PROVE Protected(records, Append(obs, r), n, t)
  BY <1>1, <1>2, <1>4 DEF Holds, Protected
<1> QED  BY <1>3, <1>4 DEF Holds

\* record: the file gets the end of the log with the new record.
LEMMA RecordStep ==
    ASSUME JournalInv, NEW c \in Handlers, Record(c) PROVE JournalInv'
<1> USE HandlerFacts
<1> DEFINE r == RecordOf(call[c])
           k == [call[c] EXCEPT !.pc = "read", !.stage = "assess", !.seen = <<>>]
           n == Len(observed)
           obs2 == Append(observed, r)
           left == Retained(call[c].seen, r)
<1>0. /\ observed \in Seq(Observation) /\ n \in Nat /\ DOMAIN observed = 1 .. n /\ now \in Nat
      /\ call \in [Handlers -> HandlerRecord]
  BY DEF JournalInv, JournalType
<1>1. Recording(call[c]) /\ lock = c /\ call[c].pc = "use" /\ call[c].stage = "record"
  BY DEF Record, Recording
<1>2. /\ call[c].invocation \in Invocations /\ call[c].class \in Outcomes
      /\ call[c].tree \in Hashes
      /\ call[c].at <= now /\ \A i \in DOMAIN observed : observed[i].at <= call[c].at
      /\ Holds(call[c].seen, observed, n, now, corruptions)
  BY <1>1 DEF HandlerOK
<1>3. r \in Observation /\ r.at = call[c].at
  BY <1>2 DEF RecordOf, Observation
<1>4. /\ file' = ValidFile(left) /\ observed' = obs2
      /\ call' = [call EXCEPT ![c] = k]
      /\ head' = head /\ work' = work /\ edits' = edits /\ commits' = commits
      /\ aside' = aside /\ lock' = lock /\ now' = now /\ completions' = completions
      /\ corruptions' = corruptions
  BY DEF Record, repo
<1>5. k \in HandlerRecord /\ Recording(k) /\ HandlerOK(k, observed, now, corruptions)
  BY <1>1, ReadAgain
<1>6. k.pc = "read" /\ k.stage = "assess" /\ k.at = call[c].at
  BY DEF HandlerRecord
<1> HIDE DEF r, k
<1>7. /\ obs2 \in Seq(Observation) /\ Len(obs2) = n + 1 /\ DOMAIN obs2 = 1 .. (n + 1)
      /\ \A i \in 1 .. n : obs2[i] = observed[i]
      /\ obs2[n + 1] = r
  BY <1>0, <1>3, AppendProperties
<1>8. \A i \in 1 .. n : observed[i].at <= r.at /\ observed[i].at \in Nat /\ r.at \in Nat
  BY <1>0, <1>2, <1>3 DEF Observation
<1>9. Timed(observed, r.at)  BY <1>0, <1>2, <1>3 DEF JournalInv, Timed
<1>10. /\ left \in Seq(Observation)
       /\ Ends(left, obs2, n + 1)
       /\ \A t \in Nat : t >= r.at /\ Protected(call[c].seen, observed, n, t)
            => Protected(left, obs2, n + 1, t)
  BY <1>0, <1>2, <1>3, <1>9, RetainedFacts DEF Holds
<1> HIDE DEF left, obs2
<1>11. Holds(left, obs2, Len(obs2), now, corruptions)
  <2>1. now >= r.at  BY <1>2, <1>3
  <2> QED  BY <2>1, <1>0, <1>2, <1>7, <1>10 DEF Holds
<1>12. Timed(obs2, now)
  <2>1. ASSUME NEW i \in DOMAIN obs2, NEW j \in DOMAIN obs2, i <= j PROVE obs2[i].at <= obs2[j].at
    <3>1. CASE j \in 1 .. n
      <4>1. i \in 1 .. n  BY <2>1, <3>1, <1>0, <1>7
      <4> QED  BY <2>1, <3>1, <4>1, <1>0, <1>7 DEF JournalInv, Timed
    <3>2. CASE j = n + 1
      <4>1. CASE i = n + 1
        BY <3>2, <4>1, <1>0, <1>3, <1>7 DEF Observation
      <4>2. CASE i \in 1 .. n  BY <3>2, <4>2, <1>7, <1>8
      <4> QED  BY <4>1, <4>2, <1>0, <1>7
    <3> QED  BY <3>1, <3>2, <1>0, <1>7
  <2>2. ASSUME NEW i \in DOMAIN obs2 PROVE obs2[i].at <= now
    <3>1. CASE i = n + 1  BY <3>1, <1>2, <1>3, <1>7
    <3>2. CASE i \in 1 .. n  BY <3>2, <1>0, <1>7 DEF JournalInv, Timed
    <3> QED  BY <3>1, <3>2, <1>0, <1>7
  <2> QED  BY <2>1, <2>2 DEF Timed
<1>13. \A d \in Handlers : call'[d] = IF d = c THEN k ELSE call[d]
  BY <1>0, <1>4
<1>14. call' \in [Handlers -> HandlerRecord]  BY <1>0, <1>4, <1>5
<1>15. JournalType'
  <2>1. ValidFile(left) \in [records : Seq(Observation), state : {"absent", "corrupt", "valid"}]
    BY <1>10 DEF ValidFile
  <2> QED  BY <2>1, <1>4, <1>7, <1>14 DEF JournalInv, JournalType
<1>16. \A d \in Handlers : Recording(call'[d]) => lock' = d  BY <1>1, <1>4, <1>13
<1>17. \A d \in Handlers : HandlerOK(call'[d], obs2, now, corruptions)
  <2> SUFFICES ASSUME NEW d \in Handlers PROVE HandlerOK(call'[d], obs2, now, corruptions)
    OBVIOUS
  <2>1. CASE d = c
    <3>1. \A i \in DOMAIN obs2 : obs2[i].at <= k.at
      <4> SUFFICES ASSUME NEW i \in DOMAIN obs2 PROVE obs2[i].at <= k.at
        OBVIOUS
      <4>1. CASE i = n + 1  BY <4>1, <1>3, <1>6, <1>7 DEF Observation
      <4>2. CASE i \in 1 .. n  BY <4>2, <1>3, <1>6, <1>7, <1>8
      <4> QED  BY <4>1, <4>2, <1>0, <1>7
    <3>2. k.invocation \in Invocations /\ k.class \in Outcomes /\ k.tree \in Hashes /\ k.at <= now
      BY <1>5 DEF HandlerOK
    <3>3. HandlerOK(k, obs2, now, corruptions)
      BY <1>6, <3>1, <3>2 DEF HandlerOK
    <3> QED  BY <2>1, <3>3, <1>13
  <2>2. CASE d # c
    <3>1. call'[d] = call[d] /\ ~ Recording(call[d])  BY <2>2, <1>1, <1>13
    <3>2. /\ call[d] \in HandlerRecord /\ call[d].seen \in Seq(Observation)
          /\ call[d].upto \in Nat /\ call[d].since \in Nat
          /\ HandlerOK(call[d], observed, now, corruptions)
      OBVIOUS
    <3>3. ASSUME call[d].pc \in {"quarantine", "use"}
          PROVE  /\ call[d].upto <= Len(obs2)
                 /\ call[d].stage = "gate"
                 /\ call[d].since <= call[d].upto
                 /\ Holds(call[d].seen, obs2, call[d].upto, now, corruptions)
      <4>1. call[d].stage = "gate"  BY <3>1, <3>2, <3>3 DEF HandlerOK, Recording
      <4>2. /\ call[d].upto <= n /\ call[d].since <= call[d].upto
            /\ Holds(call[d].seen, observed, call[d].upto, now, corruptions)
        BY <3>2, <3>3, <4>1 DEF HandlerOK
      <4>3. Holds(call[d].seen, obs2, call[d].upto, now, corruptions)
        BY <4>2, <3>2, <1>0, <1>3, HoldsMore DEF obs2
      <4> QED  BY <4>1, <4>2, <4>3, <3>2, <1>0, <1>7
    <3>4. call[d].stage = "gate" /\ call[d].pc \in {"read", "quarantine", "use"} =>
            call[d].tree \in Hashes /\ call[d].since <= Len(obs2)
      BY <3>2, <1>0, <1>7 DEF HandlerOK
    <3>5. HandlerOK(call[d], obs2, now, corruptions)
      BY <3>1, <3>2, <3>3, <3>4 DEF HandlerOK
    <3> QED  BY <3>1, <3>5
  <2> QED  BY <2>1, <2>2
<1>18. \A done \in completions : Seen(done, obs2)
  <2> SUFFICES ASSUME NEW done \in completions PROVE Seen(done, obs2)
    OBVIOUS
  <2>1. done \in Completion /\ Seen(done, observed)  BY DEF JournalInv, JournalType
  <2>2. done.upto \in Nat  BY <2>1 DEF Completion
  <2> QED  BY <2>1, <2>2, <1>0, <1>7 DEF Seen
<1>19. file'.records = left /\ file'.state = "valid"  BY <1>4 DEF ValidFile
<1>20. observed' = obs2  BY <1>4
<1> QED  BY <1>4, <1>11, <1>12, <1>15, <1>16, <1>17, <1>18, <1>19, <1>20 DEF JournalInv


LEMMA EditStep ==
    ASSUME JournalInv, Edit \/ Commit PROVE JournalInv'
<1>1. head' \in Tree /\ work' \in Tree
  <2>1. head \in Tree /\ work \in Tree  BY DEF JournalInv, JournalType
  <2>2. CASE Edit
    <3>1. PICK f \in Files, v \in Contents \cup {Absent} : work' = [work EXCEPT ![f] = v]
      BY <2>2 DEF Edit
    <3> QED  BY <2>1, <2>2, <3>1 DEF Edit, Tree
  <2>3. CASE Commit  BY <2>1, <2>3 DEF Commit
  <2> QED  BY <2>2, <2>3
<1>2. edits' \in Nat /\ commits' \in Nat  BY DEF Edit, Commit, JournalInv, JournalType
<1>3. /\ file' = file /\ aside' = aside /\ observed' = observed /\ lock' = lock
      /\ now' = now /\ call' = call /\ completions' = completions /\ corruptions' = corruptions
  BY DEF Edit, Commit, journal
<1>4. JournalType'  BY <1>1, <1>2, <1>3 DEF JournalInv, JournalType
<1> QED  BY <1>3, <1>4 DEF JournalInv

\* Time passes: retention protects less, nothing else changes.
LEMMA TickStep ==
    ASSUME JournalInv, Tick PROVE JournalInv'
<1>1. /\ UNCHANGED <<head, work, edits, commits, file, aside, observed, lock>>
      /\ UNCHANGED <<call, completions, corruptions>>
      /\ now \in Nat /\ now' = now + 1
  BY DEF Tick, repo, journal, JournalInv, JournalType
<1>2. JournalType'  BY <1>1 DEF JournalInv, JournalType
<1>3. \A i \in DOMAIN observed : observed[i].at \in Nat
  BY DEF JournalInv, JournalType, Observation
<1>4. Timed(observed, now + 1)  BY <1>1, <1>3 DEF JournalInv, Timed
<1>5. ASSUME NEW records, NEW n \in Nat, n <= Len(observed),
             Holds(records, observed, n, now, corruptions)
      PROVE  Holds(records, observed, n, now + 1, corruptions)
  <2>1. ASSUME corruptions = 0, NEW i \in 1 .. n, i > n - MaxRecords,
               (now + 1) - observed[i].at <= MaxAge
        PROVE  i > n - Len(records)
    <3>1. i \in DOMAIN observed  BY <1>5 DEF JournalInv, JournalType
    <3>2. now - observed[i].at <= MaxAge  BY <2>1, <3>1, <1>1, <1>3, JournalAssumption
    <3> QED  BY <2>1, <3>2, <1>5 DEF Holds, Protected
  <2> QED  BY <2>1, <1>5 DEF Holds, Protected
<1>6. Holds(file.records, observed, Len(observed), now + 1, corruptions)
  BY <1>5 DEF JournalInv, JournalType
<1>7. ASSUME NEW c \in Handlers PROVE HandlerOK(call[c], observed, now + 1, corruptions)
  <2>1. HandlerOK(call[c], observed, now, corruptions) /\ call[c].at \in Nat /\ call[c].upto \in Nat
    BY HandlerFacts
  <2>2. Recording(call[c]) => call[c].at <= now + 1  BY <2>1, <1>1 DEF HandlerOK
  <2>3. call[c].pc \in {"quarantine", "use"} =>
           Holds(call[c].seen, observed, call[c].upto, now + 1, corruptions)
    BY <2>1, <1>5 DEF HandlerOK
  <2> QED  BY <2>1, <2>2, <2>3 DEF HandlerOK
<1> QED  BY <1>1, <1>2, <1>4, <1>6, <1>7 DEF JournalInv

LEMMA CorruptStep ==
    ASSUME JournalInv, Corrupt PROVE JournalInv'
<1>1. /\ UNCHANGED <<head, work, edits, commits, aside, observed, lock, now>>
      /\ UNCHANGED <<call, completions>>
      /\ file' = CorruptFile /\ corruptions' = corruptions + 1 /\ corruptions \in Nat
  BY DEF Corrupt, repo, JournalInv, JournalType
<1>2. /\ file' \in [records : Seq(Observation), state : {"absent", "corrupt", "valid"}]
      /\ file'.records = <<>> /\ corruptions' \in Nat /\ corruptions' # 0
  BY <1>1 DEF CorruptFile
<1>3. JournalType'  BY <1>1, <1>2 DEF JournalInv, JournalType
<1>4. \A records, n : Ends(records, observed, n) => Holds(records, observed, n, now, corruptions')
  BY <1>2 DEF Holds
<1>5. Holds(<<>>, observed, Len(observed), now, corruptions')
  <2>1. Len(observed) \in Nat  BY DEF JournalInv, JournalType
  <2>2. Ends(<<>>, observed, Len(observed))  BY <2>1 DEF Ends
  <2> QED  BY <2>2, <1>4
<1>6. ASSUME NEW c \in Handlers PROVE HandlerOK(call[c], observed, now, corruptions')
  <2>1. HandlerOK(call[c], observed, now, corruptions)  BY HandlerFacts
  <2>2. call[c].pc \in {"quarantine", "use"} =>
           Holds(call[c].seen, observed, call[c].upto, now, corruptions')
    BY <2>1, <1>4 DEF HandlerOK, Holds
  <2> QED  BY <2>1, <2>2, <1>2 DEF HandlerOK
<1> QED  BY <1>1, <1>2, <1>3, <1>5, <1>6 DEF JournalInv

LEMMA JournalStepHolds ==
    ASSUME JournalInv, [JournalNext]_journalVars PROVE JournalInv'
<1>1. ASSUME NEW c \in Handlers, Denied(c) \/ CaptureNothing(c) \/ Refuse(c) PROVE JournalInv'
  <2>1. /\ call' = [call EXCEPT ![c] = Idle] /\ lock' = lock /\ completions' = completions
        /\ UNCHANGED <<repo, journal, now, corruptions>>
    BY <1>1 DEF Denied, CaptureNothing, Refuse
  <2> QED  BY <2>1, IdleStep
<1>2. ASSUME NEW c \in Handlers, Report(c) PROVE JournalInv'
  <2>1. /\ call' = [call EXCEPT ![c] = Idle] /\ lock' = None /\ completions' = completions
        /\ UNCHANGED <<repo, journal, now, corruptions>>
    BY <1>2 DEF Report
  <2>2. lock = c  BY <1>2, HandlerFacts DEF Report, Recording
  <2> QED  BY <2>1, <2>2, IdleStep
<1>3. CASE UNCHANGED journalVars
  <2>1. UNCHANGED <<head, work, file, aside, lock, now>>
        /\ UNCHANGED <<call, observed, completions, edits, commits, corruptions>>
    BY <1>3 DEF journalVars
  <2>2. JournalType'  BY <2>1 DEF JournalInv, JournalType
  <2> QED  BY <2>1, <2>2 DEF JournalInv
<1>4. CASE \E c \in Handlers :
       \/ Verify(c) \/ Execute(c) \/ Denied(c) \/ CaptureTree(c) \/ CaptureNothing(c)
       \/ TakeLock(c) \/ Load(c) \/ Quarantine(c) \/ SummarizePrior(c)
       \/ Record(c) \/ RecordFails(c) \/ Report(c)
       \/ AskCompletion(c) \/ CompleteUnknown(c) \/ Refuse(c) \/ Complete(c)
  BY <1>1, <1>2, <1>4, VerifyStep, ExecuteStep, CaptureTreeStep, TakeLockStep, LoadStep,
     QuarantineStep, SummarizePriorStep, RecordStep, AskCompletionStep, CompleteUnknownStep,
     CompleteStep
<1>5. CASE Edit \/ Commit \/ Corrupt \/ Tick
  BY <1>5, EditStep, CorruptStep, TickStep
<1> QED  BY <1>3, <1>4, <1>5 DEF JournalNext

\* The journal, its handlers and the log of observations fit together at every
\* moment: recording handlers take turns (journal_lock), the log is in the order
\* of its times, and the file and what each handler has read of it are ends of
\* the log that lack nothing retention protects.
THEOREM JournalInvariant == JournalSpec => []JournalInv
<1>1. JournalInit => JournalInv  BY JournalInitHolds
<1>2. JournalInv /\ [JournalNext]_journalVars => JournalInv'  BY JournalStepHolds
<1> QED  BY <1>1, <1>2, PTL DEF JournalSpec

----------------------------------------------------------------------------
(* What follows from it *)

\* An end of a sequence is a suffix of it.
LEMMA EndIsSuffix ==
    ASSUME NEW records \in Seq(Observation), NEW obs \in Seq(Observation),
           Ends(records, obs, Len(obs))
    PROVE  IsSuffix(records, obs)
<1> DEFINE n == Len(obs)
           k == Len(records)
           x == Reverse(records)
           y == Reverse(obs)
<1>1. /\ n \in Nat /\ k \in Nat /\ DOMAIN records = 1 .. k
      /\ \A i \in 1 .. n : obs[i] \in Observation
      /\ \A i \in 1 .. k : records[i] \in Observation
  OBVIOUS
<1>2. k <= n /\ \A i \in 1 .. k : records[i] = obs[n - k + i]  BY <1>1 DEF Ends
<1>3. x = [i \in 1 .. k |-> records[(k - i) + 1]] /\ y = [i \in 1 .. n |-> obs[(n - i) + 1]]
  BY DEF Reverse
<1>4. x \in Seq(Observation) /\ Len(x) = k /\ y \in Seq(Observation) /\ Len(y) = n
  <2>1. \A i \in 1 .. k : records[(k - i) + 1] \in Observation  BY <1>1
  <2>2. \A i \in 1 .. n : obs[(n - i) + 1] \in Observation  BY <1>1
  <2> HIDE DEF n, k
  <2> QED  BY <2>1, <2>2, <1>1, <1>3
<1>5. \A i \in 1 .. k : x[i] = y[i]
  <2> SUFFICES ASSUME NEW i \in 1 .. k PROVE x[i] = y[i]
    OBVIOUS
  <2>0. n \in Nat /\ k \in Nat /\ k <= n /\ i \in 1 .. k  BY <1>1, <1>2
  <2>1. (k - i) + 1 \in 1 .. k /\ n - k + ((k - i) + 1) = (n - i) + 1 /\ i \in 1 .. n
    <3> HIDE DEF n, k
    <3> QED  BY ONLY <2>0
  <2>2. x[i] = records[(k - i) + 1] /\ y[i] = obs[(n - i) + 1]  BY <2>1, <1>3
  <2> QED  BY <2>1, <2>2, <1>2
<1> HIDE DEF x, y, n, k
<1>6. SubSeq(y, 1, k) = SubSeq(x, 1, k)
  <2>1. \A i \in 1 .. k : y[i] \in Observation /\ x[i] \in Observation  BY <1>1, <1>2, <1>4
  <2>2. /\ SubSeq(y, 1, k) \in Seq(Observation)
        /\ Len(SubSeq(y, 1, k)) = IF 1 <= k THEN k - 1 + 1 ELSE 0
        /\ \A i \in 1 .. k - 1 + 1 : SubSeq(y, 1, k)[i] = y[1 + i - 1]
    BY <2>1, <1>1, SubSeqProperties
  <2>3. /\ SubSeq(x, 1, k) \in Seq(Observation)
        /\ Len(SubSeq(x, 1, k)) = IF 1 <= k THEN k - 1 + 1 ELSE 0
        /\ \A i \in 1 .. k - 1 + 1 : SubSeq(x, 1, k)[i] = x[1 + i - 1]
    BY <2>1, <1>1, SubSeqProperties
  <2>4. Len(SubSeq(x, 1, k)) = k  BY <2>3, <1>1
  <2>5. \A i \in 1 .. k : SubSeq(x, 1, k)[i] = SubSeq(y, 1, k)[i]
    BY <2>2, <2>3, <1>1, <1>5
  <2> QED  BY <2>2, <2>3, <2>4, <2>5, SeqEqual
<1>7. IsPrefix(x, y)
  BY <1>1, <1>2, <1>4, <1>6 DEF IsPrefix
<1> QED  BY <1>7 DEF IsSuffix, x, y


LEMMA KeptFollows == JournalInv => EvidenceKept
<1> SUFFICES ASSUME JournalInv PROVE EvidenceKept
  OBVIOUS
<1>1. file.records \in Seq(Observation) /\ observed \in Seq(Observation)
  BY DEF JournalInv, JournalType
<1>2. Holds(file.records, observed, Len(observed), now, corruptions)  BY DEF JournalInv
<1>3. IsSuffix(file.records, observed)  BY <1>1, <1>2, EndIsSuffix DEF Holds
<1>4. DOMAIN observed = 1 .. Len(observed)  BY <1>1
<1>5. corruptions = 0 =>
        \A i \in DOMAIN observed :
          (i > Len(observed) - MaxRecords /\ now - observed[i].at <= MaxAge)
            => i > Len(observed) - Len(file.records)
  BY <1>2, <1>4 DEF Holds, Protected
<1> QED  BY <1>3, <1>5 DEF EvidenceKept

\* Concurrent recordings of one server lose nothing and invent nothing: the file
\* is the end of the log of observations, and unless somebody corrupts it holds
\* all that retention protects (load, append and rename under journal_lock).
THEOREM EvidenceIsKept == JournalSpec => []EvidenceKept
<1>1. JournalSpec => []JournalInv  BY JournalInvariant
<1>2. JournalInv => EvidenceKept  BY KeptFollows
<1> QED  BY <1>1, <1>2, PTL

\* The record of an observation, and where it is in the log.
LEMMA RecordInLog ==
    ASSUME NEW records \in Seq(Observation), NEW obs \in Seq(Observation),
           NEW n \in Nat, n <= Len(obs), Ends(records, obs, n)
    PROVE  /\ Len(records) \in Nat /\ Len(obs) \in Nat /\ Len(records) <= n
           /\ DOMAIN records = 1 .. Len(records)
           /\ DOMAIN obs = 1 .. Len(obs)
           /\ \A i \in DOMAIN records : /\ n - Len(records) + i \in 1 .. n
                                        /\ n - Len(records) + i \in DOMAIN obs
                                        /\ records[i] = obs[n - Len(records) + i]
           /\ \A j \in 1 .. n : j > n - Len(records) =>
                 /\ j - (n - Len(records)) \in DOMAIN records
                 /\ records[j - (n - Len(records))] = obs[j]
<1>1. /\ Len(records) \in Nat /\ Len(obs) \in Nat /\ Len(records) <= n
      /\ DOMAIN records = 1 .. Len(records) /\ DOMAIN obs = 1 .. Len(obs)
      /\ \A i \in DOMAIN records : records[i] = obs[n - Len(records) + i]
  BY DEF Ends
<1>2. ASSUME NEW i \in DOMAIN records
      PROVE  n - Len(records) + i \in 1 .. n /\ n - Len(records) + i \in DOMAIN obs
  BY <1>1
<1>3. ASSUME NEW j \in 1 .. n, j > n - Len(records)
      PROVE  /\ j - (n - Len(records)) \in DOMAIN records
             /\ records[j - (n - Len(records))] = obs[j]
  <2>1. /\ j - (n - Len(records)) \in DOMAIN records
        /\ n - Len(records) + (j - (n - Len(records))) = j
    BY <1>1, <1>3
  <2> QED  BY <2>1, <1>1
<1> QED  BY <1>1, <1>2, <1>3

\* Every failure of a tree has been followed by a pass of the same invocation.
PassedAgain(state_hash) ==
    \A i \in DOMAIN observed :
       (observed[i].tree = state_hash /\ observed[i].class \in Authoritative)
         => \E j \in DOMAIN observed :
              /\ j > i /\ observed[j].tree = state_hash /\ observed[j].class = "success"
              /\ observed[j].invocation = observed[i].invocation

LEMMA PassedAgainUnblocks ==
    ASSUME JournalInv, NEW state_hash, PassedAgain(state_hash)
    PROVE  AssessForTree(file.records, state_hash) # "failed"
<1> DEFINE records == file.records
           n == Len(observed)
           off == n - Len(records)
<1>1. /\ records \in Seq(Observation) /\ observed \in Seq(Observation)
      /\ Ends(records, observed, n) /\ Timed(observed, now)
  BY DEF JournalInv, JournalType, Holds
<1>2. /\ Len(records) \in Nat /\ n \in Nat /\ Len(records) <= n
      /\ DOMAIN records = 1 .. Len(records) /\ DOMAIN observed = 1 .. n
      /\ \A i \in DOMAIN records : off + i \in DOMAIN observed /\ records[i] = observed[off + i]
      /\ \A j \in 1 .. n : j > off => j - off \in DOMAIN records /\ records[j - off] = observed[j]
  BY <1>1, RecordInLog
<1>3. \A i \in DOMAIN observed : observed[i] \in Observation  BY <1>1
<1> HIDE DEF records, n
<1>4. ASSUME NEW i \in DOMAIN records,
             records[i].tree = state_hash, records[i].class \in Authoritative
      PROVE  \E j \in DOMAIN records :
                j > i /\ records[j].tree = state_hash /\ Supersedes(records[j], records[i])
  <2>1. PICK j \in DOMAIN observed :
          /\ j > off + i /\ observed[j].tree = state_hash /\ observed[j].class = "success"
          /\ observed[j].invocation = observed[off + i].invocation
    BY <1>2, <1>4 DEF PassedAgain
  <2>2. j \in 1 .. n /\ j > off /\ j - off > i  BY <2>1, <1>2
  <2>3. j - off \in DOMAIN records /\ records[j - off] = observed[j]
    BY <2>2, <1>2
  <2>4. observed[j].at >= observed[off + i].at
    <3>1. off + i \in DOMAIN observed /\ off + i <= j  BY <2>1, <2>2, <1>2
    <3>2. observed[off + i].at <= observed[j].at  BY <3>1, <1>1 DEF Timed
    <3>3. observed[off + i].at \in Nat /\ observed[j].at \in Nat  BY <3>1, <1>3 DEF Observation
    <3> QED  BY <3>2, <3>3
  <2>5. /\ observed[j].command = observed[off + i].command
        /\ observed[j].filter = observed[off + i].filter
    BY <2>1, <1>2, <1>3 DEF Observation
  <2>6. Supersedes(observed[j], observed[off + i])  BY <2>1, <2>4, <2>5 DEF Supersedes, Covers
  <2> QED  BY <2>1, <2>2, <2>3, <2>6, <1>2
<1>5. Unresolved(records, state_hash, Authoritative) = {}  BY <1>4 DEF Unresolved
<1> QED  BY <1>5 DEF AssessForTree, records

LEMMA RerunFollows == JournalInv => RerunUnblocks
<1>1. JournalInv =>
        \A state_hash : PassedAgain(state_hash)
          => AssessForTree(file.records, state_hash) # "failed"
  BY PassedAgainUnblocks
<1> QED  BY <1>1, Zenon DEF RerunUnblocks, PassedAgain

\* Running each failing command again, successfully, on the same tree always
\* clears the gate: the record of a passing run resolves that of a failing one
\* of the same command, and retention never keeps the failure and drops the pass.
THEOREM RerunningUnblocks == JournalSpec => []RerunUnblocks
<1>1. JournalSpec => []JournalInv  BY JournalInvariant
<1>2. JournalInv => RerunUnblocks  BY RerunFollows
<1> QED  BY <1>1, <1>2, PTL

----------------------------------------------------------------------------
(* What a completion rests on *)

\* What CompletionBacked says of one completion.
Backed(done, obs) ==
    \A i \in 1 .. done.since :
      /\ obs[i].tree = done.tree /\ obs[i].class \in Authoritative
      /\ i > done.upto - MaxRecords /\ done.at - obs[i].at <= MaxAge
      => \E j \in (i + 1) .. done.upto :
           /\ obs[j].class = "success"
           /\ obs[j].tree = obs[i].tree
           /\ Scope[obs[j].invocation] = Scope[obs[i].invocation]
           /\ Selects[obs[i].invocation] \subseteq Selects[obs[j].invocation]

LEMMA BackedIs ==
    CompletionBacked <=>
        \A done \in completions : done.tree # None /\ corruptions = 0 => Backed(done, observed)
  BY DEF CompletionBacked, Backed, ReallyResolved

\* A record that resolves another really does.
LEMMA SupersedesIsSound ==
    ASSUME MatchingSound, NEW s \in Observation, NEW f \in Observation, Supersedes(s, f)
    PROVE  /\ s.class = "success"
           /\ Scope[s.invocation] = Scope[f.invocation]
           /\ Selects[f.invocation] \subseteq Selects[s.invocation]
<1> DEFINE x == Clamped(s.invocation)
           y == Clamped(f.invocation)
<1>1. /\ s.invocation \in Invocations /\ f.invocation \in Invocations
      /\ s.command = x.command /\ s.filter = x.filter
      /\ f.command = y.command /\ f.filter = y.filter
  BY DEF Observation, Clamped
<1> HIDE DEF x, y
<1>2. Covers(s, f) /\ s.class = "success"  BY DEF Supersedes
<1>3. Covers(x, y)
  BY <1>1, <1>2 DEF Covers, FullRunCovers, Runner
<1> QED  BY <1>1, <1>2, <1>3 DEF MatchingSound, x, y

\* The gate lets a completion through only over what it has seen resolved.
LEMMA CompleteBacks ==
    ASSUME MatchingSound, JournalInv, NEW c \in Handlers, Complete(c), corruptions = 0
    PROVE  Backed([tree |-> call[c].tree, at |-> now, since |-> call[c].since,
                   upto |-> call[c].upto], observed)
<1> DEFINE seen == call[c].seen
           n == call[c].upto
           off == n - Len(seen)
           state_hash == call[c].tree
<1>1. /\ seen \in Seq(Observation) /\ observed \in Seq(Observation)
      /\ n \in Nat /\ call[c].since \in Nat /\ call[c].since <= n /\ n <= Len(observed)
      /\ Ends(seen, observed, n) /\ Protected(seen, observed, n, now)
  <2>1. /\ call[c].seen \in Seq(Observation) /\ call[c].upto \in Nat /\ call[c].since \in Nat
        /\ HandlerOK(call[c], observed, now, corruptions)
    BY HandlerFacts
  <2>2. call[c].pc = "use" /\ call[c].stage = "gate"  BY DEF Complete
  <2>3. /\ call[c].upto <= Len(observed) /\ call[c].since <= call[c].upto
        /\ Holds(call[c].seen, observed, call[c].upto, now, corruptions)
    BY <2>1, <2>2 DEF HandlerOK
  <2> QED  BY <2>1, <2>3 DEF Holds, JournalInv, JournalType
<1>2. /\ Len(seen) \in Nat /\ Len(observed) \in Nat /\ Len(seen) <= n
      /\ DOMAIN seen = 1 .. Len(seen) /\ DOMAIN observed = 1 .. Len(observed)
      /\ \A i \in DOMAIN seen : off + i \in 1 .. n /\ seen[i] = observed[off + i]
      /\ \A j \in 1 .. n : j > off => j - off \in DOMAIN seen /\ seen[j - off] = observed[j]
  BY <1>1, RecordInLog
<1>3. \A i \in DOMAIN seen : seen[i] \in Observation  BY <1>1
<1>4. Unresolved(seen, state_hash, Authoritative) = {}
  BY DEF Complete, AssessForTree
<1> HIDE DEF seen, n, state_hash
<1>5. ASSUME NEW i \in 1 .. call[c].since,
             observed[i].tree = state_hash, observed[i].class \in Authoritative,
             i > n - MaxRecords, now - observed[i].at <= MaxAge
      PROVE  \E j \in (i + 1) .. n :
               /\ observed[j].class = "success"
               /\ observed[j].tree = observed[i].tree
               /\ Scope[observed[j].invocation] = Scope[observed[i].invocation]
               /\ Selects[observed[i].invocation] \subseteq Selects[observed[j].invocation]
  <2>1. i \in 1 .. n /\ i > off  BY <1>1, <1>5 DEF Protected
  <2>2. i - off \in DOMAIN seen /\ seen[i - off] = observed[i]  BY <2>1, <1>2
  <2>3. PICK k \in DOMAIN seen :
          k > i - off /\ seen[k].tree = state_hash /\ Supersedes(seen[k], seen[i - off])
    BY <2>2, <1>4, <1>5 DEF Unresolved
  <2>4. off + k \in (i + 1) .. n /\ seen[k] = observed[off + k]
    BY <2>1, <2>2, <2>3, <1>1, <1>2
  <2>5. /\ seen[k].class = "success"
        /\ Scope[seen[k].invocation] = Scope[seen[i - off].invocation]
        /\ Selects[seen[i - off].invocation] \subseteq Selects[seen[k].invocation]
    BY <2>2, <2>3, <1>3, SupersedesIsSound
  <2> QED  BY <2>2, <2>3, <2>4, <2>5, <1>5
<1> QED  BY <1>5 DEF Backed, n, state_hash

LEMMA BackedMore ==
    ASSUME NEW obs \in Seq(Observation), NEW r \in Observation,
           NEW done \in Completion, Seen(done, obs), Backed(done, obs)
    PROVE  Backed(done, Append(obs, r))
<1>1. /\ Len(obs) \in Nat /\ done.since \in Nat /\ done.upto \in Nat
      /\ done.since <= done.upto /\ done.upto <= Len(obs)
  BY DEF Completion, Seen
<1>2. \A i \in 1 .. Len(obs) : Append(obs, r)[i] = obs[i]  BY AppendProperties
<1>3. \A i \in 1 .. done.upto : Append(obs, r)[i] = obs[i]  BY <1>1, <1>2
<1>4. \A i \in 1 .. done.since : Append(obs, r)[i] = obs[i]  BY <1>1, <1>3
<1>5. \A i \in 1 .. done.since : \A j \in (i + 1) .. done.upto : Append(obs, r)[j] = obs[j]
  BY <1>1, <1>3
<1> DEFINE new == Append(obs, r)
<1> HIDE DEF new
<1>6. ASSUME NEW i \in 1 .. done.since,
             /\ new[i].tree = done.tree /\ new[i].class \in Authoritative
             /\ i > done.upto - MaxRecords /\ done.at - new[i].at <= MaxAge
      PROVE  \E j \in (i + 1) .. done.upto :
               /\ new[j].class = "success"
               /\ new[j].tree = new[i].tree
               /\ Scope[new[j].invocation] = Scope[new[i].invocation]
               /\ Selects[new[i].invocation] \subseteq Selects[new[j].invocation]
  <2>1. new[i] = obs[i]  BY <1>4 DEF new
  <2>2. PICK j \in (i + 1) .. done.upto :
           /\ obs[j].class = "success"
           /\ obs[j].tree = obs[i].tree
           /\ Scope[obs[j].invocation] = Scope[obs[i].invocation]
           /\ Selects[obs[i].invocation] \subseteq Selects[obs[j].invocation]
    BY <2>1, <1>6 DEF Backed
  <2>3. new[j] = obs[j]  BY <1>5 DEF new
  <2> QED  BY <2>1, <2>2, <2>3
<1>7. Backed(done, new)  BY <1>6 DEF Backed
<1> QED  BY <1>7 DEF new

LEMMA BackedStep ==
    ASSUME MatchingSound, JournalInv, CompletionBacked, [JournalNext]_journalVars
    PROVE  CompletionBacked'
<1> SUFFICES ASSUME NEW done \in completions', done.tree # None, corruptions' = 0
             PROVE  Backed(done, observed')
  BY DEF CompletionBacked, Backed, ReallyResolved
<1>1. observed \in Seq(Observation) /\ completions \subseteq Completion /\ corruptions \in Nat
      /\ \A d \in completions : Seen(d, observed)
  BY DEF JournalInv, JournalType
<1>2. corruptions = 0
  <2>1. corruptions' = corruptions \/ corruptions' = corruptions + 1
    BY DEF JournalNext, journalVars, Verify, Execute, Denied, CaptureTree, CaptureNothing, TakeLock,
       Load, Quarantine, SummarizePrior, Record, RecordFails, Report, AskCompletion,
       CompleteUnknown, Refuse, Complete, Edit, Commit, Corrupt, Tick
  <2> QED  BY <2>1, <1>1
<1>3. \A d \in completions : d.tree # None => Backed(d, observed)
  BY <1>2 DEF CompletionBacked, Backed, ReallyResolved
<1>4. ASSUME NEW c \in Handlers, Record(c) PROVE Backed(done, observed')
  <2>1. call[c].invocation \in Invocations /\ call[c].class \in Outcomes
        /\ call[c].tree \in Hashes /\ call[c].at \in Nat
    BY <1>4, HandlerFacts DEF HandlerOK, Recording, Record
  <2>2. RecordOf(call[c]) \in Observation  BY <2>1 DEF RecordOf, Observation
  <2>3. completions' = completions /\ observed' = Append(observed, RecordOf(call[c]))
    BY <1>4 DEF Record
  <2> QED  BY <2>2, <2>3, <1>1, <1>3, BackedMore
<1>5. ASSUME NEW c \in Handlers, Complete(c) PROVE Backed(done, observed')
  <2>1. observed' = observed  BY <1>5 DEF Complete, journal
  <2>2. completions' = completions \cup
          {[tree |-> call[c].tree, at |-> now, since |-> call[c].since, upto |-> call[c].upto]}
    BY <1>5 DEF Complete
  <2> QED  BY <2>1, <2>2, <1>2, <1>3, <1>5, CompleteBacks
<1>6. ASSUME NEW c \in Handlers, CompleteUnknown(c) PROVE Backed(done, observed')
  <2>1. completions' = {[tree |-> None, at |-> now, since |-> Len(observed),
                         upto |-> Len(observed)]}
    BY <1>6 DEF CompleteUnknown
  <2> QED  BY <2>1
<1>7. ASSUME observed' = observed, completions' = completions PROVE Backed(done, observed')
  BY <1>3, <1>7
<1>8. ASSUME NEW c \in Handlers,
             \/ Verify(c) \/ Execute(c) \/ Denied(c) \/ CaptureTree(c) \/ CaptureNothing(c)
             \/ TakeLock(c) \/ Load(c) \/ Quarantine(c) \/ SummarizePrior(c)
             \/ RecordFails(c) \/ Report(c) \/ AskCompletion(c) \/ Refuse(c)
      PROVE  observed' = observed /\ completions' = completions
  BY <1>8 DEF journal, Verify, Execute, Denied, CaptureTree, CaptureNothing, TakeLock,
     Load, Quarantine, SummarizePrior, RecordFails, Report, AskCompletion, Refuse
<1>9. ASSUME Edit \/ Commit \/ Corrupt \/ Tick \/ UNCHANGED journalVars
      PROVE  observed' = observed /\ completions' = completions
  BY <1>9 DEF journal, Edit, Commit, Corrupt, Tick, journalVars
<1> QED  BY <1>4, <1>5, <1>6, <1>7, <1>8, <1>9 DEF JournalNext

\* No completion passes the gate over an unresolved compile or test failure of
\* the captured tree that was recorded before the request and is still protected
\* by retention, provided the token matching of success_supersedes_same_tree is
\* sound for the invocations in use: no interleaving of recordings, reads of the
\* journal and the gate can hide the failure.
THEOREM CompletionIsBacked == MatchingSound /\ JournalSpec => []CompletionBacked
<1> SUFFICES ASSUME MatchingSound PROVE JournalSpec => []CompletionBacked
  OBVIOUS
<1>1. JournalSpec => []JournalInv  BY JournalInvariant
<1>2. JournalInit => CompletionBacked  BY DEF JournalInit, CompletionBacked
<1>3. JournalInv /\ CompletionBacked /\ [JournalNext]_journalVars => CompletionBacked'
  BY BackedStep
<1> QED  BY <1>1, <1>2, <1>3, PTL DEF JournalSpec

==============================================================================
