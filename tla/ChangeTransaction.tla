------------------------- MODULE ChangeTransaction -------------------------
(***************************************************************************)
(* The guarded mutation of workspace files: the MCP tools apply_change and *)
(* apply_changes over ChangeEngine (change-engine/src/coding).             *)
(*                                                                         *)
(* A call prepares every file from what is on disk, checks the whole set   *)
(* for conflicts, applies file by file, reads every file back, and on a    *)
(* failure restores the files it has applied.  Calls of one server process *)
(* take turns on the workspace's mutation_lock; editors, build tools and   *)
(* other server processes take no lock and may write any file between any  *)
(* two system calls (Outsider), which is why every step here is one        *)
(* system call.                                                            *)
(*                                                                         *)
(* A content is a value: which text is replaced in it, and whether that    *)
(* text occurs exactly once, is the caller's choice, so a request says     *)
(* only what the whole file is to become, and prepare may refuse any       *)
(* request.                                                                *)
(***************************************************************************)
EXTENDS Integers, Sequences, FiniteSets

CONSTANTS
    Files,       \* paths inside the workspace root
    Contents,    \* contents a caller or an editor writes
    Torn,        \* what a file holds between truncation and the end of a write
    Absent,      \* there is no such file
    Calls,       \* tool calls that will ever arrive
    NoCall,      \* the lock is free
    MaxRecent,   \* MAX_RECENT_EDITS
    MaxFiles,    \* bound: requests in one transaction
    MaxEdits,    \* bound: writes by outsiders
    MaxFaults,   \* bound: system calls that fail
    MaxCrashes   \* bound: server restarts

ASSUME ConstantsAssumption ==
    /\ Absent \notin Contents \cup {Torn}
    /\ Torn \notin Contents
    /\ NoCall \notin Calls
    /\ {MaxRecent, MaxFiles, MaxEdits, MaxFaults, MaxCrashes} \subseteq Nat

VARIABLES
    disk,         \* [Files -> what the file holds]
    lock,         \* the call that holds mutation_lock
    call,         \* [Calls -> the local state of the handler]
    recent_edits, \* Seq(Files): the edits this server process remembers
    history,      \* Seq(Calls): the ChangeApplied events, in order
    edits,        \* writes by outsiders so far
    faults,       \* failed system calls so far
    crashes       \* server restarts so far

vars == <<disk, lock, call, recent_edits, history, edits, faults, crashes>>

----------------------------------------------------------------------------
(* Records *)

OnDisk == Contents \cup {Torn, Absent}

TransactionRequest == [path : Files, new : Contents]

\* backup is Absent where the code has created = true and backup = "".
PreparedChange == [path : Files, backup : OnDisk, full_new : Contents]

created(ch) == ch.backup = Absent

\* The steps of the two handlers; "done" is any return, "dead" a call whose
\* server process died.
Steps == {"prepare", "conflict", "check", "open", "write", "verify", "rollback", "report"}

\* refused: prepare said no.  conflict: the conflict pass said no.  failed: a
\* single apply said no.  rolled_back / uncertain: a rollback that reports
\* complete() or not.  ok: applied and verified.
Outcomes == {"none", "refused", "conflict", "failed", "rolled_back", "uncertain", "ok"}

\* i is the loop index of the current pass; applied the changes written so
\* far; stopped the index of the change whose apply failed, or 0; unrestored
\* the files in RollbackReport.failed.  before and disturbed are history: the
\* disk when the call took the lock, and the files outsiders wrote since.
CallRecord ==
    [pc : {"idle", "waiting", "done", "dead"} \cup Steps,
     kind : {"apply_change", "apply_changes"},
     requests : Seq(TransactionRequest), changes : Seq(PreparedChange),
     i : Nat, applied : Nat, stopped : Nat, mismatched : BOOLEAN,
     unrestored : SUBSET Files, outcome : Outcomes,
     before : [Files -> OnDisk], disturbed : SUBSET Files]

Idle ==
    [pc |-> "idle", kind |-> "apply_change", requests |-> <<>>, changes |-> <<>>,
     i |-> 1, applied |-> 0, stopped |-> 0, mismatched |-> FALSE,
     unrestored |-> {}, outcome |-> "none",
     before |-> [f \in Files |-> Absent], disturbed |-> {}]

InFlight(c) == call[c].pc \in Steps

Change(c) == call[c].changes[call[c].i]

----------------------------------------------------------------------------
(* What the steps share *)

\* A local step of the handler: nothing outside its own state changes.
Local(c, r) ==
    /\ call' = [call EXCEPT ![c] = r]
    /\ UNCHANGED <<disk, lock, recent_edits, history, edits, faults, crashes>>

\* Returning drops the guard of mutation_lock.
Return(c, r, outcome) ==
    /\ call' = [call EXCEPT ![c] = [r EXCEPT !.pc = "done", !.outcome = outcome]]
    /\ lock' = NoCall

\* The next file of a pass, or the first step of the pass after it.
Advance(r, n, self, next) ==
    IF r.i < n THEN [r EXCEPT !.i = @ + 1, !.pc = self]
               ELSE [r EXCEPT !.i = 1, !.pc = next]

Fault == faults < MaxFaults /\ faults' = faults + 1

\* Mutant: the rollback covers every file of the transaction.
ApplyFailed_restore_all(c) ==
    LET r == [call[c] EXCEPT !.stopped = call[c].i]
    IN  /\ IF r.kind = "apply_change" THEN Return(c, r, "failed")
           ELSE /\ call' = [call EXCEPT ![c] = [r EXCEPT !.pc = "rollback", !.i = Len(r.changes)]]
                /\ UNCHANGED lock
        /\ UNCHANGED <<disk, recent_edits, history, edits, crashes>>

\* apply returned an error.  A transaction restores what it has applied so
\* far, last file first, the failing file not among them; a single change
\* just returns.
ApplyFailed(c) ==
    LET r == [call[c] EXCEPT !.stopped = call[c].i]
    IN  /\ IF r.kind = "apply_change"
           THEN Return(c, r, "failed")
           ELSE IF r.applied = 0
           THEN Return(c, r, "rolled_back")
           ELSE /\ call' = [call EXCEPT ![c] = [r EXCEPT !.pc = "rollback", !.i = r.applied]]
                /\ UNCHANGED lock
        /\ UNCHANGED <<disk, recent_edits, history, edits, crashes>>

----------------------------------------------------------------------------
(* The handlers, one system call at a time *)

\* A tool call arrives and queues for the lock.
Arrive(c, kind, reqs) ==
    /\ call[c].pc = "idle"
    /\ call' = [call EXCEPT ![c] = [Idle EXCEPT !.pc = "waiting", !.kind = kind, !.requests = reqs]]
    /\ UNCHANGED <<disk, lock, recent_edits, history, edits, faults, crashes>>

\* Mutant: the handler does not wait for the lock.
Acquire_unlocked(c) ==
    /\ call[c].pc = "waiting"
    /\ lock' = c
    /\ call' = [call EXCEPT ![c].pc = "prepare", ![c].before = disk]
    /\ UNCHANGED <<disk, recent_edits, history, edits, faults, crashes>>

Acquire(c) ==
    /\ call[c].pc = "waiting"
    /\ lock = NoCall
    /\ lock' = c
    /\ call' = [call EXCEPT ![c].pc = "prepare", ![c].before = disk]
    /\ UNCHANGED <<disk, recent_edits, history, edits, faults, crashes>>

\* One file of the request is snapshotted; an absent file is to be created.
prepare(c) ==
    LET r == call[c]
        q == r.requests[r.i]
        p == [r EXCEPT !.changes = Append(@, [path |-> q.path, backup |-> disk[q.path],
                                              full_new |-> q.new])]
    IN  /\ r.pc = "prepare"
        /\ Local(c, Advance(p, Len(r.requests), "prepare",
                            IF r.kind = "apply_changes" THEN "conflict" ELSE "check"))

\* prepare refuses: boundary, blind overwrite, `old` not found or ambiguous,
\* unreadable.
refuse(c) ==
    /\ call[c].pc = "prepare"
    /\ Return(c, call[c], "refused")
    /\ UNCHANGED <<disk, recent_edits, history, edits, faults, crashes>>

\* A file of the conflict pass or of apply is not its snapshot any more, or
\* cannot be read.
StaleOrUnreadable(c) ==
    \/ disk[Change(c).path] # Change(c).backup /\ UNCHANGED faults
    \/ Fault

\* apply_transaction, conflict pass: one file, no write.
conflict_pass(c) ==
    /\ call[c].pc = "conflict"
    /\ \/ /\ disk[Change(c).path] = Change(c).backup
          /\ Local(c, Advance(call[c], Len(call[c].changes), "conflict", "check"))
       \/ /\ StaleOrUnreadable(c)
          /\ Return(c, call[c], "conflict")
          /\ UNCHANGED <<disk, recent_edits, history, edits, crashes>>

\* apply: symlink check, then the file must still be its snapshot.
apply_check(c) ==
    /\ call[c].pc = "check"
    /\ \/ /\ disk[Change(c).path] = Change(c).backup
          /\ Local(c, [call[c] EXCEPT !.pc = "open"])
       \/ /\ StaleOrUnreadable(c)
          /\ ApplyFailed(c)

\* A modified file goes through PatchEngine, which reads it once more and
\* rebuilds the new content on that base, line by line from the top.  The
\* exactness gate refuses a rebuild that is not full_new; a base that
\* changed can pass it, and an unchanged one can fail it (module
\* PatchEngine).  The read fails when the file is gone.
patch_refused(c) ==
    /\ call[c].pc = "open"
    /\ ~ created(Change(c))
    /\ ApplyFailed(c)
    /\ UNCHANGED faults

\* std::fs::write opens with O_CREAT and O_TRUNC: the old content is gone.
open_truncate(c) ==
    /\ call[c].pc = "open"
    /\ created(Change(c)) \/ disk[Change(c).path] # Absent
    /\ disk' = [disk EXCEPT ![Change(c).path] = Torn]
    /\ call' = [call EXCEPT ![c].pc = "write"]
    /\ UNCHANGED <<lock, recent_edits, history, edits, faults, crashes>>

\* Creating the parents or opening the file fails; nothing was written.
open_failed(c) ==
    /\ call[c].pc = "open"
    /\ Fault
    /\ ApplyFailed(c)

\* Mutant: a change that was written is not counted among the applied ones.
Written_uncounted(r) ==
    Advance(r, Len(r.changes), "check", "verify")

Written(r) ==
    Advance([r EXCEPT !.applied = r.i], Len(r.changes), "check", "verify")

\* The content is written through the open descriptor.  If an outsider wrote
\* the file meanwhile the two writes mix, and if it replaced the file ours
\* goes to the unlinked one.
write_content(c) ==
    LET f == Change(c).path
    IN  /\ call[c].pc = "write"
        /\ \E v \in {Change(c).full_new} \cup (IF disk[f] = Torn THEN {} ELSE {Torn, disk[f]}) :
              disk' = [disk EXCEPT ![f] = v]
        /\ call' = [call EXCEPT ![c] = Written(call[c])]
        /\ UNCHANGED <<lock, recent_edits, history, edits, faults, crashes>>

\* The disk is full: apply fails and the file stays truncated.
write_failed(c) ==
    /\ call[c].pc = "write"
    /\ Fault
    /\ ApplyFailed(c)

\* One file is read back; after the last, any mismatch or failed read rolls
\* all back.
verify_applied(c) ==
    /\ call[c].pc = "verify"
    /\ \E unreadable \in BOOLEAN :
          LET r == [call[c] EXCEPT !.mismatched =
                       @ \/ unreadable \/ disk[Change(c).path] # Change(c).full_new]
          IN  /\ IF unreadable THEN Fault ELSE UNCHANGED faults
              /\ call' = [call EXCEPT ![c] =
                    IF r.i < Len(r.changes) THEN [r EXCEPT !.i = @ + 1]
                    ELSE [r EXCEPT !.pc = IF r.mismatched THEN "rollback" ELSE "report"]]
    /\ UNCHANGED <<disk, lock, recent_edits, history, edits, crashes>>

\* A file that cannot be restored is noted and the loop goes on.
AfterRestore(r, failed) ==
    [r EXCEPT !.i = @ - 1,
              !.unrestored = IF failed THEN @ \cup {r.changes[r.i].path} ELSE @]

\* rollback_changes and rollback_change, one file: a created file is removed,
\* a modified one is replaced atomically by its snapshot, whatever it holds
\* now.  Either can fail.
rollback(c) ==
    /\ call[c].pc = "rollback" /\ call[c].i > 0
    /\ \E failed \in BOOLEAN :
          /\ IF failed THEN Fault /\ UNCHANGED disk
             ELSE disk' = [disk EXCEPT ![Change(c).path] = Change(c).backup] /\ UNCHANGED faults
          /\ call' = [call EXCEPT ![c] = AfterRestore(call[c], failed)]
    /\ UNCHANGED <<lock, recent_edits, history, edits, crashes>>

\* Mutant: the error always says that the rollback was complete.
rollback_done_optimistic(c) ==
    /\ call[c].pc = "rollback" /\ call[c].i = 0
    /\ Return(c, call[c], "rolled_back")
    /\ UNCHANGED <<disk, recent_edits, history, edits, faults, crashes>>

\* Mutant: the loop ends only when everything is restored.
rollback_done_until_clean(c) ==
    /\ call[c].pc = "rollback" /\ call[c].i = 0 /\ call[c].unrestored = {}
    /\ Return(c, call[c], "rolled_back")
    /\ UNCHANGED <<disk, recent_edits, history, edits, faults, crashes>>

\* The error says whether every attempted restore succeeded.
rollback_done(c) ==
    /\ call[c].pc = "rollback" /\ call[c].i = 0
    /\ Return(c, call[c], IF call[c].unrestored = {} THEN "rolled_back" ELSE "uncertain")
    /\ UNCHANGED <<disk, recent_edits, history, edits, faults, crashes>>

\* Entries older than the relevance window go first, then the oldest ones
\* past the cap.
remember_edits(new) ==
    \E aged \in 0..Len(recent_edits) :
        LET all == SubSeq(recent_edits, aged + 1, Len(recent_edits)) \o new
        IN  recent_edits' = SubSeq(all, IF Len(all) > MaxRecent THEN Len(all) - MaxRecent + 1 ELSE 1,
                                   Len(all))

\* Success: the process remembers the edits, and the history event is
\* captured on a best-effort basis.
report(c) ==
    /\ call[c].pc = "report"
    /\ remember_edits([k \in DOMAIN call[c].changes |-> call[c].changes[k].path])
    /\ history' \in {history, Append(history, c)}
    /\ Return(c, call[c], "ok")
    /\ UNCHANGED <<disk, edits, faults, crashes>>

\* Anyone who does not take the lock: an editor, a build, another server.
Outsider(f, v) ==
    /\ edits < MaxEdits
    /\ v # disk[f]
    /\ disk' = [disk EXCEPT ![f] = v]
    /\ call' = [c \in Calls |-> IF InFlight(c) THEN [call[c] EXCEPT !.disturbed = @ \cup {f}]
                                               ELSE call[c]]
    /\ edits' = edits + 1
    /\ UNCHANGED <<lock, recent_edits, history, faults, crashes>>

\* The server process dies.  Nothing about the call was persisted: the files
\* stay as they are, and the calls, the lock and the remembered edits are gone.
Crash ==
    /\ crashes < MaxCrashes
    /\ crashes' = crashes + 1
    /\ call' = [c \in Calls |-> IF InFlight(c) \/ call[c].pc = "waiting"
                                THEN [call[c] EXCEPT !.pc = "dead"] ELSE call[c]]
    /\ lock' = NoCall
    /\ recent_edits' = <<>>
    /\ UNCHANGED <<disk, history, edits, faults>>

----------------------------------------------------------------------------
\* A workspace with any content; nothing has been asked yet.
Init ==
    /\ disk \in [Files -> Contents \cup {Absent}]
    /\ lock = NoCall
    /\ call = [c \in Calls |-> Idle]
    /\ recent_edits = <<>>
    /\ history = <<>>
    /\ edits = 0 /\ faults = 0 /\ crashes = 0

\* Requests of one transaction: not empty.  prepare_changes refuses a path
\* string that occurs twice, but one file can be named by two strings ("a" and
\* "./a", or a link inside the workspace), so a file may occur twice.
Requests(n) == UNION {[1..k -> TransactionRequest] : k \in 1..n}

Step(c) ==
    \/ prepare(c) \/ refuse(c) \/ conflict_pass(c)
    \/ apply_check(c) \/ patch_refused(c) \/ open_truncate(c) \/ open_failed(c)
    \/ write_content(c) \/ write_failed(c)
    \/ verify_applied(c) \/ rollback(c) \/ rollback_done(c) \/ report(c)

Next ==
    \/ \E c \in Calls : Step(c) \/ Acquire(c)
    \/ \E c \in Calls : \E s \in Requests(1) : Arrive(c, "apply_change", s)
    \/ \E c \in Calls : \E s \in Requests(MaxFiles) : Arrive(c, "apply_changes", s)
    \/ \E f \in Files, v \in Contents \cup {Absent} : Outsider(f, v)
    \/ Crash

Spec == Init /\ [][Next]_vars

\* A handler runs straight through to its return, with no await after the
\* lock, and tokio's Mutex hands the lock to waiters in order.
FairSpec ==
    /\ Spec
    /\ \A c \in Calls : WF_vars(Step(c)) /\ WF_vars(Acquire(c))

----------------------------------------------------------------------------
(* Properties *)

\* The files a call means to change.
Targets(c) == {call[c].changes[k].path : k \in DOMAIN call[c].changes}

\* What a call may have put into file f, or left there when its write failed.
Own(c, f) ==
    {call[c].changes[k].full_new : k \in {j \in DOMAIN call[c].changes : call[c].changes[j].path = f}}

Returns(c) == call[c].pc # "done" /\ call'[c].pc = "done"

\* What the answer of a call that returns says of file f is true.
HonestAbout(c, f) ==
    IF call'[c].outcome = "ok" /\ f \in Targets(c)
    THEN \A k \in DOMAIN call[c].changes :
            call[c].changes[k].path = f => disk'[f] = call[c].changes[k].full_new
    ELSE \/ disk'[f] = call[c].before[f]
         \/ f \in call'[c].unrestored /\ call'[c].outcome = "uncertain"
         \/ /\ call'[c].stopped # 0
            /\ f = call[c].changes[call'[c].stopped].path
            /\ disk'[f] = Torn

\* All or nothing, reported honestly: when a call returns, every file that no
\* outsider wrote during the call holds the prepared result if the call says
\* ok (files it did not name are as before), and its content from before the
\* call otherwise, unless the error names it as not restored, or it is the
\* very file whose write failed and was left truncated.
AllOrNothing ==
    [][\A c \in Calls : Returns(c) => \A f \in Files \ call[c].disturbed : HonestAbout(c, f)]_vars

\* Isolation by mutation_lock: as long as no outsider interferes, a call in
\* flight sees only what was there when it took the lock and what it wrote
\* itself; no other call of the same server gets in between.
Isolation ==
    \A c \in Calls : InFlight(c) =>
        \A f \in Files \ call[c].disturbed :
            \/ disk[f] \in {call[c].before[f]} \cup Own(c, f)
            \/ /\ disk[f] = Torn
               /\ call[c].pc = "write" /\ f = Change(c).path
            \/ /\ disk[f] = Torn
               /\ call[c].stopped # 0 /\ f = call[c].changes[call[c].stopped].path

\* The step is one of the rollback of call c, and it changes file f.
RollsBack(c, f) ==
    call[c].pc = "rollback" /\ call'[c] # call[c] /\ disk'[f] # disk[f] /\ edits' = edits

\* A rollback only touches files the call had applied: an outsider's version
\* of the file that made apply fail, or of one that was not reached, survives.
RollbackOnlyApplied ==
    [][\A c \in Calls, f \in Files :
          RollsBack(c, f) => \E k \in 1..call[c].applied : call[c].changes[k].path = f]_vars

\* Every call that waits for the lock returns, unless its server dies: no pass
\* is left without a next step, whatever fails or is edited on the way, and the
\* lock is always released.
CallsReturn ==
    \A c \in Calls : call[c].pc = "waiting" ~> call[c].pc \in {"done", "dead"}

----------------------------------------------------------------------------
(* The abstract transaction *)

\* The files as they are but for the work of the call in flight.
StoreView ==
    [f \in Files |-> IF lock # NoCall /\ f \notin call[lock].disturbed
                     THEN call[lock].before[f] ELSE disk[f]]

TouchedView == IF lock = NoCall THEN {} ELSE call[lock].disturbed

\* One file may be named by several requests.
WantedBy(requests) ==
    [f \in Files |-> {requests[k].new : k \in {j \in DOMAIN requests : requests[j].path = f}}]

FateOf(r) ==
    IF r.pc = "idle" THEN "new"
    ELSE IF r.pc = "waiting" THEN "asked"
    ELSE IF r.pc \in Steps THEN "open"
    ELSE IF r.pc = "dead" THEN "lost"
    ELSE IF r.outcome = "ok" THEN "done"
    ELSE IF r.outcome = "uncertain" THEN "uncertain" ELSE "undone"

WantedView == [c \in Calls |-> WantedBy(call[c].requests)]

FateView == [c \in Calls |-> FateOf(call[c])]

NotedView == [c \in Calls |-> IF call[c].pc = "done" THEN call[c].unrestored ELSE {}]

Transaction == INSTANCE SnapshotTx WITH
    Values <- OnDisk, Txs <- Calls, NoTx <- NoCall, store <- StoreView, open <- lock,
    touched <- TouchedView, wanted <- WantedView, fate <- FateView, noted <- NotedView

\* The change engine implements the abstract transaction: step for step its
\* system calls are invisible to who looks at the store, a call takes effect in
\* the step that returns and as SnapshotTx allows, it never changes a file it
\* does not name, and a crash leaves in each named file the old content, a
\* wanted one or half of one (apply_transaction, rollback_changes).
ImplementsTransaction == Transaction!Spec

============================================================================
