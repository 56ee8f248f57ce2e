------------------------- MODULE ChangeEngineProofs -------------------------
(***************************************************************************)
(* Proofs about the change engine.  First ChangeTransaction: for any       *)
(* workspace, any number of calls and of requests in a transaction, and    *)
(* any number of edits by outsiders, failed system calls and crashes, up   *)
(* to the refinement of SnapshotTx.  Then PatchEngine: for texts of any    *)
(* number of lines.                                                        *)
(***************************************************************************)
EXTENDS ChangeTransaction, PatchEngine, TLAPS, FiniteSetTheorems, SequenceTheorems,
        WellFoundedInduction

----------------------------------------------------------------------------
(* The inductive invariant *)

TypeOK ==
    /\ disk \in [Files -> OnDisk]
    /\ lock \in Calls \cup {NoCall}
    /\ call \in [Calls -> CallRecord]
    /\ recent_edits \in Seq(Files)
    /\ history \in Seq(Calls)
    /\ edits \in Nat /\ faults \in Nat /\ crashes \in Nat

\* A call in flight holds the lock, so there is at most one.
LockInv == \A c \in Calls : InFlight(c) => lock = c

\* How far a call is, by the pass it is in.
Passes == {"prepare", "conflict", "check", "open", "write", "verify"}

Progress(r) ==
    /\ r.pc \in Steps \cup {"waiting"}
        => r.requests # <<>> /\ (r.kind = "apply_change" => Len(r.requests) = 1)
    /\ r.pc \in {"waiting", "prepare"} => Len(r.changes) = r.i - 1
    /\ r.pc \in Steps \ {"prepare"} => Len(r.changes) = Len(r.requests)
    /\ r.pc = "waiting" => r.i = 1
    /\ r.pc \in Passes => r.i \in 1 .. Len(r.requests)
    /\ r.pc \in {"waiting", "prepare", "conflict"} => r.applied = 0
    /\ r.pc \in {"check", "open", "write"} => r.applied = r.i - 1
    /\ r.pc \in {"verify", "report"} => r.applied = Len(r.changes)
    /\ r.pc \in (Steps \ {"rollback"}) \cup {"waiting"} => r.stopped = 0 /\ r.unrestored = {}
    /\ r.pc \in (Steps \ {"verify", "rollback"}) \cup {"waiting"} => ~ r.mismatched
    /\ r.pc = "rollback"
        => /\ r.i \in 0 .. r.applied
           /\ \/ r.stopped = 0 /\ r.applied = Len(r.changes)
              \/ r.stopped = r.applied + 1 /\ r.stopped <= Len(r.changes)

\* The file whose write is under way, or failed.
HalfWritten(r, f) ==
    \/ r.pc = "write" /\ f = r.changes[r.i].path
    \/ r.stopped # 0 /\ f = r.changes[r.stopped].path

\* Nothing but the call's own work is in file f, which holds x.
OwnWork(r, f, x) ==
    \/ x = r.before[f]
    \/ \E k \in DOMAIN r.changes : r.changes[k].path = f /\ x = r.changes[k].full_new
    \/ x = Torn /\ HalfWritten(r, f)

\* The snapshots of f are what it held when the call took the lock.
Snapshots(r, f) ==
    \A k \in DOMAIN r.changes : r.changes[k].path = f => r.changes[k].backup = r.before[f]

\* A file no change of which was applied is as before, unless it is half
\* written; one whose write is under way is truncated.
Unapplied(r, f, x) ==
    /\ \/ \E k \in 1 .. r.applied : r.changes[k].path = f
       \/ x = r.before[f]
       \/ x = Torn /\ HalfWritten(r, f)
    /\ r.pc = "write" /\ f = r.changes[r.i].path => x = Torn

\* What has been read back is what was prepared.
Verified(r, f, x) ==
    /\ r.pc = "verify" /\ ~ r.mismatched
        => \A k \in 1 .. (r.i - 1) : r.changes[k].path = f => x = r.changes[k].full_new
    /\ r.pc = "report"
        => \A k \in DOMAIN r.changes : r.changes[k].path = f => x = r.changes[k].full_new

\* What the rollback has passed is restored, or noted.
Restored(r, f, x) ==
    r.pc = "rollback"
        => \A k \in (r.i + 1) .. r.applied :
              r.changes[k].path = f => x = r.before[f] \/ f \in r.unrestored

Clean(r, f, x) ==
    /\ OwnWork(r, f, x)
    /\ Snapshots(r, f)
    /\ Unapplied(r, f, x)
    /\ Verified(r, f, x)
    /\ Restored(r, f, x)

CallInv ==
    \A c \in Calls :
        /\ Progress(call[c])
        /\ InFlight(c) => \A f \in Files \ call[c].disturbed : Clean(call[c], f, disk[f])

IInv == TypeOK /\ LockInv /\ CallInv

----------------------------------------------------------------------------
(* Records *)

LEMMA IdleRecord == Idle \in CallRecord
  BY EmptySeq DEF Idle, CallRecord, Outcomes, OnDisk

LEMMA CallRecordFields ==
    ASSUME NEW r \in CallRecord
    PROVE  /\ r.pc \in {"idle", "waiting", "done", "dead"} \cup Steps
           /\ r.kind \in {"apply_change", "apply_changes"}
           /\ r.requests \in Seq(TransactionRequest) /\ r.changes \in Seq(PreparedChange)
           /\ r.i \in Nat /\ r.applied \in Nat /\ r.stopped \in Nat
           /\ r.mismatched \in BOOLEAN /\ r.unrestored \subseteq Files
           /\ r.outcome \in Outcomes
           /\ r.before \in [Files -> OnDisk] /\ r.disturbed \subseteq Files
  BY DEF CallRecord

\* The updates of a call's record, each under a name of its own so that a
\* lemma about it can be applied.
Moved(r, n, p) == [r EXCEPT !.i = n, !.pc = p]
Indexed(r, n) == [r EXCEPT !.i = n]
Disturbed(r, u) == [r EXCEPT !.disturbed = u]
Dying(r) == [r EXCEPT !.pc = "dead"]
Queued(kind, reqs) == [Idle EXCEPT !.pc = "waiting", !.kind = kind, !.requests = reqs]
RollingBack(r, n) == [r EXCEPT !.pc = "rollback", !.i = n]
Paced(r, p) == [r EXCEPT !.pc = p]
Prepared(r, cs) == [r EXCEPT !.changes = cs]
AppliedTo(r, n) == [r EXCEPT !.applied = n]
StoppedAt(r, n) == [r EXCEPT !.stopped = n]
Compared(r, b) == [r EXCEPT !.mismatched = b]
Undone(r, n, u) == [r EXCEPT !.i = n, !.unrestored = u]
Ended(r, o) == [r EXCEPT !.pc = "done", !.outcome = o]

LEMMA MovedRecord ==
    ASSUME NEW r \in CallRecord, NEW n \in Nat, NEW p \in Steps
    PROVE  Moved(r, n, p) \in CallRecord
  BY DEF CallRecord, Moved

LEMMA MovedFields ==
    ASSUME NEW r \in CallRecord, NEW n \in Nat, NEW p \in Steps
    PROVE  /\ Moved(r, n, p).pc = p
           /\ Moved(r, n, p).kind = r.kind
           /\ Moved(r, n, p).requests = r.requests
           /\ Moved(r, n, p).changes = r.changes
           /\ Moved(r, n, p).i = n
           /\ Moved(r, n, p).applied = r.applied
           /\ Moved(r, n, p).stopped = r.stopped
           /\ Moved(r, n, p).mismatched = r.mismatched
           /\ Moved(r, n, p).unrestored = r.unrestored
           /\ Moved(r, n, p).outcome = r.outcome
           /\ Moved(r, n, p).before = r.before
           /\ Moved(r, n, p).disturbed = r.disturbed
  BY MovedRecord DEF CallRecord, Moved

LEMMA RollingBackRecord ==
    ASSUME NEW r \in CallRecord, NEW n \in Nat
    PROVE  RollingBack(r, n) \in CallRecord
  BY DEF CallRecord, Steps, RollingBack

LEMMA RollingBackFields ==
    ASSUME NEW r \in CallRecord, NEW n \in Nat
    PROVE  /\ RollingBack(r, n).pc = "rollback"
           /\ RollingBack(r, n).kind = r.kind
           /\ RollingBack(r, n).requests = r.requests
           /\ RollingBack(r, n).changes = r.changes
           /\ RollingBack(r, n).i = n
           /\ RollingBack(r, n).applied = r.applied
           /\ RollingBack(r, n).stopped = r.stopped
           /\ RollingBack(r, n).mismatched = r.mismatched
           /\ RollingBack(r, n).unrestored = r.unrestored
           /\ RollingBack(r, n).outcome = r.outcome
           /\ RollingBack(r, n).before = r.before
           /\ RollingBack(r, n).disturbed = r.disturbed
  BY RollingBackRecord DEF CallRecord, RollingBack

LEMMA IndexedRecord ==
    ASSUME NEW r \in CallRecord, NEW n \in Nat
    PROVE  Indexed(r, n) \in CallRecord
  BY DEF CallRecord, Steps, Indexed

LEMMA IndexedFields ==
    ASSUME NEW r \in CallRecord, NEW n \in Nat
    PROVE  /\ Indexed(r, n).pc = r.pc
           /\ Indexed(r, n).kind = r.kind
           /\ Indexed(r, n).requests = r.requests
           /\ Indexed(r, n).changes = r.changes
           /\ Indexed(r, n).i = n
           /\ Indexed(r, n).applied = r.applied
           /\ Indexed(r, n).stopped = r.stopped
           /\ Indexed(r, n).mismatched = r.mismatched
           /\ Indexed(r, n).unrestored = r.unrestored
           /\ Indexed(r, n).outcome = r.outcome
           /\ Indexed(r, n).before = r.before
           /\ Indexed(r, n).disturbed = r.disturbed
  BY IndexedRecord DEF CallRecord, Indexed

LEMMA DisturbedRecord ==
    ASSUME NEW r \in CallRecord, NEW u \in SUBSET Files
    PROVE  Disturbed(r, u) \in CallRecord
  BY DEF CallRecord, Steps, Disturbed

LEMMA DisturbedFields ==
    ASSUME NEW r \in CallRecord, NEW u \in SUBSET Files
    PROVE  /\ Disturbed(r, u).pc = r.pc
           /\ Disturbed(r, u).kind = r.kind
           /\ Disturbed(r, u).requests = r.requests
           /\ Disturbed(r, u).changes = r.changes
           /\ Disturbed(r, u).i = r.i
           /\ Disturbed(r, u).applied = r.applied
           /\ Disturbed(r, u).stopped = r.stopped
           /\ Disturbed(r, u).mismatched = r.mismatched
           /\ Disturbed(r, u).unrestored = r.unrestored
           /\ Disturbed(r, u).outcome = r.outcome
           /\ Disturbed(r, u).before = r.before
           /\ Disturbed(r, u).disturbed = u
  BY DisturbedRecord DEF CallRecord, Disturbed

LEMMA PacedRecord ==
    ASSUME NEW r \in CallRecord, NEW p \in Steps
    PROVE  Paced(r, p) \in CallRecord
  BY DEF CallRecord, Paced

LEMMA PacedFields ==
    ASSUME NEW r \in CallRecord, NEW p \in Steps
    PROVE  /\ Paced(r, p).pc = p
           /\ Paced(r, p).kind = r.kind
           /\ Paced(r, p).requests = r.requests
           /\ Paced(r, p).changes = r.changes
           /\ Paced(r, p).i = r.i
           /\ Paced(r, p).applied = r.applied
           /\ Paced(r, p).stopped = r.stopped
           /\ Paced(r, p).mismatched = r.mismatched
           /\ Paced(r, p).unrestored = r.unrestored
           /\ Paced(r, p).outcome = r.outcome
           /\ Paced(r, p).before = r.before
           /\ Paced(r, p).disturbed = r.disturbed
  BY PacedRecord DEF CallRecord, Paced

LEMMA PreparedRecord ==
    ASSUME NEW r \in CallRecord, NEW cs \in Seq(PreparedChange)
    PROVE  Prepared(r, cs) \in CallRecord
  BY DEF CallRecord, Prepared

LEMMA PreparedFields ==
    ASSUME NEW r \in CallRecord, NEW cs \in Seq(PreparedChange)
    PROVE  /\ Prepared(r, cs).pc = r.pc
           /\ Prepared(r, cs).kind = r.kind
           /\ Prepared(r, cs).requests = r.requests
           /\ Prepared(r, cs).changes = cs
           /\ Prepared(r, cs).i = r.i
           /\ Prepared(r, cs).applied = r.applied
           /\ Prepared(r, cs).stopped = r.stopped
           /\ Prepared(r, cs).mismatched = r.mismatched
           /\ Prepared(r, cs).unrestored = r.unrestored
           /\ Prepared(r, cs).outcome = r.outcome
           /\ Prepared(r, cs).before = r.before
           /\ Prepared(r, cs).disturbed = r.disturbed
  BY PreparedRecord DEF CallRecord, Prepared

LEMMA AppliedToRecord ==
    ASSUME NEW r \in CallRecord, NEW n \in Nat
    PROVE  AppliedTo(r, n) \in CallRecord
  BY DEF CallRecord, AppliedTo

LEMMA AppliedToFields ==
    ASSUME NEW r \in CallRecord, NEW n \in Nat
    PROVE  /\ AppliedTo(r, n).pc = r.pc
           /\ AppliedTo(r, n).kind = r.kind
           /\ AppliedTo(r, n).requests = r.requests
           /\ AppliedTo(r, n).changes = r.changes
           /\ AppliedTo(r, n).i = r.i
           /\ AppliedTo(r, n).applied = n
           /\ AppliedTo(r, n).stopped = r.stopped
           /\ AppliedTo(r, n).mismatched = r.mismatched
           /\ AppliedTo(r, n).unrestored = r.unrestored
           /\ AppliedTo(r, n).outcome = r.outcome
           /\ AppliedTo(r, n).before = r.before
           /\ AppliedTo(r, n).disturbed = r.disturbed
  BY AppliedToRecord DEF CallRecord, AppliedTo

LEMMA StoppedAtRecord ==
    ASSUME NEW r \in CallRecord, NEW n \in Nat
    PROVE  StoppedAt(r, n) \in CallRecord
  BY DEF CallRecord, StoppedAt

LEMMA StoppedAtFields ==
    ASSUME NEW r \in CallRecord, NEW n \in Nat
    PROVE  /\ StoppedAt(r, n).pc = r.pc
           /\ StoppedAt(r, n).kind = r.kind
           /\ StoppedAt(r, n).requests = r.requests
           /\ StoppedAt(r, n).changes = r.changes
           /\ StoppedAt(r, n).i = r.i
           /\ StoppedAt(r, n).applied = r.applied
           /\ StoppedAt(r, n).stopped = n
           /\ StoppedAt(r, n).mismatched = r.mismatched
           /\ StoppedAt(r, n).unrestored = r.unrestored
           /\ StoppedAt(r, n).outcome = r.outcome
           /\ StoppedAt(r, n).before = r.before
           /\ StoppedAt(r, n).disturbed = r.disturbed
  BY StoppedAtRecord DEF CallRecord, StoppedAt

LEMMA ComparedRecord ==
    ASSUME NEW r \in CallRecord, NEW b \in BOOLEAN
    PROVE  Compared(r, b) \in CallRecord
  BY DEF CallRecord, Compared

LEMMA ComparedFields ==
    ASSUME NEW r \in CallRecord, NEW b \in BOOLEAN
    PROVE  /\ Compared(r, b).pc = r.pc
           /\ Compared(r, b).kind = r.kind
           /\ Compared(r, b).requests = r.requests
           /\ Compared(r, b).changes = r.changes
           /\ Compared(r, b).i = r.i
           /\ Compared(r, b).applied = r.applied
           /\ Compared(r, b).stopped = r.stopped
           /\ Compared(r, b).mismatched = b
           /\ Compared(r, b).unrestored = r.unrestored
           /\ Compared(r, b).outcome = r.outcome
           /\ Compared(r, b).before = r.before
           /\ Compared(r, b).disturbed = r.disturbed
  BY ComparedRecord DEF CallRecord, Compared

LEMMA UndoneRecord ==
    ASSUME NEW r \in CallRecord, NEW n \in Nat, NEW u \in SUBSET Files
    PROVE  Undone(r, n, u) \in CallRecord
  BY DEF CallRecord, Undone

LEMMA UndoneFields ==
    ASSUME NEW r \in CallRecord, NEW n \in Nat, NEW u \in SUBSET Files
    PROVE  /\ Undone(r, n, u).pc = r.pc
           /\ Undone(r, n, u).kind = r.kind
           /\ Undone(r, n, u).requests = r.requests
           /\ Undone(r, n, u).changes = r.changes
           /\ Undone(r, n, u).i = n
           /\ Undone(r, n, u).applied = r.applied
           /\ Undone(r, n, u).stopped = r.stopped
           /\ Undone(r, n, u).mismatched = r.mismatched
           /\ Undone(r, n, u).unrestored = u
           /\ Undone(r, n, u).outcome = r.outcome
           /\ Undone(r, n, u).before = r.before
           /\ Undone(r, n, u).disturbed = r.disturbed
  BY UndoneRecord DEF CallRecord, Undone

LEMMA EndedRecord ==
    ASSUME NEW r \in CallRecord, NEW o \in Outcomes
    PROVE  Ended(r, o) \in CallRecord
  BY DEF CallRecord, Ended

LEMMA EndedFields ==
    ASSUME NEW r \in CallRecord, NEW o \in Outcomes
    PROVE  /\ Ended(r, o).pc = "done"
           /\ Ended(r, o).kind = r.kind
           /\ Ended(r, o).requests = r.requests
           /\ Ended(r, o).changes = r.changes
           /\ Ended(r, o).i = r.i
           /\ Ended(r, o).applied = r.applied
           /\ Ended(r, o).stopped = r.stopped
           /\ Ended(r, o).mismatched = r.mismatched
           /\ Ended(r, o).unrestored = r.unrestored
           /\ Ended(r, o).outcome = o
           /\ Ended(r, o).before = r.before
           /\ Ended(r, o).disturbed = r.disturbed
  BY EndedRecord DEF CallRecord, Ended

----------------------------------------------------------------------------
(* One call moves *)

LEMMA HandlerStep ==
    ASSUME IInv, NEW c \in Calls, NEW r \in CallRecord,
           call' = [call EXCEPT ![c] = r],
           disk' \in [Files -> OnDisk],
           InFlight(c) \/ disk' = disk,
           \/ lock' = lock
           \/ InFlight(c) /\ lock' = NoCall
           \/ lock = NoCall /\ lock' = c,
           r.pc \in Steps => lock' = c,
           Progress(r),
           r.pc \in Steps => \A f \in Files \ r.disturbed : Clean(r, f, disk'[f]),
           recent_edits' \in Seq(Files), history' \in Seq(Calls),
           edits' \in Nat, faults' \in Nat, crashes' \in Nat
    PROVE  IInv'
  <1>1. call' \in [Calls -> CallRecord] /\ call'[c] = r
           /\ \A d \in Calls \ {c} : call'[d] = call[d]
    BY DEF IInv, TypeOK
  <1>2. \A d \in Calls : call[d].pc \in Steps => lock = d
    BY DEF IInv, LockInv, InFlight
  <1>3. TypeOK'
    <2>1. lock' \in Calls \cup {NoCall}
      BY DEF IInv, TypeOK
    <2> QED
      BY <1>1, <2>1 DEF TypeOK
  <1>4. LockInv'
    <2> SUFFICES ASSUME NEW d \in Calls, call'[d].pc \in Steps
                 PROVE  lock' = d
      BY DEF LockInv, InFlight
    <2>1. CASE d = c
      BY <1>1, <2>1
    <2>2. CASE d # c
      <3>1. lock = d
        BY <1>1, <1>2, <2>2
      <3>2. ~ InFlight(c) /\ lock # NoCall
        BY <1>2, <2>2, <3>1, ConstantsAssumption DEF InFlight
      <3> QED
        BY <3>1, <3>2
    <2> QED
      BY <2>1, <2>2
  <1>5. CallInv'
    <2> SUFFICES ASSUME NEW d \in Calls
                 PROVE  /\ Progress(call'[d])
                        /\ call'[d].pc \in Steps
                             => \A f \in Files \ call'[d].disturbed :
                                   Clean(call'[d], f, disk'[f])
      BY DEF CallInv, InFlight
    <2>1. CASE d = c
      BY <1>1, <2>1
    <2>2. CASE d # c
      <3>1. /\ Progress(call[d])
            /\ call[d].pc \in Steps
                 => \A f \in Files \ call[d].disturbed : Clean(call[d], f, disk[f])
        BY DEF IInv, CallInv, InFlight
      <3>2. call[d].pc \in Steps => disk' = disk
        BY <1>2, <2>2 DEF InFlight
      <3> QED
        BY <1>1, <2>2, <3>1, <3>2
    <2> QED
      BY <2>1, <2>2
  <1> QED
    BY <1>3, <1>4, <1>5 DEF IInv

\* What the invariant says of a call in flight.
LEMMA Flying ==
    ASSUME IInv, NEW c \in Calls, InFlight(c)
    PROVE  /\ call[c] \in CallRecord
           /\ lock = c
           /\ Progress(call[c])
           /\ \A f \in Files \ call[c].disturbed : Clean(call[c], f, disk[f])
           /\ disk \in [Files -> OnDisk]
           /\ recent_edits \in Seq(Files) /\ history \in Seq(Calls)
           /\ edits \in Nat /\ faults \in Nat /\ crashes \in Nat
  BY DEF IInv, TypeOK, LockInv, CallInv

\* A call that returns leaves nothing to be kept.
LEMMA ReturnStep ==
    ASSUME IInv, NEW c \in Calls, InFlight(c), NEW r \in CallRecord, NEW o \in Outcomes,
           Return(c, r, o), disk' = disk,
           recent_edits' \in Seq(Files), history' \in Seq(Calls),
           edits' \in Nat, faults' \in Nat, crashes' \in Nat
    PROVE  IInv'
  <1> DEFINE s == [r EXCEPT !.pc = "done", !.outcome = o]
  <1>0. s = Ended(r, o)
    BY DEF Ended
  <1> HIDE DEF s
  <1>1. s \in CallRecord /\ s.pc = "done"
    BY <1>0, EndedRecord, EndedFields
  <1>2. s.pc \notin Steps \cup {"waiting"} /\ s.pc \notin Passes
    BY <1>1 DEF Steps, Passes
  <1>3. call' = [call EXCEPT ![c] = s] /\ lock' = NoCall
    BY DEF Return, s
  <1>4. Progress(s)
    BY <1>1, <1>2 DEF Progress, Steps
  <1>5. disk' \in [Files -> OnDisk]
    BY Flying
  <1> QED
    BY <1>1, <1>2, <1>3, <1>4, <1>5, HandlerStep

LEMMA AdvanceMoves ==
    ASSUME NEW r \in CallRecord, NEW n \in Nat, NEW self, NEW next
    PROVE  /\ r.i < n => Advance(r, n, self, next) = Moved(r, r.i + 1, self)
           /\ ~ (r.i < n) => Advance(r, n, self, next) = Moved(r, 1, next)
  BY DEF Advance, Moved

LEMMA AdvanceRecord ==
    ASSUME NEW r \in CallRecord, NEW n \in Nat, NEW self \in Steps, NEW next \in Steps
    PROVE  Advance(r, n, self, next) \in CallRecord
  <1>1. r.i + 1 \in Nat
    BY CallRecordFields
  <1> QED
    BY <1>1, AdvanceMoves, MovedRecord

LEMMA AdvanceFields ==
    ASSUME NEW r \in CallRecord, NEW n \in Nat, NEW self \in Steps, NEW next \in Steps
    PROVE  /\ \/ /\ r.i < n
                 /\ Advance(r, n, self, next).i = r.i + 1
                 /\ Advance(r, n, self, next).pc = self
              \/ /\ ~ (r.i < n)
                 /\ Advance(r, n, self, next).i = 1
                 /\ Advance(r, n, self, next).pc = next
           /\ Advance(r, n, self, next).kind = r.kind
           /\ Advance(r, n, self, next).requests = r.requests
           /\ Advance(r, n, self, next).changes = r.changes
           /\ Advance(r, n, self, next).applied = r.applied
           /\ Advance(r, n, self, next).stopped = r.stopped
           /\ Advance(r, n, self, next).mismatched = r.mismatched
           /\ Advance(r, n, self, next).unrestored = r.unrestored
           /\ Advance(r, n, self, next).outcome = r.outcome
           /\ Advance(r, n, self, next).before = r.before
           /\ Advance(r, n, self, next).disturbed = r.disturbed
  <1>1. r.i + 1 \in Nat
    BY CallRecordFields
  <1>2. CASE r.i < n
    BY <1>1, <1>2, AdvanceMoves, MovedFields
  <1>3. CASE ~ (r.i < n)
    BY <1>3, AdvanceMoves, MovedFields
  <1> QED
    BY <1>2, <1>3

----------------------------------------------------------------------------
(* The passes before the first write *)

LEMMA AcquireStep ==
    ASSUME IInv, NEW c \in Calls, Acquire(c)
    PROVE  IInv'
  <1> DEFINE r == [call[c] EXCEPT !.pc = "prepare", !.before = disk]
  <1>1. /\ call[c] \in CallRecord /\ call[c].pc = "waiting" /\ disk \in [Files -> OnDisk]
        /\ Progress(call[c])
    BY DEF Acquire, IInv, TypeOK, CallInv
  <1>2. /\ r \in CallRecord /\ r.pc = "prepare" /\ r.before = disk
        /\ r.kind = call[c].kind /\ r.requests = call[c].requests
        /\ r.changes = call[c].changes /\ r.i = call[c].i /\ r.applied = call[c].applied
        /\ r.stopped = call[c].stopped /\ r.mismatched = call[c].mismatched
        /\ r.unrestored = call[c].unrestored /\ r.disturbed = call[c].disturbed
    BY <1>1 DEF CallRecord, Steps
  <1>3. call' = [call EXCEPT ![c] = r]
    BY DEF Acquire, IInv, TypeOK
  <1> HIDE DEF r
  <1>4. /\ call[c].requests # <<>> /\ Len(call[c].requests) \in Nat
        /\ call[c].i = 1 /\ Len(call[c].changes) = 0 /\ DOMAIN call[c].changes = {}
        /\ call[c].applied = 0
    BY <1>1, CallRecordFields DEF Progress
  <1>5. Len(call[c].requests) # 0
    BY <1>1, <1>4, CallRecordFields, EmptySeq
  <1>6. Progress(r)
    BY <1>1, <1>2, <1>4, <1>5 DEF Progress, Steps, Passes
  <1>7. \A f \in Files \ r.disturbed : Clean(r, f, disk[f])
    BY <1>2, <1>4
    DEF Clean, OwnWork, Snapshots, Unapplied, Verified, Restored, HalfWritten
  <1>8. /\ lock = NoCall /\ lock' = c /\ disk' = disk
        /\ recent_edits' \in Seq(Files) /\ history' \in Seq(Calls)
        /\ edits' \in Nat /\ faults' \in Nat /\ crashes' \in Nat
    BY DEF Acquire, IInv, TypeOK
  <1> QED
    BY <1>1, <1>2, <1>3, <1>6, <1>7, <1>8, HandlerStep

LEMMA PrepareStep ==
    ASSUME IInv, NEW c \in Calls, prepare(c)
    PROVE  IInv'
  <1> DEFINE r == call[c]
             q == r.requests[r.i]
             ch == [path |-> q.path, backup |-> disk[q.path], full_new |-> q.new]
             p == [r EXCEPT !.changes = Append(r.changes, ch)]
             n == Len(r.requests)
             next == IF r.kind = "apply_changes" THEN "conflict" ELSE "check"
             s == Advance(p, n, "prepare", next)
  <1>1. r.pc = "prepare" /\ InFlight(c)
    BY DEF prepare, InFlight, Steps
  <1>2. /\ call' = [call EXCEPT ![c] = s]
        /\ UNCHANGED <<disk, lock, recent_edits, history, edits, faults, crashes>>
    BY DEF prepare, Local
  <1>3. r \in CallRecord /\ Progress(r)
    BY <1>1, Flying
  <1>4. /\ r.i \in 1 .. n /\ n \in Nat /\ Len(r.changes) = r.i - 1 /\ r.applied = 0
        /\ r.stopped = 0 /\ r.unrestored = {} /\ ~ r.mismatched
        /\ r.requests # <<>> /\ (r.kind = "apply_change" => n = 1)
        /\ r.changes \in Seq(PreparedChange) /\ r.requests \in Seq(TransactionRequest)
        /\ r.kind \in {"apply_change", "apply_changes"}
    BY <1>1, <1>3, CallRecordFields DEF Progress, Steps, Passes
  <1>5. q \in TransactionRequest
    BY <1>4
  <1>6. /\ ch \in PreparedChange /\ ch.path = q.path /\ ch.backup = disk[q.path]
        /\ q.path \in Files
    BY <1>1, <1>5, Flying DEF PreparedChange, TransactionRequest
  <1>7. next \in Steps /\ next \in {"conflict", "check"}
    BY DEF Steps
  <1> HIDE DEF ch
  <1> DEFINE cs == Append(r.changes, ch)
  <1>8. /\ cs \in Seq(PreparedChange) /\ Len(cs) = r.i
        /\ DOMAIN cs = 1 .. r.i
        /\ cs[r.i] = ch
        /\ \A k \in 1 .. (r.i - 1) : cs[k] = r.changes[k]
    <2> DEFINE old == r.changes
    <2>1. old \in Seq(PreparedChange) /\ ch \in PreparedChange /\ Len(old) = r.i - 1 /\ r.i \in Nat
      BY <1>4, <1>6
    <2> HIDE DEF old
    <2>2. /\ Append(old, ch) \in Seq(PreparedChange)
          /\ Len(Append(old, ch)) = Len(old) + 1
          /\ \A k \in 1 .. Len(old) : Append(old, ch)[k] = old[k]
          /\ Append(old, ch)[Len(old) + 1] = ch
      BY <2>1, AppendProperties
    <2>3. cs = Append(old, ch)
      BY DEF old
    <2> HIDE DEF cs
    <2>4. Len(cs) = r.i /\ DOMAIN cs = 1 .. Len(cs)
      BY <2>1, <2>2, <2>3
    <2> QED
      BY <2>1, <2>2, <2>3, <2>4 DEF old
  <1> HIDE DEF cs
  <1>9. /\ p \in CallRecord /\ p.changes = cs
        /\ p.pc = r.pc /\ p.i = r.i
        /\ p.kind = r.kind /\ p.requests = r.requests
        /\ p.applied = r.applied /\ p.stopped = r.stopped
        /\ p.mismatched = r.mismatched /\ p.unrestored = r.unrestored
        /\ p.before = r.before /\ p.disturbed = r.disturbed
    <2>1. p = Prepared(r, cs)
      BY DEF cs, Prepared
    <2> HIDE DEF p
    <2>2. r \in CallRecord /\ cs \in Seq(PreparedChange)
      BY <1>3, <1>8
    <2> HIDE DEF r
    <2> QED
      BY <2>1, <2>2, PreparedRecord, PreparedFields
  <1> HIDE DEF p
  <1>10. /\ s \in CallRecord
         /\ \/ r.i < n /\ s.i = r.i + 1 /\ s.pc = "prepare"
            \/ ~ (r.i < n) /\ s.i = 1 /\ s.pc = next
         /\ s.changes = cs
         /\ s.kind = r.kind /\ s.requests = r.requests
         /\ s.applied = 0 /\ s.stopped = 0
         /\ ~ s.mismatched /\ s.unrestored = {}
         /\ s.before = r.before /\ s.disturbed = r.disturbed
    <2>1. "prepare" \in Steps /\ r.unrestored = {} /\ ~ r.mismatched
      BY <1>4 DEF Steps
    <2> HIDE DEF r, n, next
    <2>2. s = Advance(p, n, "prepare", next)
      OBVIOUS
    <2> HIDE DEF s
    <2>3. p \in CallRecord /\ n \in Nat /\ next \in Steps
      BY <1>4, <1>7, <1>9
    <2>4. s \in CallRecord
      BY <2>1, <2>2, <2>3, AdvanceRecord
    <2>5. /\ \/ p.i < n /\ s.i = p.i + 1 /\ s.pc = "prepare"
             \/ ~ (p.i < n) /\ s.i = 1 /\ s.pc = next
          /\ s.kind = p.kind /\ s.requests = p.requests /\ s.changes = p.changes
          /\ s.applied = p.applied /\ s.stopped = p.stopped
          /\ s.mismatched = p.mismatched /\ s.unrestored = p.unrestored
          /\ s.before = p.before /\ s.disturbed = p.disturbed
      BY <2>1, <2>2, <2>3, AdvanceFields
    <2> QED
      BY <1>4, <1>9, <2>1, <2>4, <2>5
  <1> HIDE DEF s, next
  <1>11. Progress(s)
    BY <1>4, <1>7, <1>8, <1>10 DEF Progress, Steps, Passes
  <1>12. ASSUME NEW f \in Files \ s.disturbed
         PROVE  Clean(s, f, disk[f])
    <2>1. Clean(r, f, disk[f])
      BY <1>1, <1>10, <1>12, Flying
    <2>2. disk[f] = s.before[f]
      BY <1>1, <1>4, <1>10, <2>1 DEF Clean, Unapplied, HalfWritten
    <2>3. Snapshots(s, f)
      <3>1. /\ s.changes = cs /\ s.before = r.before /\ DOMAIN cs = 1 .. r.i
            /\ \A k \in 1 .. (r.i - 1) : cs[k] = r.changes[k]
            /\ DOMAIN r.changes = 1 .. (r.i - 1) /\ r.i \in Nat
        BY <1>4, <1>8, <1>10
      <3>2. \A k \in 1 .. (r.i - 1) : cs[k].path = f => cs[k].backup = s.before[f]
        BY <2>1, <3>1 DEF Clean, Snapshots
      <3>3. cs[r.i].path = f => cs[r.i].backup = s.before[f]
        BY <1>6, <1>8, <2>2
      <3>4. \A k \in DOMAIN cs : k = r.i \/ k \in 1 .. (r.i - 1)
        BY <3>1
      <3> HIDE DEF r
      <3> QED
        BY <3>1, <3>2, <3>3, <3>4 DEF Snapshots
    <2> QED
      BY <1>7, <1>10, <2>2, <2>3 DEF Clean, OwnWork, Unapplied, Verified, Restored
  <1> HIDE DEF r
  <1>13. /\ disk' \in [Files -> OnDisk] /\ lock' = c /\ lock = c
         /\ recent_edits' \in Seq(Files) /\ history' \in Seq(Calls)
         /\ edits' \in Nat /\ faults' \in Nat /\ crashes' \in Nat
    BY <1>1, <1>2, Flying
  <1> QED
    BY <1>1, <1>2, <1>10, <1>11, <1>12, <1>13, HandlerStep

\* A step of the handler that writes no file.
LEMMA QuietStep ==
    ASSUME IInv, NEW c \in Calls, InFlight(c), NEW s \in CallRecord,
           call' = [call EXCEPT ![c] = s],
           UNCHANGED <<disk, lock, recent_edits, history, edits, crashes>>,
           faults' \in Nat, Progress(s),
           \A f \in Files \ s.disturbed : Clean(s, f, disk[f])
    PROVE  IInv'
  <1>1. /\ disk' \in [Files -> OnDisk] /\ lock' = c /\ lock' = lock
        /\ recent_edits' \in Seq(Files) /\ history' \in Seq(Calls)
        /\ edits' \in Nat /\ crashes' \in Nat /\ disk' = disk
    BY Flying
  <1> QED
    BY <1>1, HandlerStep

\* What is known in the passes after prepare: the changes are numbered like
\* the requests, and i is one of them.
LEMMA InPass ==
    ASSUME IInv, NEW c \in Calls, call[c].pc \in Passes \ {"prepare"}
    PROVE  /\ InFlight(c)
           /\ call[c].changes \in Seq(PreparedChange) /\ call[c].requests # <<>>
           /\ Len(call[c].changes) \in Nat /\ Len(call[c].requests) = Len(call[c].changes)
           /\ call[c].i \in 1 .. Len(call[c].changes)
           /\ DOMAIN call[c].changes = 1 .. Len(call[c].changes)
           /\ call[c].stopped = 0 /\ call[c].unrestored = {}
           /\ call[c].kind = "apply_change" => Len(call[c].changes) = 1
           /\ call[c].kind \in {"apply_change", "apply_changes"}
           /\ Change(c) \in PreparedChange
           /\ Change(c).path \in Files
           /\ Change(c).full_new \in Contents
           /\ Change(c).backup \in OnDisk
  <1>1. InFlight(c)
    BY DEF InFlight, Passes, Steps
  <1>2. call[c] \in CallRecord /\ Progress(call[c])
    BY <1>1, Flying
  <1>3. /\ call[c].changes \in Seq(PreparedChange)
        /\ call[c].kind \in {"apply_change", "apply_changes"}
    BY <1>2, CallRecordFields
  <1>4. /\ call[c].pc \in Steps \cup {"waiting"} /\ call[c].pc \in Passes
        /\ call[c].pc \in Steps \ {"prepare"}
        /\ call[c].pc \in (Steps \ {"rollback"}) \cup {"waiting"}
    BY DEF Passes, Steps
  <1>5. /\ call[c].requests # <<>> /\ Len(call[c].changes) = Len(call[c].requests)
        /\ call[c].i \in 1 .. Len(call[c].requests)
        /\ call[c].stopped = 0 /\ call[c].unrestored = {}
        /\ call[c].kind = "apply_change" => Len(call[c].requests) = 1
    BY <1>2, <1>4 DEF Progress
  <1>6. /\ Len(call[c].changes) \in Nat
        /\ DOMAIN call[c].changes = 1 .. Len(call[c].changes)
        /\ Change(c) \in PreparedChange
    BY <1>3, <1>5 DEF Change
  <1>7. /\ Change(c).path \in Files /\ Change(c).full_new \in Contents
        /\ Change(c).backup \in OnDisk
    BY <1>6 DEF PreparedChange
  <1> QED
    BY <1>1, <1>3, <1>5, <1>6, <1>7

LEMMA FaultType == ASSUME IInv, Fault PROVE faults' \in Nat
  BY DEF IInv, TypeOK, Fault

LEMMA StaleType ==
    ASSUME IInv, NEW c \in Calls, StaleOrUnreadable(c)
    PROVE  faults' \in Nat
  BY FaultType DEF StaleOrUnreadable, IInv, TypeOK

LEMMA RefuseStep ==
    ASSUME IInv, NEW c \in Calls, refuse(c)
    PROVE  IInv'
  <1>1. InFlight(c) /\ "refused" \in Outcomes
    BY DEF refuse, InFlight, Steps, Outcomes
  <1> QED
    BY <1>1, Flying, ReturnStep DEF refuse

LEMMA ConflictPassStep ==
    ASSUME IInv, NEW c \in Calls, conflict_pass(c)
    PROVE  IInv'
  <1> DEFINE r == call[c]
             s == Advance(r, Len(r.changes), "conflict", "check")
  <1>1. r.pc = "conflict" /\ r.pc \in Passes \ {"prepare"} /\ "conflict" \in Outcomes
    BY DEF conflict_pass, Passes, Outcomes
  <1>2. InFlight(c) /\ r \in CallRecord /\ Progress(r)
    BY <1>1, InPass, Flying
  <1>3. CASE StaleOrUnreadable(c) /\ Return(c, r, "conflict")
              /\ UNCHANGED <<disk, recent_edits, history, edits, crashes>>
    BY <1>1, <1>2, <1>3, StaleType, Flying, ReturnStep
  <1>4. CASE Local(c, s)
    <2>1. /\ call' = [call EXCEPT ![c] = s]
          /\ UNCHANGED <<disk, lock, recent_edits, history, edits, faults, crashes>>
      BY <1>4 DEF Local
    <2>2. /\ r.i \in 1 .. Len(r.changes) /\ Len(r.changes) \in Nat /\ r.applied = 0
          /\ r.stopped = 0 /\ r.unrestored = {} /\ ~ r.mismatched
          /\ r.requests # <<>> /\ (r.kind = "apply_change" => Len(r.changes) = 1)
          /\ Len(r.requests) = Len(r.changes)
      BY <1>1, <1>2, InPass DEF Progress, Steps
    <2> HIDE DEF r
    <2>3. s = Advance(r, Len(r.changes), "conflict", "check")
             /\ "conflict" \in Steps /\ "check" \in Steps
      BY DEF Steps
    <2> HIDE DEF s
    <2>8. s \in CallRecord
      BY <1>2, <2>2, <2>3, AdvanceRecord
    <2>4. /\ \/ r.i < Len(r.changes) /\ s.i = r.i + 1 /\ s.pc = "conflict"
             \/ ~ (r.i < Len(r.changes)) /\ s.i = 1 /\ s.pc = "check"
          /\ s.kind = r.kind /\ s.requests = r.requests /\ s.changes = r.changes
          /\ s.applied = r.applied /\ s.stopped = r.stopped
          /\ s.mismatched = r.mismatched /\ s.unrestored = r.unrestored
          /\ s.before = r.before /\ s.disturbed = r.disturbed
      BY <1>2, <2>2, <2>3, AdvanceFields
    <2>5. Progress(s)
      BY <2>2, <2>4 DEF Progress, Steps, Passes
    <2>6. ASSUME NEW f \in Files \ s.disturbed
          PROVE  Clean(s, f, disk[f])
      <3>1. Clean(r, f, disk[f])
        BY <1>2, <2>4, <2>6, Flying DEF r
      <3>2. disk[f] = s.before[f]
        BY <1>1, <2>2, <2>4, <3>1 DEF Clean, Unapplied, HalfWritten
      <3>3. Snapshots(s, f)
        BY <2>4, <3>1 DEF Clean, Snapshots
      <3> QED
        BY <2>4, <3>2, <3>3 DEF Clean, OwnWork, Unapplied, Verified, Restored
    <2>7. faults' \in Nat
      BY <1>2, <2>1, Flying
    <2> QED
      BY <1>2, <2>1, <2>8, <2>5, <2>6, <2>7, QuietStep
  <1> QED
    BY <1>3, <1>4 DEF conflict_pass

----------------------------------------------------------------------------
(* Writing *)

\* A failed apply returns, or rolls back what was applied before it.
LEMMA ApplyFailedStep ==
    ASSUME IInv, NEW c \in Calls, call[c].pc \in {"check", "open", "write"},
           ApplyFailed(c), faults' \in Nat
    PROVE  IInv'
  <1> DEFINE o == call[c]
             r == [o EXCEPT !.stopped = o.i]
             s == [r EXCEPT !.pc = "rollback", !.i = r.applied]
  <1>1. o.pc \in Passes \ {"prepare"}
    BY DEF Passes
  <1>2. /\ o.i \in 1 .. Len(o.changes) /\ Len(o.changes) \in Nat
        /\ o.stopped = 0 /\ o.unrestored = {}
        /\ o.requests # <<>> /\ (o.kind = "apply_change" => Len(o.changes) = 1)
        /\ Len(o.requests) = Len(o.changes)
    BY <1>1, InPass
  <1>3. InFlight(c) /\ o \in CallRecord /\ Progress(o)
    BY <1>1, InPass, Flying
  <1>4. o.applied = o.i - 1
    BY <1>3 DEF Progress
  <1>5. UNCHANGED <<disk, recent_edits, history, edits, crashes>>
    BY DEF ApplyFailed
  <1>6. \/ Return(c, r, "failed")
        \/ Return(c, r, "rolled_back")
        \/ call' = [call EXCEPT ![c] = s] /\ lock' = lock
    BY DEF ApplyFailed
  <1> HIDE DEF o
  <1>7. r = StoppedAt(o, o.i)
    BY DEF StoppedAt
  <1>8. s = RollingBack(r, r.applied)
    BY DEF RollingBack
  <1> HIDE DEF r, s
  <1>12. r \in CallRecord
    BY <1>2, <1>3, <1>7, StoppedAtRecord
  <1>9. /\ r.stopped = o.i
        /\ r.pc = o.pc /\ r.i = o.i
        /\ r.kind = o.kind /\ r.requests = o.requests /\ r.changes = o.changes
        /\ r.applied = o.applied
        /\ r.mismatched = o.mismatched /\ r.unrestored = o.unrestored
        /\ r.before = o.before /\ r.disturbed = o.disturbed
    BY <1>2, <1>3, <1>7, StoppedAtFields
  <1>10. CASE Return(c, r, "failed") \/ Return(c, r, "rolled_back")
    <2>1. {"failed", "rolled_back"} \subseteq Outcomes
      BY DEF Outcomes
    <2> QED
      BY <1>3, <1>5, <1>10, <1>12, <2>1, Flying, ReturnStep
  <1>11. CASE call' = [call EXCEPT ![c] = s] /\ lock' = lock
    <2>1. r.applied \in Nat /\ "rollback" \in Steps
      BY <1>2, <1>4, <1>9 DEF Steps
    <2>2. s \in CallRecord
      BY <1>8, <1>12, <2>1, RollingBackRecord
    <2>3. /\ s.i = o.applied /\ s.pc = "rollback"
          /\ s.kind = o.kind /\ s.requests = o.requests /\ s.changes = o.changes
          /\ s.applied = o.applied /\ s.stopped = o.i
          /\ s.mismatched = o.mismatched /\ s.unrestored = o.unrestored
          /\ s.before = o.before /\ s.disturbed = o.disturbed
      BY <1>8, <1>9, <1>12, <2>1, RollingBackFields
    <2>4. Progress(s)
      BY <1>2, <1>4, <2>3 DEF Progress, Steps, Passes
    <2>5. ASSUME NEW f \in Files \ s.disturbed
          PROVE  Clean(s, f, disk[f])
      <3>1. Clean(o, f, disk[f])
        BY <1>3, <2>3, <2>5, Flying DEF o
      <3>2. HalfWritten(o, f) => HalfWritten(s, f)
        BY <1>2, <2>3 DEF HalfWritten
      <3>3. OwnWork(s, f, disk[f])
        BY <2>3, <3>1, <3>2 DEF Clean, OwnWork
      <3>4. Snapshots(s, f)
        BY <2>3, <3>1 DEF Clean, Snapshots
      <3>5. Unapplied(s, f, disk[f])
        BY <2>3, <3>1, <3>2 DEF Clean, Unapplied
      <3>6. Restored(s, f, disk[f])
        BY <1>2, <1>4, <2>3 DEF Restored
      <3> QED
        BY <2>3, <3>3, <3>4, <3>5, <3>6 DEF Clean, Verified
    <2> QED
      BY <1>3, <1>5, <1>11, <2>2, <2>4, <2>5, QuietStep
  <1> QED
    BY <1>6, <1>10, <1>11

LEMMA ApplyCheckStep ==
    ASSUME IInv, NEW c \in Calls, apply_check(c)
    PROVE  IInv'
  <1> DEFINE o == call[c]
             s == [o EXCEPT !.pc = "open"]
  <1>1. o.pc = "check" /\ o.pc \in Passes \ {"prepare"}
    BY DEF apply_check, Passes
  <1>2. InFlight(c) /\ o \in CallRecord /\ Progress(o)
    BY <1>1, InPass, Flying
  <1>3. CASE StaleOrUnreadable(c) /\ ApplyFailed(c)
    BY <1>1, <1>3, StaleType, ApplyFailedStep
  <1>4. CASE Local(c, s)
    <2>1. /\ call' = [call EXCEPT ![c] = s]
          /\ UNCHANGED <<disk, lock, recent_edits, history, edits, faults, crashes>>
      BY <1>4 DEF Local
    <2>2. s = Paced(o, "open") /\ "open" \in Steps
      BY DEF Paced, Steps
    <2> HIDE DEF o, s
    <2>3. s \in CallRecord
      BY <1>2, <2>2, PacedRecord
    <2>4. /\ s.pc = "open" /\ s.i = o.i
          /\ s.kind = o.kind /\ s.requests = o.requests /\ s.changes = o.changes
          /\ s.applied = o.applied /\ s.stopped = o.stopped
          /\ s.mismatched = o.mismatched /\ s.unrestored = o.unrestored
          /\ s.before = o.before /\ s.disturbed = o.disturbed
      BY <1>2, <2>2, PacedFields
    <2>5. Progress(s)
      BY <1>1, <1>2, <2>4 DEF Progress, Steps, Passes
    <2>6. ASSUME NEW f \in Files \ s.disturbed
          PROVE  Clean(s, f, disk[f])
      <3>1. Clean(o, f, disk[f])
        BY <1>2, <2>4, <2>6, Flying DEF o
      <3> QED
        BY <1>1, <2>4, <3>1
        DEF Clean, OwnWork, Snapshots, Unapplied, Verified, Restored, HalfWritten
    <2>7. faults' \in Nat
      BY <1>2, <2>1, Flying
    <2> QED
      BY <1>2, <2>1, <2>3, <2>5, <2>6, <2>7, QuietStep
  <1> QED
    BY <1>3, <1>4 DEF apply_check

LEMMA PatchRefusedStep ==
    ASSUME IInv, NEW c \in Calls, patch_refused(c)
    PROVE  IInv'
  <1>1. faults' \in Nat
    BY DEF patch_refused, IInv, TypeOK
  <1> QED
    BY <1>1, ApplyFailedStep DEF patch_refused

LEMMA OpenFailedStep ==
    ASSUME IInv, NEW c \in Calls, open_failed(c)
    PROVE  IInv'
  BY FaultType, ApplyFailedStep DEF open_failed

LEMMA WriteFailedStep ==
    ASSUME IInv, NEW c \in Calls, write_failed(c)
    PROVE  IInv'
  BY FaultType, ApplyFailedStep DEF write_failed

\* A step of the handler that writes one file.
LEMMA WriteStep ==
    ASSUME IInv, NEW c \in Calls, InFlight(c), NEW s \in CallRecord,
           NEW f \in Files, NEW v \in OnDisk,
           call' = [call EXCEPT ![c] = s], disk' = [disk EXCEPT ![f] = v],
           UNCHANGED <<lock, recent_edits, history, edits, faults, crashes>>,
           Progress(s),
           f \notin s.disturbed => Clean(s, f, v),
           \A g \in Files \ s.disturbed : g # f => Clean(s, g, disk[g])
    PROVE  IInv'
  <1>1. disk \in [Files -> OnDisk]
    BY Flying
  <1>2. /\ disk' \in [Files -> OnDisk] /\ disk'[f] = v
        /\ \A g \in Files : g # f => disk'[g] = disk[g]
    BY <1>1
  <1>3. /\ lock' = c /\ lock' = lock
        /\ recent_edits' \in Seq(Files) /\ history' \in Seq(Calls)
        /\ edits' \in Nat /\ faults' \in Nat /\ crashes' \in Nat
    BY Flying
  <1>4. ASSUME NEW g \in Files \ s.disturbed
        PROVE  Clean(s, g, disk'[g])
    <2>1. CASE g = f
      BY <1>2, <2>1
    <2>2. CASE g # f
      <3>1. Clean(s, g, disk[g]) /\ disk'[g] = disk[g]
        BY <1>2, <2>2
      <3> QED
        BY <3>1
    <2> QED
      BY <2>1, <2>2
  <1> QED
    BY <1>2, <1>3, <1>4, HandlerStep

LEMMA OpenTruncateStep ==
    ASSUME IInv, NEW c \in Calls, open_truncate(c)
    PROVE  IInv'
  <1> DEFINE o == call[c]
             s == [o EXCEPT !.pc = "write"]
             p == Change(c).path
  <1>1. o.pc = "open" /\ o.pc \in Passes \ {"prepare"}
    BY DEF open_truncate, Passes
  <1>2. InFlight(c) /\ o \in CallRecord /\ Progress(o) /\ p \in Files /\ o.stopped = 0
    BY <1>1, InPass, Flying
  <1>3. /\ call' = [call EXCEPT ![c] = s] /\ disk' = [disk EXCEPT ![p] = Torn]
        /\ UNCHANGED <<lock, recent_edits, history, edits, faults, crashes>>
    BY DEF open_truncate, IInv, TypeOK
  <1>4. s = Paced(o, "write") /\ "write" \in Steps /\ p = o.changes[o.i].path
           /\ Torn \in OnDisk
    BY DEF Paced, Steps, Change, OnDisk
  <1> HIDE DEF o, s, p
  <1>5. s \in CallRecord
    BY <1>2, <1>4, PacedRecord
  <1>6. /\ s.pc = "write" /\ s.i = o.i
        /\ s.kind = o.kind /\ s.requests = o.requests /\ s.changes = o.changes
        /\ s.applied = o.applied /\ s.stopped = o.stopped
        /\ s.mismatched = o.mismatched /\ s.unrestored = o.unrestored
        /\ s.before = o.before /\ s.disturbed = o.disturbed
    BY <1>2, <1>4, PacedFields
  <1>7. Progress(s)
    BY <1>1, <1>2, <1>6 DEF Progress, Steps, Passes
  <1>8. ASSUME NEW f \in Files \ s.disturbed
        PROVE  Clean(s, f, IF f = p THEN Torn ELSE disk[f])
    <2>1. Clean(o, f, disk[f])
      BY <1>2, <1>6, <1>8, Flying DEF o
    <2>2. HalfWritten(s, f) <=> f = p
      BY <1>2, <1>4, <1>6 DEF HalfWritten
    <2>3. ~ HalfWritten(o, f)
      BY <1>1, <1>2 DEF HalfWritten
    <2>4. Snapshots(s, f) /\ Restored(s, f, IF f = p THEN Torn ELSE disk[f])
      BY <1>6, <2>1 DEF Clean, Snapshots, Restored
    <2>5. CASE f = p
      BY <1>4, <1>6, <2>2, <2>4, <2>5 DEF Clean, OwnWork, Unapplied, Verified
    <2>6. CASE f # p
      BY <1>4, <1>6, <2>1, <2>3, <2>4, <2>6 DEF Clean, OwnWork, Unapplied, Verified
    <2> QED
      BY <2>5, <2>6
  <1>9. p \notin s.disturbed => Clean(s, p, Torn)
    BY <1>2, <1>8
  <1>10. \A g \in Files \ s.disturbed : g # p => Clean(s, g, disk[g])
    BY <1>8
  <1> QED
    BY <1>2, <1>3, <1>4, <1>5, <1>7, <1>9, <1>10, WriteStep

LEMMA WriteContentStep ==
    ASSUME IInv, NEW c \in Calls, write_content(c)
    PROVE  IInv'
  <1> DEFINE o == call[c]
             a == [o EXCEPT !.applied = o.i]
             s == Advance(a, Len(a.changes), "check", "verify")
             p == Change(c).path
  <1>1. o.pc = "write" /\ o.pc \in Passes \ {"prepare"}
    BY DEF write_content, Passes
  <1>2. /\ o.i \in 1 .. Len(o.changes) /\ Len(o.changes) \in Nat
        /\ DOMAIN o.changes = 1 .. Len(o.changes)
        /\ o.stopped = 0 /\ o.unrestored = {}
        /\ o.requests # <<>> /\ (o.kind = "apply_change" => Len(o.changes) = 1)
        /\ Len(o.requests) = Len(o.changes)
        /\ InFlight(c) /\ p \in Files /\ Change(c).full_new \in Contents
    BY <1>1, InPass
  <1>3. o \in CallRecord /\ Progress(o) /\ disk \in [Files -> OnDisk]
    BY <1>2, Flying
  <1>4. o.applied = o.i - 1 /\ ~ o.mismatched
    BY <1>1, <1>3 DEF Progress, Steps
  <1>5. PICK v \in {Change(c).full_new} \cup (IF disk[p] = Torn THEN {} ELSE {Torn, disk[p]}) :
           disk' = [disk EXCEPT ![p] = v]
    BY DEF write_content
  <1>6. v \in OnDisk
    BY <1>2, <1>3, <1>5 DEF OnDisk
  <1>7. disk[p] = Torn => v = Change(c).full_new
    BY <1>5
  <1>8. Written(o) = s
    BY <1>3 DEF Written, CallRecord
  <1>9. /\ call' = [call EXCEPT ![c] = s]
        /\ UNCHANGED <<lock, recent_edits, history, edits, faults, crashes>>
    BY <1>8 DEF write_content
  <1>10. /\ a = AppliedTo(o, o.i) /\ p = o.changes[o.i].path
         /\ Change(c).full_new = o.changes[o.i].full_new
         /\ "check" \in Steps /\ "verify" \in Steps
    BY DEF AppliedTo, Change, Steps
  <1> HIDE DEF o, a, p
  <1>11. a \in CallRecord
    BY <1>2, <1>3, <1>10, AppliedToRecord
  <1>12. /\ a.i = o.i
         /\ a.kind = o.kind /\ a.requests = o.requests /\ a.changes = o.changes
         /\ a.applied = o.i /\ a.stopped = o.stopped
         /\ a.mismatched = o.mismatched /\ a.unrestored = o.unrestored
         /\ a.before = o.before /\ a.disturbed = o.disturbed
    BY <1>2, <1>3, <1>10, AppliedToFields
  <1>13. Len(a.changes) \in Nat
    BY <1>2, <1>12
  <1>14. s \in CallRecord
    BY <1>10, <1>11, <1>13, AdvanceRecord
  <1>15. /\ \/ a.i < Len(a.changes) /\ s.i = a.i + 1 /\ s.pc = "check"
            \/ ~ (a.i < Len(a.changes)) /\ s.i = 1 /\ s.pc = "verify"
         /\ s.kind = a.kind /\ s.requests = a.requests /\ s.changes = a.changes
         /\ s.applied = a.applied /\ s.stopped = a.stopped
         /\ s.mismatched = a.mismatched /\ s.unrestored = a.unrestored
         /\ s.before = a.before /\ s.disturbed = a.disturbed
    BY <1>10, <1>11, <1>13, AdvanceFields
  <1> HIDE DEF s
  <1>16. /\ \/ o.i < Len(o.changes) /\ s.i = o.i + 1 /\ s.pc = "check"
            \/ o.i = Len(o.changes) /\ s.i = 1 /\ s.pc = "verify"
         /\ s.kind = o.kind /\ s.requests = o.requests /\ s.changes = o.changes
         /\ s.applied = o.i /\ s.stopped = 0
         /\ ~ s.mismatched /\ s.unrestored = {}
         /\ s.before = o.before /\ s.disturbed = o.disturbed
    BY <1>2, <1>4, <1>12, <1>15
  <1>17. Progress(s)
    BY <1>2, <1>16 DEF Progress, Steps, Passes
  <1>18. ASSUME NEW f \in Files \ s.disturbed
         PROVE  Clean(s, f, IF f = p THEN v ELSE disk[f])
    <2>1. Clean(o, f, disk[f])
      BY <1>2, <1>16, <1>18, Flying DEF o
    <2>2. Snapshots(s, f) /\ Restored(s, f, IF f = p THEN v ELSE disk[f])
      BY <1>16, <2>1 DEF Clean, Snapshots, Restored
    <2>3. Verified(s, f, IF f = p THEN v ELSE disk[f])
      <3>1. s.pc # "report" /\ (s.pc = "verify" => s.i = 1)
        BY <1>16
      <3> QED
        BY <3>1 DEF Verified
    <2>4. CASE f = p
      <3>1. v = o.changes[o.i].full_new /\ o.changes[o.i].path = f
        BY <1>1, <1>7, <1>10, <2>1, <2>4 DEF Clean, Unapplied
      <3>2. OwnWork(s, f, v)
        BY <1>2, <1>16, <3>1 DEF OwnWork
      <3>3. Unapplied(s, f, v)
        BY <1>2, <1>16, <3>1 DEF Unapplied
      <3> QED
        BY <2>2, <2>3, <2>4, <3>2, <3>3, SMTT(40) DEF Clean
    <2>5. CASE f # p
      <3>1. ~ HalfWritten(o, f)
        BY <1>2, <1>10, <2>5 DEF HalfWritten
      <3>2. OwnWork(s, f, disk[f])
        BY <1>16, <2>1, <3>1 DEF Clean, OwnWork
      <3>3. Unapplied(s, f, disk[f])
        BY <1>2, <1>4, <1>16, <2>1, <3>1 DEF Clean, Unapplied
      <3> QED
        BY <2>2, <2>3, <2>5, <3>2, <3>3 DEF Clean
    <2> QED
      BY <2>4, <2>5
  <1>19. p \notin s.disturbed => Clean(s, p, v)
    BY <1>2, <1>18
  <1>20. \A g \in Files \ s.disturbed : g # p => Clean(s, g, disk[g])
    BY <1>18
  <1> QED
    BY <1>2, <1>5, <1>6, <1>9, <1>14, <1>17, <1>19, <1>20, WriteStep

----------------------------------------------------------------------------
(* Reading back, rolling back, reporting *)

LEMMA VerifyStep ==
    ASSUME IInv, NEW c \in Calls, verify_applied(c)
    PROVE  IInv'
  <1> DEFINE o == call[c]
             p == Change(c).path
             n == Len(o.changes)
  <1>1. o.pc = "verify" /\ o.pc \in Passes \ {"prepare"}
    BY DEF verify_applied, Passes
  <1>2. /\ o.i \in 1 .. n /\ n \in Nat
        /\ DOMAIN o.changes = 1 .. n
        /\ o.stopped = 0 /\ o.unrestored = {}
        /\ o.requests # <<>> /\ (o.kind = "apply_change" => n = 1)
        /\ Len(o.requests) = n
        /\ InFlight(c) /\ p \in Files
    BY <1>1, InPass
  <1>3. o \in CallRecord /\ Progress(o) /\ disk \in [Files -> OnDisk] /\ o.mismatched \in BOOLEAN
    BY <1>2, Flying, CallRecordFields
  <1>4. o.applied = n
    BY <1>1, <1>3 DEF Progress
  <1>5. PICK unreadable \in BOOLEAN :
           /\ IF unreadable THEN Fault ELSE UNCHANGED faults
           /\ LET r == [o EXCEPT !.mismatched =
                           @ \/ unreadable \/ disk[p] # Change(c).full_new]
              IN  call' = [call EXCEPT ![c] =
                    IF r.i < Len(r.changes) THEN [r EXCEPT !.i = @ + 1]
                    ELSE [r EXCEPT !.pc = IF r.mismatched THEN "rollback" ELSE "report"]]
    BY DEF verify_applied
  <1>6. /\ faults' \in Nat
        /\ UNCHANGED <<disk, lock, recent_edits, history, edits, crashes>>
    BY <1>5, FaultType DEF IInv, TypeOK, verify_applied
  <1> DEFINE b == o.mismatched \/ unreadable \/ disk[p] # Change(c).full_new
             r == [o EXCEPT !.mismatched = b]
             last == IF r.mismatched THEN "rollback" ELSE "report"
             s == IF r.i < Len(r.changes) THEN [r EXCEPT !.i = r.i + 1]
                  ELSE [r EXCEPT !.pc = last]
  <1>7. call' = [call EXCEPT ![c] = s]
    BY <1>5
  <1>8. b \in BOOLEAN /\ (~ b => ~ o.mismatched /\ disk[p] = Change(c).full_new)
    BY <1>3
  <1>9. r = Compared(o, b)
    BY DEF Compared
  <1>10. p = o.changes[o.i].path /\ Change(c).full_new = o.changes[o.i].full_new
    BY DEF Change
  <1> HIDE DEF o, b, r, p
  <1>11. r \in CallRecord
    BY <1>3, <1>8, <1>9, ComparedRecord
  <1>12. /\ r.mismatched = b
         /\ r.pc = o.pc /\ r.i = o.i
         /\ r.kind = o.kind /\ r.requests = o.requests /\ r.changes = o.changes
         /\ r.applied = o.applied /\ r.stopped = o.stopped
         /\ r.unrestored = o.unrestored
         /\ r.before = o.before /\ r.disturbed = o.disturbed
    BY <1>3, <1>8, <1>9, ComparedFields
  <1>13. /\ r.i < n => s = Indexed(r, r.i + 1)
         /\ ~ (r.i < n) => s = Paced(r, last)
    BY <1>12 DEF Indexed, Paced
  <1>14. last \in Steps /\ last = (IF b THEN "rollback" ELSE "report")
    BY <1>12 DEF Steps
  <1> HIDE DEF s, last
  <1>15. r.i \in 1 .. n /\ r.i + 1 \in Nat
    BY <1>2, <1>12
  <1>16. s \in CallRecord
    BY <1>11, <1>13, <1>14, <1>15, IndexedRecord, PacedRecord
  <1>17. /\ s.kind = r.kind /\ s.requests = r.requests /\ s.changes = r.changes
         /\ s.applied = r.applied /\ s.stopped = r.stopped
         /\ s.mismatched = r.mismatched /\ s.unrestored = r.unrestored
         /\ s.before = r.before /\ s.disturbed = r.disturbed
         /\ r.i < n => s.i = r.i + 1 /\ s.pc = r.pc
         /\ ~ (r.i < n) => s.i = r.i /\ s.pc = last
    BY <1>11, <1>13, <1>14, <1>15, IndexedFields, PacedFields
  <1>18. /\ \/ o.i < n /\ s.i = o.i + 1 /\ s.pc = "verify"
            \/ o.i = n /\ s.i = n /\ s.pc = "rollback" /\ b
            \/ o.i = n /\ s.i = n /\ s.pc = "report" /\ ~ b
         /\ s.kind = o.kind /\ s.requests = o.requests /\ s.changes = o.changes
         /\ s.applied = n /\ s.stopped = 0
         /\ s.mismatched = b /\ s.unrestored = {}
         /\ s.before = o.before /\ s.disturbed = o.disturbed
    BY <1>1, <1>2, <1>4, <1>12, <1>14, <1>17
  <1>19. Progress(s)
    <2>1. Len(s.changes) = n /\ Len(s.requests) = n
      BY <1>2, <1>18
    <2>2. s.requests # <<>> /\ (s.kind = "apply_change" => n = 1)
      BY <1>2, <1>18
    <2> HIDE DEF n
    <2>3. CASE s.pc = "verify"
      BY <1>2, <1>18, <2>1, <2>2, <2>3 DEF Progress, Steps, Passes
    <2>4. CASE s.pc = "rollback"
      <3>1. s.i = n /\ s.applied = n /\ s.stopped = 0 /\ n \in Nat
        BY <1>2, <1>18, <2>4
      <3> QED
        BY <2>1, <2>2, <2>4, <3>1 DEF Progress, Steps, Passes
    <2>5. CASE s.pc = "report" /\ ~ b
      BY <1>2, <1>18, <2>1, <2>2, <2>5 DEF Progress, Steps, Passes
    <2> QED
      BY <1>18, <2>3, <2>4, <2>5
  <1>20. ASSUME NEW f \in Files \ s.disturbed
         PROVE  Clean(s, f, disk[f])
    <2>1. Clean(o, f, disk[f])
      BY <1>2, <1>18, <1>20, Flying DEF o
    <2>2. ~ HalfWritten(o, f) /\ \A k \in 1 .. s.applied : s.changes[k] = o.changes[k]
      BY <1>1, <1>2, <1>18 DEF HalfWritten
    <2>3. OwnWork(s, f, disk[f]) /\ Snapshots(s, f)
      BY <1>18, <2>1, <2>2 DEF Clean, OwnWork, Snapshots
    <2>4. Unapplied(s, f, disk[f])
      BY <1>4, <1>18, <2>1, <2>2 DEF Clean, Unapplied
    <2>5. Restored(s, f, disk[f])
      BY <1>2, <1>18 DEF Restored
    <2>6. ~ b => \A k \in 1 .. o.i : o.changes[k].path = f => disk[f] = o.changes[k].full_new
      BY <1>1, <1>2, <1>8, <1>10, <2>1 DEF Clean, Verified
    <2>7. Verified(s, f, disk[f])
      BY <1>2, <1>18, <2>6 DEF Verified
    <2> QED
      BY <2>3, <2>4, <2>5, <2>7 DEF Clean
  <1> QED
    BY <1>2, <1>6, <1>7, <1>16, <1>19, <1>20, QuietStep

\* A rollback with a change left to restore.
LEMMA InRollback ==
    ASSUME IInv, NEW c \in Calls, call[c].pc = "rollback"
    PROVE  /\ InFlight(c) /\ call[c] \in CallRecord /\ Progress(call[c])
           /\ call[c].requests # <<>>
           /\ call[c].kind = "apply_change" => Len(call[c].requests) = 1
           /\ call[c].changes \in Seq(PreparedChange) /\ Len(call[c].changes) \in Nat
           /\ Len(call[c].changes) = Len(call[c].requests)
           /\ call[c].applied \in Nat /\ call[c].i \in 0 .. call[c].applied
           /\ call[c].applied <= Len(call[c].changes)
           /\ \/ call[c].stopped = 0 /\ call[c].applied = Len(call[c].changes)
              \/ /\ call[c].stopped = call[c].applied + 1
                 /\ call[c].stopped <= Len(call[c].changes)
           /\ call[c].unrestored \subseteq Files
  <1>1. InFlight(c)
    BY DEF InFlight, Steps
  <1>2. call[c] \in CallRecord /\ Progress(call[c])
    BY <1>1, Flying
  <1>3. /\ call[c].changes \in Seq(PreparedChange) /\ call[c].applied \in Nat
        /\ call[c].unrestored \subseteq Files /\ Len(call[c].changes) \in Nat
    BY <1>2, CallRecordFields
  <1> QED
    BY <1>1, <1>2, <1>3 DEF Progress, Steps

LEMMA RollbackStep ==
    ASSUME IInv, NEW c \in Calls, rollback(c)
    PROVE  IInv'
  <1> DEFINE o == call[c]
             p == o.changes[o.i].path
  <1>1. o.pc = "rollback" /\ o.i > 0
    BY DEF rollback
  <1>2. /\ InFlight(c) /\ o \in CallRecord /\ Progress(o)
        /\ o.requests # <<>> /\ (o.kind = "apply_change" => Len(o.requests) = 1)
        /\ o.changes \in Seq(PreparedChange) /\ Len(o.changes) \in Nat
        /\ Len(o.changes) = Len(o.requests)
        /\ o.applied \in Nat /\ o.i \in 1 .. o.applied /\ o.applied <= Len(o.changes)
        /\ \/ o.stopped = 0 /\ o.applied = Len(o.changes)
           \/ o.stopped = o.applied + 1 /\ o.stopped <= Len(o.changes)
        /\ o.unrestored \subseteq Files
    BY <1>1, InRollback
  <1>3. /\ o.changes[o.i] \in PreparedChange /\ o.i - 1 \in Nat
        /\ DOMAIN o.changes = 1 .. Len(o.changes)
    BY <1>2
  <1>4. p \in Files /\ o.changes[o.i].backup \in OnDisk
    BY <1>3 DEF PreparedChange
  <1>5. disk \in [Files -> OnDisk] /\ faults \in Nat
    BY <1>2, Flying
  <1>6. PICK failed \in BOOLEAN :
          /\ IF failed THEN Fault /\ UNCHANGED disk
             ELSE disk' = [disk EXCEPT ![p] = o.changes[o.i].backup] /\ UNCHANGED faults
          /\ call' = [call EXCEPT ![c] = AfterRestore(o, failed)]
    BY DEF rollback, Change
  <1>7. UNCHANGED <<lock, recent_edits, history, edits, crashes>>
    BY DEF rollback
  <1> DEFINE u == IF failed THEN o.unrestored \cup {p} ELSE o.unrestored
             s == AfterRestore(o, failed)
  <1>8. s = Undone(o, o.i - 1, u)
    BY DEF AfterRestore, Undone
  <1>9. u \in SUBSET Files /\ o.unrestored \subseteq u /\ (failed => p \in u)
    BY <1>2, <1>4
  <1>10. call' = [call EXCEPT ![c] = s]
    BY <1>6
  <1> HIDE DEF o, s, u, p
  <1>11. s \in CallRecord
    BY <1>2, <1>3, <1>8, <1>9, UndoneRecord
  <1>12. /\ s.i = o.i - 1 /\ s.unrestored = u /\ s.pc = o.pc
         /\ s.kind = o.kind /\ s.requests = o.requests /\ s.changes = o.changes
         /\ s.applied = o.applied /\ s.stopped = o.stopped
         /\ s.before = o.before /\ s.disturbed = o.disturbed
    BY <1>2, <1>3, <1>8, <1>9, UndoneFields
  <1>13. Progress(s)
    BY <1>1, <1>2, <1>12 DEF Progress, Steps, Passes
  <1>14. ASSUME NEW f \in Files \ s.disturbed, NEW x,
                \/ x = disk[f] /\ (f = p => failed)
                \/ f = p /\ x = o.changes[o.i].backup
         PROVE  Clean(s, f, x)
    <2>1. Clean(o, f, disk[f])
      BY <1>2, <1>12, <1>14, Flying DEF o
    <2>2. (x = disk[f] /\ (f = p => p \in u)) \/ x = o.before[f]
      BY <1>2, <1>3, <1>9, <1>14, <2>1 DEF Clean, Snapshots, p
    <2>3. HalfWritten(o, f) <=> HalfWritten(s, f)
      BY <1>1, <1>12 DEF HalfWritten
    <2>4. OwnWork(s, f, x) /\ Snapshots(s, f)
      BY <1>12, <2>1, <2>2, <2>3 DEF Clean, OwnWork, Snapshots
    <2>5. Unapplied(s, f, x)
      BY <1>1, <1>12, <2>1, <2>2, <2>3 DEF Clean, Unapplied
    <2>6. ASSUME NEW k \in (s.i + 1) .. s.applied, s.changes[k].path = f
          PROVE  x = s.before[f] \/ f \in s.unrestored
      <3>1. CASE x = o.before[f]
        BY <1>12, <3>1
      <3>2. CASE x = disk[f] /\ f = p /\ p \in u
        BY <1>12, <3>2
      <3>3. CASE x = disk[f] /\ f # p
        <4>1. k \in (o.i + 1) .. o.applied /\ o.changes[k].path = f
          BY <1>2, <1>12, <2>6, <3>3 DEF p
        <4>2. disk[f] = o.before[f] \/ f \in o.unrestored
          BY <1>1, <2>1, <4>1 DEF Clean, Restored
        <4> QED
          BY <1>9, <1>12, <3>3, <4>2
      <3> QED
        BY <2>2, <3>1, <3>2, <3>3
    <2>7. Restored(s, f, x) /\ Verified(s, f, x)
      BY <1>1, <1>12, <2>6 DEF Restored, Verified
    <2> QED
      BY <2>4, <2>5, <2>7 DEF Clean
  <1>15. CASE failed
    <2>1. \A f \in Files \ s.disturbed : Clean(s, f, disk[f])
      BY <1>14, <1>15
    <2>2. faults' \in Nat /\ disk' = disk
      BY <1>6, <1>15, FaultType
    <2> QED
      BY <1>2, <1>7, <1>10, <1>11, <1>13, <2>1, <2>2, QuietStep
  <1>16. CASE ~ failed
    <2>1. /\ p \notin s.disturbed => Clean(s, p, o.changes[o.i].backup)
          /\ \A g \in Files \ s.disturbed : g # p => Clean(s, g, disk[g])
      BY <1>4, <1>14
    <2>2. disk' = [disk EXCEPT ![p] = o.changes[o.i].backup] /\ UNCHANGED faults
      BY <1>6, <1>16
    <2> QED
      BY <1>2, <1>4, <1>7, <1>10, <1>11, <1>13, <2>1, <2>2, WriteStep
  <1> QED
    BY <1>15, <1>16

LEMMA RollbackDoneStep ==
    ASSUME IInv, NEW c \in Calls, rollback_done(c)
    PROVE  IInv'
  <1> DEFINE out == IF call[c].unrestored = {} THEN "rolled_back" ELSE "uncertain"
  <1>1. InFlight(c) /\ out \in Outcomes
    BY DEF rollback_done, InFlight, Steps, Outcomes
  <1>2. Return(c, call[c], out) /\ UNCHANGED <<disk, recent_edits, history, edits, faults, crashes>>
    BY DEF rollback_done
  <1> HIDE DEF out
  <1> QED
    BY <1>1, <1>2, Flying, ReturnStep

LEMMA RememberType ==
    ASSUME recent_edits \in Seq(Files), NEW new \in Seq(Files), remember_edits(new)
    PROVE  recent_edits' \in Seq(Files)
  <1>1. PICK aged \in 0 .. Len(recent_edits) :
          LET all == SubSeq(recent_edits, aged + 1, Len(recent_edits)) \o new
          IN  recent_edits' = SubSeq(all, IF Len(all) > MaxRecent THEN Len(all) - MaxRecent + 1 ELSE 1,
                                     Len(all))
    BY DEF remember_edits
  <1> DEFINE old == SubSeq(recent_edits, aged + 1, Len(recent_edits))
             all == old \o new
             from == IF Len(all) > MaxRecent THEN Len(all) - MaxRecent + 1 ELSE 1
  <1>2. old \in Seq(Files)
    BY SubSeqProperties
  <1> HIDE DEF old
  <1>3. all \in Seq(Files)
    BY <1>2, ConcatProperties
  <1>4. recent_edits' = SubSeq(all, from, Len(all))
    BY <1>1 DEF old
  <1> HIDE DEF all
  <1>5. Len(all) \in Nat /\ MaxRecent \in Nat
    BY <1>3, ConstantsAssumption
  <1>6. from \in 1 .. (Len(all) + 1)
    BY <1>5
  <1> HIDE DEF from
  <1> QED
    BY <1>3, <1>4, <1>5, <1>6, SubSeqProperties

LEMMA ReportStep ==
    ASSUME IInv, NEW c \in Calls, report(c)
    PROVE  IInv'
  <1> DEFINE cs == call[c].changes
             new == [k \in DOMAIN cs |-> cs[k].path]
  <1>1. InFlight(c) /\ "ok" \in Outcomes
    BY DEF report, InFlight, Steps, Outcomes
  <1>2. /\ call[c] \in CallRecord /\ recent_edits \in Seq(Files) /\ history \in Seq(Calls)
        /\ edits \in Nat /\ faults \in Nat /\ crashes \in Nat
    BY <1>1, Flying
  <1>3. cs \in Seq(PreparedChange)
    BY <1>2, CallRecordFields
  <1>4. /\ remember_edits(new) /\ history' \in {history, Append(history, c)}
        /\ Return(c, call[c], "ok")
        /\ UNCHANGED <<disk, edits, faults, crashes>>
    BY DEF report
  <1> HIDE DEF cs
  <1>5. \A k \in DOMAIN cs : cs[k].path \in Files
    <2>1. \A k \in DOMAIN cs : cs[k] \in PreparedChange
      BY <1>3
    <2> QED
      BY <2>1 DEF PreparedChange
  <1>6. new \in Seq(Files)
    BY <1>3, <1>5
  <1> HIDE DEF new
  <1>7. recent_edits' \in Seq(Files) /\ history' \in Seq(Calls)
    <2>1. recent_edits \in Seq(Files) /\ new \in Seq(Files) /\ remember_edits(new)
      BY <1>2, <1>4, <1>6
    <2>2. recent_edits' \in Seq(Files)
      BY <2>1, RememberType
    <2>3. history \in Seq(Calls) /\ history' \in {history, Append(history, c)}
      BY <1>2, <1>4
    <2> QED
      BY <2>2, <2>3, AppendProperties
  <1>8. disk' = disk /\ edits' \in Nat /\ faults' \in Nat /\ crashes' \in Nat
    BY <1>2, <1>4
  <1> QED
    BY <1>1, <1>2, <1>4, <1>7, <1>8, ReturnStep

----------------------------------------------------------------------------
(* What is not a step of a handler *)

LEMMA ArriveStep ==
    ASSUME IInv, NEW c \in Calls, NEW kind \in {"apply_change", "apply_changes"},
           NEW m \in Nat, NEW reqs \in Requests(m), kind = "apply_change" => m = 1,
           Arrive(c, kind, reqs)
    PROVE  IInv'
  <1> DEFINE s == [Idle EXCEPT !.pc = "waiting", !.kind = kind, !.requests = reqs]
  <1>1. PICK n \in 1 .. m : reqs \in [1 .. n -> TransactionRequest]
    BY DEF Requests
  <1>2. reqs \in Seq(TransactionRequest) /\ Len(reqs) = n /\ n \in Nat /\ n # 0
    BY <1>1
  <1>3. reqs # <<>> /\ (kind = "apply_change" => Len(reqs) = 1)
    BY <1>1, <1>2
  <1>4. /\ s.pc = "waiting" /\ s.kind = kind /\ s.requests = reqs
        /\ s.changes = <<>> /\ s.i = 1 /\ s.applied = 0 /\ s.stopped = 0
        /\ ~ s.mismatched /\ s.unrestored = {}
    BY DEF Idle
  <1>5. s \in CallRecord
    <2>1. s = Queued(kind, reqs)
      BY DEF Queued
    <2> QED
      BY <1>2, <2>1, IdleRecord DEF Queued, CallRecord
  <1>6. /\ call' = [call EXCEPT ![c] = s]
        /\ UNCHANGED <<disk, lock, recent_edits, history, edits, faults, crashes>>
    BY DEF Arrive
  <1> HIDE DEF s
  <1>7. Progress(s)
    BY <1>3, <1>4 DEF Progress, Steps, Passes
  <1>8. s.pc \notin Steps
    BY <1>4 DEF Steps
  <1>9. /\ disk' \in [Files -> OnDisk] /\ disk' = disk /\ lock' = lock
        /\ recent_edits' \in Seq(Files) /\ history' \in Seq(Calls)
        /\ edits' \in Nat /\ faults' \in Nat /\ crashes' \in Nat
    BY <1>6 DEF IInv, TypeOK
  <1> QED
    BY <1>5, <1>6, <1>7, <1>8, <1>9, HandlerStep

\* What an outsider writes is disturbed for whoever is in flight.
LEMMA OutsiderStep ==
    ASSUME IInv, NEW f \in Files, NEW v \in Contents \cup {Absent}, Outsider(f, v)
    PROVE  IInv'
  <1>1. /\ disk \in [Files -> OnDisk] /\ call \in [Calls -> CallRecord]
        /\ disk' = [disk EXCEPT ![f] = v] /\ v \in OnDisk
        /\ edits' = edits + 1 /\ edits \in Nat
        /\ UNCHANGED <<lock, recent_edits, history, faults, crashes>>
    BY DEF IInv, TypeOK, Outsider, OnDisk
  <1>2. /\ disk' \in [Files -> OnDisk]
        /\ \A g \in Files : g # f => disk'[g] = disk[g]
    BY <1>1
  <1>3. ASSUME NEW c \in Calls
        PROVE  /\ call'[c] \in CallRecord
               /\ call'[c] = IF InFlight(c) THEN Disturbed(call[c], call[c].disturbed \cup {f})
                             ELSE call[c]
    <2>1. call'[c] = IF InFlight(c) THEN Disturbed(call[c], call[c].disturbed \cup {f})
                     ELSE call[c]
      BY <1>3 DEF Outsider, Disturbed
    <2>2. call[c] \in CallRecord /\ call[c].disturbed \cup {f} \in SUBSET Files
      BY <1>1, CallRecordFields
    <2> QED
      BY <2>1, <2>2, DisturbedRecord
  <1>4. call' \in [Calls -> CallRecord]
    <2>1. call' = [c \in Calls |-> call'[c]]
      BY DEF Outsider
    <2> QED
      BY <1>3, <2>1
  <1>5. ASSUME NEW c \in Calls
        PROVE  /\ call'[c].pc = call[c].pc
               /\ Progress(call'[c])
               /\ InFlight(c) => \A g \in Files \ call'[c].disturbed : Clean(call'[c], g, disk'[g])
    <2>1. CASE ~ InFlight(c)
      BY <1>3, <2>1 DEF IInv, CallInv
    <2>2. CASE InFlight(c)
      <3> DEFINE o == call[c]
                 u == o.disturbed \cup {f}
                 s == Disturbed(o, u)
      <3>1. /\ o \in CallRecord /\ u \in SUBSET Files /\ Progress(o)
            /\ \A g \in Files \ o.disturbed : Clean(o, g, disk[g])
        BY <2>2, Flying, CallRecordFields
      <3>2. call'[c] = s
        BY <1>3, <2>2
      <3> HIDE DEF o, s
      <3>3. /\ s.pc = o.pc /\ s.i = o.i
            /\ s.kind = o.kind /\ s.requests = o.requests /\ s.changes = o.changes
            /\ s.applied = o.applied /\ s.stopped = o.stopped
            /\ s.mismatched = o.mismatched /\ s.unrestored = o.unrestored
            /\ s.before = o.before /\ s.disturbed = u
        BY <3>1, DisturbedFields DEF s
      <3>4. Progress(s)
        BY <3>1, <3>3 DEF Progress
      <3>5. ASSUME NEW g \in Files \ s.disturbed
            PROVE  Clean(s, g, disk'[g])
        <4>1. g \notin o.disturbed /\ g # f
          BY <3>3, <3>5
        <4>2. Clean(o, g, disk[g]) /\ disk'[g] = disk[g]
          BY <1>2, <3>1, <4>1
        <4> HIDE DEF u
        <4> QED
          BY <3>3, <4>2
          DEF Clean, OwnWork, Snapshots, Unapplied, Verified, Restored, HalfWritten
      <3> QED
        BY <3>2, <3>3, <3>4, <3>5 DEF o
    <2> QED
      BY <2>1, <2>2
  <1>6. TypeOK'
    BY <1>1, <1>2, <1>4 DEF TypeOK, IInv
  <1>7. LockInv'
    BY <1>1, <1>5 DEF LockInv, IInv, InFlight
  <1>8. CallInv'
    BY <1>5 DEF CallInv, InFlight
  <1> QED
    BY <1>6, <1>7, <1>8 DEF IInv

LEMMA CrashStep ==
    ASSUME IInv, Crash
    PROVE  IInv'
  <1>1. ASSUME NEW c \in Calls
        PROVE  /\ call'[c] \in CallRecord
               /\ Progress(call'[c])
               /\ call'[c].pc \notin Steps
    <2>1. call[c] \in CallRecord /\ Progress(call[c])
      BY DEF IInv, TypeOK, CallInv
    <2>2. CASE InFlight(c) \/ call[c].pc = "waiting"
      <3>1. call'[c] = Dying(call[c])
        BY <2>2 DEF Crash, Dying
      <3>2. call'[c] \in CallRecord /\ call'[c].pc = "dead"
        BY <2>1, <3>1 DEF Dying, CallRecord
      <3> QED
        BY <3>2 DEF Progress, Steps, Passes
    <2>3. CASE ~ (InFlight(c) \/ call[c].pc = "waiting")
      <3>1. call'[c] = call[c]
        BY <2>3 DEF Crash
      <3> QED
        BY <2>1, <2>3, <3>1 DEF InFlight
    <2> QED
      BY <2>2, <2>3
  <1>2. call' \in [Calls -> CallRecord]
    <2>1. call' = [c \in Calls |-> call'[c]]
      BY DEF Crash
    <2> QED
      BY <1>1, <2>1
  <1>3. TypeOK'
    <2>1. /\ disk' \in [Files -> OnDisk] /\ lock' = NoCall /\ recent_edits' = <<>>
          /\ history' \in Seq(Calls)
          /\ edits' \in Nat /\ faults' \in Nat /\ crashes' \in Nat
      BY DEF TypeOK, IInv, Crash
    <2>2. recent_edits' \in Seq(Files)
      BY <2>1, EmptySeq
    <2> QED
      BY <1>2, <2>1, <2>2 DEF TypeOK
  <1>4. LockInv' /\ CallInv'
    BY <1>1 DEF LockInv, CallInv, InFlight
  <1> QED
    BY <1>3, <1>4 DEF IInv

----------------------------------------------------------------------------
(* The invariant *)

LEMMA InitInv == Init => IInv
  <1> SUFFICES ASSUME Init PROVE IInv
    OBVIOUS
  <1>1. Idle \in CallRecord
    BY IdleRecord
  <1>2. /\ Idle.pc = "idle" /\ Idle.pc \notin Steps
        /\ \A c \in Calls : call[c] = Idle
    BY DEF Idle, Steps, Init
  <1>3. TypeOK
    BY <1>1, EmptySeq DEF Init, TypeOK, OnDisk
  <1>4. Progress(Idle)
    BY <1>2 DEF Progress, Steps, Passes
  <1> HIDE DEF Idle
  <1> QED
    BY <1>2, <1>3, <1>4 DEF IInv, LockInv, CallInv, InFlight

LEMMA NextInv == IInv /\ [Next]_vars => IInv'
  <1> SUFFICES ASSUME IInv, [Next]_vars PROVE IInv'
    OBVIOUS
  <1>1. ASSUME NEW c \in Calls, Step(c) PROVE IInv'
    BY <1>1, PrepareStep, RefuseStep, ConflictPassStep, ApplyCheckStep, PatchRefusedStep,
       OpenTruncateStep, OpenFailedStep, WriteContentStep, WriteFailedStep, VerifyStep,
       RollbackStep, RollbackDoneStep, ReportStep DEF Step
  <1>2. ASSUME NEW c \in Calls, Acquire(c) PROVE IInv'
    BY <1>2, AcquireStep
  <1>3. ASSUME NEW c \in Calls, NEW q \in Requests(1), Arrive(c, "apply_change", q) PROVE IInv'
    BY <1>3, ArriveStep
  <1>4. ASSUME NEW c \in Calls, NEW q \in Requests(MaxFiles), Arrive(c, "apply_changes", q)
        PROVE IInv'
    BY <1>4, ArriveStep, ConstantsAssumption
  <1>5. ASSUME NEW f \in Files, NEW v \in Contents \cup {Absent}, Outsider(f, v) PROVE IInv'
    BY <1>5, OutsiderStep
  <1>6. CASE Crash
    BY <1>6, CrashStep
  <1>7. CASE UNCHANGED vars
    BY <1>7 DEF vars, IInv, TypeOK, LockInv, CallInv, InFlight
  <1> QED
    BY <1>1, <1>2, <1>3, <1>4, <1>5, <1>6, <1>7 DEF Next

LEMMA Invariance == Spec => []IInv
  BY InitInv, NextInv, PTL DEF Spec

----------------------------------------------------------------------------
(* The properties *)

\* Whatever the calls, the outsiders and the faults do, every variable and
\* every field of a handler's state keeps its type.
THEOREM TypeCorrect == Spec => []TypeOK
  <1>1. IInv => TypeOK
    BY DEF IInv
  <1> QED
    BY <1>1, Invariance, PTL

\* mutation_lock isolates the calls of one server process: a call in flight
\* sees, in every file no outsider has written since it took the lock, what
\* was there then or what it wrote itself.
THEOREM IsolationCorrect == Spec => []Isolation
  <1>1. IInv => Isolation
    <2> SUFFICES ASSUME IInv, NEW c \in Calls, InFlight(c), NEW f \in Files \ call[c].disturbed
                 PROVE  \/ disk[f] \in {call[c].before[f]} \cup Own(c, f)
                        \/ /\ disk[f] = Torn
                           /\ call[c].pc = "write" /\ f = Change(c).path
                        \/ /\ disk[f] = Torn
                           /\ call[c].stopped # 0
                           /\ f = call[c].changes[call[c].stopped].path
      BY DEF Isolation
    <2>1. OwnWork(call[c], f, disk[f])
      BY Flying DEF Clean
    <2>2. CASE disk[f] = call[c].before[f]
      BY <2>2
    <2>3. CASE \E k \in DOMAIN call[c].changes :
                  call[c].changes[k].path = f /\ disk[f] = call[c].changes[k].full_new
      BY <2>3 DEF Own
    <2>4. CASE disk[f] = Torn /\ HalfWritten(call[c], f)
      BY <2>4 DEF HalfWritten, Change
    <2> QED
      BY <2>1, <2>2, <2>3, <2>4 DEF OwnWork
  <1> QED
    BY <1>1, Invariance, PTL

\* The record and the disk after a call has returned.
LEMMA ReturnEffect ==
    ASSUME IInv, NEW c \in Calls, NEW r \in CallRecord, NEW o \in Outcomes, Return(c, r, o)
    PROVE  /\ call'[c].pc = "done" /\ call'[c].outcome = o
           /\ call'[c].stopped = r.stopped /\ call'[c].unrestored = r.unrestored
  <1>1. call'[c] = Ended(r, o)
    BY DEF Return, Ended, IInv, TypeOK
  <1> QED
    BY <1>1, EndedFields

\* An answer given before the first write, or for the only change that was
\* tried, leaves every file as it was, but for the one whose write failed.
LEMMA HonestBeforeApply ==
    ASSUME IInv, NEW c \in Calls, call[c].pc \in Passes \ {"verify"}, call[c].applied = 0,
           NEW f \in Files \ call[c].disturbed, disk' = disk, call'[c].outcome # "ok",
           call[c].pc = "write" => call'[c].stopped = call[c].i
    PROVE  HonestAbout(c, f)
  <1>1. InFlight(c) /\ call[c].pc \in (Steps \ {"rollback"}) \cup {"waiting"}
           /\ call[c].pc \in Passes
    BY DEF InFlight, Passes, Steps
  <1>2. call[c].stopped = 0 /\ call[c].i \in 1 .. Len(call[c].requests)
    BY <1>1, Flying DEF Progress
  <1>3. Unapplied(call[c], f, disk[f])
    BY <1>1, Flying DEF Clean
  <1>4. disk[f] = call[c].before[f] \/ (disk[f] = Torn /\ HalfWritten(call[c], f))
    BY <1>3 DEF Unapplied
  <1>5. call[c].i # 0
    BY <1>1, <1>2, Flying, CallRecordFields
  <1> QED
    BY <1>2, <1>4, <1>5 DEF HonestAbout, HalfWritten

\* A failed apply returns only when nothing was applied before it.
LEMMA HonestApplyFailed ==
    ASSUME IInv, NEW c \in Calls, call[c].pc \in {"check", "open", "write"},
           ApplyFailed(c), call'[c].pc = "done", NEW f \in Files \ call[c].disturbed
    PROVE  HonestAbout(c, f)
  <1> DEFINE o == call[c]
             r == [o EXCEPT !.stopped = o.i]
             s == [r EXCEPT !.pc = "rollback", !.i = r.applied]
  <1>1. o.pc \in Passes \ {"prepare"} /\ o.pc \in Passes \ {"verify"}
    BY DEF Passes
  <1>2. InFlight(c) /\ o \in CallRecord /\ Progress(o) /\ call \in [Calls -> CallRecord]
    BY <1>1, InPass, Flying DEF IInv, TypeOK
  <1>3. /\ o.i \in 1 .. Len(o.changes) /\ Len(o.changes) \in Nat
        /\ (o.kind = "apply_change" => Len(o.changes) = 1)
    BY <1>1, InPass
  <1>4. o.applied = o.i - 1
    BY <1>2 DEF Progress
  <1>5. disk' = disk
    BY DEF ApplyFailed
  <1>6. \/ r.kind = "apply_change" /\ Return(c, r, "failed")
        \/ r.applied = 0 /\ Return(c, r, "rolled_back")
        \/ call' = [call EXCEPT ![c] = s]
    BY DEF ApplyFailed
  <1>7. r = StoppedAt(o, o.i)
    BY DEF StoppedAt
  <1>8. s = RollingBack(r, r.applied)
    BY DEF RollingBack
  <1> HIDE DEF r, s
  <1>9. /\ r \in CallRecord /\ r.stopped = o.i /\ r.kind = o.kind /\ r.applied = o.applied
    <2>1. o \in CallRecord /\ o.i \in Nat
      BY <1>2, <1>3
    <2> HIDE DEF o
    <2> QED
      BY ONLY <1>7, <2>1, StoppedAtRecord, StoppedAtFields
  <1>10. CASE call' = [call EXCEPT ![c] = s]
    <2>1. s.pc = "rollback"
      BY <1>3, <1>4, <1>8, <1>9, RollingBackFields
    <2>2. call'[c] = s
      BY <1>2, <1>10
    <2> QED
      BY <2>1, <2>2
  <1>11. ASSUME NEW out \in {"failed", "rolled_back"}, Return(c, r, out)
         PROVE  call'[c].outcome # "ok" /\ call'[c].stopped = o.i
    <2>1. out \in Outcomes
      BY DEF Outcomes
    <2> QED
      BY <1>9, <1>11, <2>1, ReturnEffect
  <1>12. CASE r.kind = "apply_change" /\ Return(c, r, "failed")
    <2>1. o.applied = 0
      <3>1. Len(o.changes) = 1
        BY <1>3, <1>9, <1>12
      <3> QED
        BY <1>3, <1>4, <3>1
    <2> QED
      BY <1>1, <1>5, <1>11, <1>12, <2>1, HonestBeforeApply
  <1>13. CASE r.applied = 0 /\ Return(c, r, "rolled_back")
    BY <1>1, <1>5, <1>9, <1>11, <1>13, HonestBeforeApply
  <1> QED
    BY <1>6, <1>10, <1>12, <1>13

\* After a rollback every file is restored or noted.
LEMMA HonestRollback ==
    ASSUME IInv, NEW c \in Calls, rollback_done(c), NEW f \in Files \ call[c].disturbed
    PROVE  HonestAbout(c, f)
  <1> DEFINE o == call[c]
             out == IF o.unrestored = {} THEN "rolled_back" ELSE "uncertain"
  <1>1. o.pc = "rollback" /\ o.i = 0 /\ disk' = disk /\ Return(c, o, out)
    BY DEF rollback_done
  <1>2. InFlight(c) /\ o \in CallRecord /\ out \in Outcomes
    BY <1>1, InRollback DEF Outcomes
  <1>3. call'[c].outcome = out /\ call'[c].stopped = o.stopped /\ call'[c].unrestored = o.unrestored
    BY <1>1, <1>2, ReturnEffect
  <1>4. Clean(o, f, disk[f])
    BY <1>2, Flying
  <1>5. CASE \E k \in 1 .. o.applied : o.changes[k].path = f
    <2>1. disk[f] = o.before[f] \/ f \in o.unrestored
      BY <1>1, <1>4, <1>5 DEF Clean, Restored
    <2> QED
      BY <1>1, <1>3, <2>1 DEF HonestAbout
  <1>6. CASE disk[f] = o.before[f]
    BY <1>1, <1>3, <1>6 DEF HonestAbout
  <1>7. CASE disk[f] = Torn /\ HalfWritten(o, f)
    BY <1>1, <1>3, <1>7 DEF HonestAbout, HalfWritten
  <1> QED
    BY <1>4, <1>5, <1>6, <1>7 DEF Clean, Unapplied

\* A success has read back what it prepared, and wrote nothing else.
LEMMA HonestReport ==
    ASSUME IInv, NEW c \in Calls, report(c), NEW f \in Files \ call[c].disturbed
    PROVE  HonestAbout(c, f)
  <1> DEFINE o == call[c]
  <1>1. o.pc = "report" /\ disk' = disk /\ InFlight(c) /\ Return(c, o, "ok") /\ "ok" \in Outcomes
    BY DEF report, InFlight, Steps, Outcomes
  <1>2. o \in CallRecord /\ Progress(o) /\ Clean(o, f, disk[f])
    BY <1>1, Flying
  <1>3. o.stopped = 0 /\ o.applied = Len(o.changes) /\ DOMAIN o.changes = 1 .. Len(o.changes)
    BY <1>1, <1>2, CallRecordFields DEF Progress, Steps
  <1>4. \A k \in DOMAIN o.changes : o.changes[k].path = f => disk[f] = o.changes[k].full_new
    BY <1>1, <1>2 DEF Clean, Verified
  <1>5. f \in Targets(c) \/ disk[f] = o.before[f]
    BY <1>1, <1>2, <1>3 DEF Clean, Unapplied, HalfWritten, Targets
  <1>6. call'[c].outcome = "ok"
    BY <1>1, <1>2, ReturnEffect
  <1> QED
    BY <1>1, <1>4, <1>5, <1>6 DEF HonestAbout

\* A step of one handler leaves the others' state alone.
LEMMA Frame ==
    ASSUME NEW d \in Calls, NEW c \in Calls \ {d}, call \in [Calls -> CallRecord],
           Step(d) \/ Acquire(d)
    PROVE  call'[c] = call[c]
  <1>1. ASSUME NEW r, Local(d, r) PROVE call'[c] = call[c]
    BY <1>1 DEF Local
  <1>2. ASSUME NEW r, NEW o, Return(d, r, o) PROVE call'[c] = call[c]
    BY <1>2 DEF Return
  <1>3. ASSUME ApplyFailed(d) PROVE call'[c] = call[c]
    BY <1>2, <1>3 DEF ApplyFailed
  <1>4. CASE prepare(d)
    BY <1>1, <1>4 DEF prepare
  <1>5. CASE refuse(d)
    BY <1>2, <1>5 DEF refuse
  <1>6. CASE conflict_pass(d)
    BY <1>1, <1>2, <1>6 DEF conflict_pass
  <1>7. CASE apply_check(d)
    BY <1>1, <1>3, <1>7 DEF apply_check
  <1>8. CASE patch_refused(d) \/ open_failed(d) \/ write_failed(d)
    BY <1>3, <1>8 DEF patch_refused, open_failed, write_failed
  <1>9. CASE open_truncate(d)
    BY <1>9 DEF open_truncate
  <1>10. CASE write_content(d)
    BY <1>10 DEF write_content
  <1>11. CASE verify_applied(d)
    BY <1>11 DEF verify_applied
  <1>12. CASE rollback(d)
    BY <1>12 DEF rollback
  <1>13. CASE rollback_done(d)
    BY <1>2, <1>13 DEF rollback_done
  <1>14. CASE report(d)
    BY <1>2, <1>14 DEF report
  <1>15. CASE Acquire(d)
    BY <1>15 DEF Acquire
  <1> QED
    BY <1>4, <1>5, <1>6, <1>7, <1>8, <1>9, <1>10, <1>11, <1>12, <1>13, <1>14, <1>15 DEF Step

\* Whoever returns has taken a step of its own.
LEMMA ReturnIsStep ==
    ASSUME IInv, [Next]_vars, NEW c \in Calls, Returns(c)
    PROVE  Step(c)
  <1>1. call \in [Calls -> CallRecord] /\ call[c] \in CallRecord
    BY DEF IInv, TypeOK
  <1>2. call[c].pc # "done" /\ call'[c].pc = "done" /\ call'[c] # call[c]
    BY DEF Returns
  <1>3. ASSUME NEW s, call' = [call EXCEPT ![c] = s]
        PROVE  s.pc = "done"
    BY <1>1, <1>2, <1>3
  <1>4. ASSUME Acquire(c) PROVE FALSE
    <2>1. call'[c].pc = "prepare"
      BY <1>1, <1>4 DEF Acquire, CallRecord
    <2> QED
      BY <1>2, <2>1
  <1>5. ASSUME NEW d \in Calls, NEW kind, NEW q, Arrive(d, kind, q) PROVE FALSE
    <2>1. call' = [call EXCEPT ![d] = [Idle EXCEPT !.pc = "waiting", !.kind = kind, !.requests = q]]
      BY <1>5 DEF Arrive
    <2>2. [Idle EXCEPT !.pc = "waiting", !.kind = kind, !.requests = q].pc = "waiting"
      BY DEF Idle
    <2>3. c = d
      BY <1>1, <1>2, <2>1
    <2> QED
      BY <1>3, <2>1, <2>2, <2>3
  <1>6. ASSUME NEW f, NEW v, Outsider(f, v) PROVE FALSE
    <2>1. call'[c].pc = call[c].pc
      BY <1>1, <1>6 DEF Outsider, CallRecord
    <2> QED
      BY <1>2, <2>1
  <1>7. ASSUME Crash PROVE FALSE
    <2>1. call'[c].pc \in {call[c].pc, "dead"}
      BY <1>1, <1>7 DEF Crash, CallRecord
    <2> QED
      BY <1>2, <2>1
  <1>8. ~ UNCHANGED vars
    BY <1>2 DEF vars
  <1>9. ASSUME NEW d \in Calls, Step(d) \/ Acquire(d) PROVE Step(c) \/ Acquire(c)
    BY <1>1, <1>2, <1>9, Frame
  <1> QED
    BY <1>4, <1>5, <1>6, <1>7, <1>8, <1>9 DEF Next

\* A call only returns through an answer of its own.
LEMMA ReturnsByAnswer ==
    ASSUME IInv, [Next]_vars, NEW c \in Calls, Returns(c)
    PROVE  \/ refuse(c) \/ rollback_done(c) \/ report(c)
           \/ conflict_pass(c) /\ Return(c, call[c], "conflict") /\ disk' = disk
           \/ call[c].pc \in {"check", "open", "write"} /\ ApplyFailed(c)
  <1>1. call \in [Calls -> CallRecord] /\ call[c] \in CallRecord
    BY DEF IInv, TypeOK
  <1>2. call[c].pc # "done" /\ call'[c].pc = "done" /\ call'[c] # call[c]
    BY DEF Returns
  <1>3. ASSUME NEW s, call' = [call EXCEPT ![c] = s]
        PROVE  s.pc = "done"
    BY <1>1, <1>2, <1>3
  <1>4. ASSUME NEW r \in CallRecord, NEW n \in Nat, NEW self \in Steps, NEW next \in Steps,
               call' = [call EXCEPT ![c] = Advance(r, n, self, next)]
        PROVE  FALSE
    <2>1. Advance(r, n, self, next).pc \in Steps
      BY <1>4, AdvanceFields
    <2>2. Advance(r, n, self, next).pc = "done"
      BY <1>3, <1>4
    <2> QED
      BY <2>1, <2>2 DEF Steps
  <1>5. ASSUME prepare(c) PROVE FALSE
    <2> DEFINE r == call[c]
               q == r.requests[r.i]
               ch == [path |-> q.path, backup |-> disk[q.path], full_new |-> q.new]
               cs == Append(r.changes, ch)
               p == [r EXCEPT !.changes = cs]
               next == IF r.kind = "apply_changes" THEN "conflict" ELSE "check"
    <2>1. InFlight(c) /\ r.pc = "prepare" /\ call' = [call EXCEPT ![c] =
             Advance(p, Len(r.requests), "prepare", next)]
      BY <1>5 DEF prepare, Local, InFlight, Steps
    <2>2. r.requests \in Seq(TransactionRequest) /\ r.changes \in Seq(PreparedChange)
             /\ r.i \in 1 .. Len(r.requests) /\ Len(r.requests) \in Nat
      BY <2>1, Flying, CallRecordFields DEF Progress, Passes
    <2>3. q \in TransactionRequest
      BY <2>2
    <2>4. ch \in PreparedChange
      BY <2>1, <2>3, Flying DEF PreparedChange, TransactionRequest
    <2> HIDE DEF ch
    <2>5. cs \in Seq(PreparedChange)
      BY <2>2, <2>4, AppendProperties
    <2>6. p = Prepared(r, cs)
      BY DEF Prepared
    <2>7. p \in CallRecord
      BY <1>1, <2>5, <2>6, PreparedRecord
    <2>8. "prepare" \in Steps /\ next \in Steps
      BY DEF Steps
    <2> HIDE DEF p, next
    <2> QED
      BY <1>4, <2>1, <2>2, <2>7, <2>8
  <1>6. ASSUME conflict_pass(c)
        PROVE  Return(c, call[c], "conflict") /\ disk' = disk
    <2>1. call[c].pc \in Passes \ {"prepare"} /\ "conflict" \in Steps /\ "check" \in Steps
      BY <1>6 DEF conflict_pass, Passes, Steps
    <2>2. Len(call[c].changes) \in Nat
      BY <2>1, InPass
    <2>3. ~ Local(c, Advance(call[c], Len(call[c].changes), "conflict", "check"))
      BY <1>1, <1>4, <2>1, <2>2 DEF Local
    <2> QED
      BY <1>6, <2>3 DEF conflict_pass
  <1>7. ASSUME apply_check(c) PROVE call[c].pc \in {"check", "open", "write"} /\ ApplyFailed(c)
    <2>1. ASSUME Local(c, [call[c] EXCEPT !.pc = "open"]) PROVE FALSE
      <3>1. call' = [call EXCEPT ![c] = Paced(call[c], "open")]
        BY <2>1 DEF Local, Paced
      <3>2. Paced(call[c], "open").pc = "open"
        BY <1>1, PacedFields DEF Steps
      <3> QED
        BY <1>3, <3>1, <3>2
    <2> QED
      BY <1>7, <2>1 DEF apply_check
  <1>8. ASSUME patch_refused(c) \/ open_failed(c) \/ write_failed(c)
        PROVE  call[c].pc \in {"check", "open", "write"} /\ ApplyFailed(c)
    BY <1>8 DEF patch_refused, open_failed, write_failed
  <1>9. ASSUME open_truncate(c) PROVE FALSE
    <2>1. call' = [call EXCEPT ![c] = Paced(call[c], "write")]
      BY <1>1, <1>9 DEF open_truncate, Paced
    <2>2. Paced(call[c], "write").pc = "write"
      BY <1>1, PacedFields DEF Steps
    <2> QED
      BY <1>3, <2>1, <2>2
  <1>10. ASSUME write_content(c) PROVE FALSE
    <2> DEFINE a == [call[c] EXCEPT !.applied = call[c].i]
    <2>1. call[c].pc \in Passes \ {"prepare"} /\ "check" \in Steps /\ "verify" \in Steps
      BY <1>10 DEF write_content, Passes, Steps
    <2>2. a = AppliedTo(call[c], call[c].i)
      BY DEF AppliedTo
    <2>3. Written(call[c]) = Advance(a, Len(call[c].changes), "check", "verify")
      BY DEF Written
    <2> HIDE DEF a
    <2>4. Len(call[c].changes) \in Nat /\ call[c].i \in Nat
      BY <1>1, <2>1, InPass, CallRecordFields
    <2>5. a \in CallRecord
      BY <1>1, <2>2, <2>4, AppliedToRecord
    <2> QED
      BY <1>4, <1>10, <2>1, <2>3, <2>4, <2>5 DEF write_content
  <1>11. ASSUME verify_applied(c) PROVE FALSE
    <2>1. PICK unreadable \in BOOLEAN :
            LET r == [call[c] EXCEPT !.mismatched =
                         @ \/ unreadable \/ disk[Change(c).path] # Change(c).full_new]
            IN  call' = [call EXCEPT ![c] =
                   IF r.i < Len(r.changes) THEN [r EXCEPT !.i = @ + 1]
                   ELSE [r EXCEPT !.pc = IF r.mismatched THEN "rollback" ELSE "report"]]
      BY <1>11 DEF verify_applied
    <2> DEFINE b == call[c].mismatched \/ unreadable \/ disk[Change(c).path] # Change(c).full_new
               r == [call[c] EXCEPT !.mismatched = b]
               last == IF r.mismatched THEN "rollback" ELSE "report"
    <2>2. r = Compared(call[c], b)
      BY DEF Compared
    <2>3. call' = [call EXCEPT ![c] = IF r.i < Len(r.changes) THEN Indexed(r, r.i + 1)
                                      ELSE Paced(r, last)]
      BY <2>1 DEF Indexed, Paced
    <2>4. b \in BOOLEAN /\ call[c].pc = "verify"
      BY <1>1, <1>11, CallRecordFields DEF verify_applied
    <2>5. last \in Steps /\ last # "done"
      BY DEF Steps
    <2> HIDE DEF b, r, last
    <2>6. r \in CallRecord /\ r.pc = "verify"
      BY <1>1, <2>2, <2>4, ComparedRecord, ComparedFields
    <2>7. r.i + 1 \in Nat
      BY <2>6, CallRecordFields
    <2>8. Indexed(r, r.i + 1).pc = "verify" /\ Paced(r, last).pc = last
      BY <2>5, <2>6, <2>7, IndexedFields, PacedFields
    <2>9. call'[c] = IF r.i < Len(r.changes) THEN Indexed(r, r.i + 1) ELSE Paced(r, last)
      BY <1>1, <2>3
    <2> QED
      BY <1>2, <2>5, <2>8, <2>9
  <1>12. ASSUME rollback(c) PROVE FALSE
    <2>1. PICK failed \in BOOLEAN : call' = [call EXCEPT ![c] = AfterRestore(call[c], failed)]
      BY <1>12 DEF rollback
    <2>2. call[c].pc = "rollback" /\ AfterRestore(call[c], failed).pc = call[c].pc
      BY <1>1, <1>12 DEF rollback, AfterRestore, CallRecord
    <2> QED
      BY <1>3, <2>1, <2>2
  <1> QED
    BY <1>5, <1>6, <1>7, <1>8, <1>9, <1>10, <1>11, <1>12, ReturnIsStep DEF Step

\* What the answer says of a file no outsider wrote is true.
LEMMA HonestReturn ==
    ASSUME IInv, [Next]_vars, NEW c \in Calls, Returns(c), NEW f \in Files \ call[c].disturbed
    PROVE  HonestAbout(c, f)
  <1>1. call[c] \in CallRecord /\ Progress(call[c]) /\ call'[c].pc = "done"
    BY DEF IInv, TypeOK, CallInv, Returns
  <1>2. CASE refuse(c)
    <2>1. call[c].pc = "prepare" /\ Return(c, call[c], "refused") /\ disk' = disk
      BY <1>2 DEF refuse
    <2>2. call'[c].outcome = "refused"
      BY <1>1, <2>1, ReturnEffect DEF Outcomes
    <2>3. call[c].applied = 0 /\ call[c].pc \in Passes \ {"verify"}
      BY <1>1, <2>1 DEF Progress, Passes
    <2> QED
      BY <2>1, <2>2, <2>3, HonestBeforeApply
  <1>3. CASE conflict_pass(c) /\ Return(c, call[c], "conflict") /\ disk' = disk
    <2>1. call[c].pc = "conflict"
      BY <1>3 DEF conflict_pass
    <2>2. call'[c].outcome = "conflict"
      BY <1>1, <1>3, ReturnEffect DEF Outcomes
    <2>3. call[c].applied = 0 /\ call[c].pc \in Passes \ {"verify"}
      BY <1>1, <2>1 DEF Progress, Passes
    <2> QED
      BY <1>3, <2>1, <2>2, <2>3, HonestBeforeApply
  <1>4. CASE call[c].pc \in {"check", "open", "write"} /\ ApplyFailed(c)
    BY <1>1, <1>4, HonestApplyFailed
  <1>5. CASE rollback_done(c)
    BY <1>5, HonestRollback
  <1>6. CASE report(c)
    BY <1>6, HonestReport
  <1> QED
    BY <1>2, <1>3, <1>4, <1>5, <1>6, ReturnsByAnswer

\* A call reports the truth about every file no outsider wrote: all its files
\* are as prepared, or all as before, or named as not restored, whichever
\* system call failed and whatever the other calls did.
THEOREM AllOrNothingCorrect == Spec => AllOrNothing
  <1>1. IInv /\ [Next]_vars
          => [\A c \in Calls : Returns(c) =>
                \A f \in Files \ call[c].disturbed : HonestAbout(c, f)]_vars
    BY HonestReturn
  <1> QED
    BY <1>1, Invariance, PTL DEF Spec, AllOrNothing

\* A rollback writes only files whose change it had applied, so an outsider's
\* version of any other file survives it.
THEOREM RollbackCorrect == Spec => RollbackOnlyApplied
  <1>1. IInv /\ [Next]_vars
          => [\A c \in Calls, f \in Files :
                RollsBack(c, f) => \E k \in 1 .. call[c].applied : call[c].changes[k].path = f]_vars
    <2> SUFFICES ASSUME IInv, [Next]_vars, NEW c \in Calls, NEW f \in Files, RollsBack(c, f)
                 PROVE  \E k \in 1 .. call[c].applied : call[c].changes[k].path = f
      OBVIOUS
    <2>1. /\ call[c].pc = "rollback" /\ call'[c] # call[c] /\ disk'[f] # disk[f]
          /\ edits' = edits
          /\ call \in [Calls -> CallRecord] /\ disk \in [Files -> OnDisk] /\ edits \in Nat
      BY DEF RollsBack, IInv, TypeOK
    <2>2. ASSUME NEW d \in Calls, Step(d) \/ Acquire(d) PROVE Step(c)
      <3>1. d = c
        BY <2>1, <2>2, Frame
      <3>2. ~ Acquire(c)
        BY <2>1 DEF Acquire
      <3> QED
        BY <2>2, <3>1, <3>2
    <2>3. ASSUME NEW d \in Calls, NEW kind, NEW q, Arrive(d, kind, q) PROVE FALSE
      BY <2>1, <2>3 DEF Arrive
    <2>4. ASSUME NEW g, NEW v, Outsider(g, v) PROVE FALSE
      BY <2>1, <2>4 DEF Outsider
    <2>5. ASSUME Crash PROVE FALSE
      BY <2>1, <2>5 DEF Crash
    <2>6. Step(c)
      BY <2>1, <2>2, <2>3, <2>4, <2>5 DEF Next, vars
    <2>7. rollback(c)
      BY <2>1, <2>6
      DEF Step, prepare, refuse, conflict_pass, apply_check, patch_refused, open_truncate,
          open_failed, write_content, write_failed, verify_applied, rollback_done, report
    <2>8. call[c].i > 0 /\ call[c].i \in 0 .. call[c].applied /\ call[c].applied \in Nat
      BY <2>1, <2>7, InRollback DEF rollback
    <2>9. \/ disk' = disk
          \/ disk' = [disk EXCEPT ![Change(c).path] = Change(c).backup]
      BY <2>7 DEF rollback
    <2>10. f = call[c].changes[call[c].i].path
      BY <2>1, <2>9 DEF Change
    <2> QED
      BY <2>8, <2>10
  <1> QED
    BY <1>1, Invariance, PTL DEF Spec, RollbackOnlyApplied

----------------------------------------------------------------------------
(* The abstract transaction: what a step of a handler may do *)

\* A handler's record goes on from o to s: request, snapshot of the workspace
\* and disturbed files are those of the turn, the changes stay, and what is
\* noted as not restored is a file of the changes.
Continues(o, s) ==
    /\ s.requests = o.requests /\ s.changes = o.changes
    /\ s.before = o.before /\ s.disturbed = o.disturbed
    /\ \A f \in s.unrestored \ o.unrestored : \E k \in DOMAIN o.changes : o.changes[k].path = f

\* The turn goes on, or ends with the files as they are.
Turn(s) ==
    \/ s.pc \in Steps /\ lock' = lock
    \/ s.pc = "done" /\ lock' = NoCall /\ disk' = disk

\* At most one file is written, and the call has prepared a change of it.
Writes(c) ==
    \/ disk' = disk
    \/ \E k \in DOMAIN call[c].changes :
          \A f \in Files : f # call[c].changes[k].path => disk'[f] = disk[f]

LEMMA ContinuesTwice ==
    ASSUME NEW o, NEW r, NEW s, Continues(o, r), Continues(r, s)
    PROVE  Continues(o, s)
  BY DEF Continues

LEMMA ContinuesSame ==
    ASSUME NEW o \in CallRecord, NEW s, s.unrestored = o.unrestored,
           s.requests = o.requests, s.changes = o.changes,
           s.before = o.before, s.disturbed = o.disturbed
    PROVE  Continues(o, s)
  BY DEF Continues

LEMMA ReturnEnds ==
    ASSUME IInv, NEW c \in Calls, NEW r \in CallRecord, NEW out \in Outcomes, Return(c, r, out),
           disk' = disk
    PROVE  Continues(r, call'[c]) /\ Turn(call'[c])
  <1>1. call'[c] = Ended(r, out) /\ lock' = NoCall
    BY DEF Return, Ended, IInv, TypeOK
  <1> QED
    BY <1>1, EndedFields, ContinuesSame DEF Turn

LEMMA AdvanceContinues ==
    ASSUME IInv, NEW c \in Calls, NEW r \in CallRecord, NEW n \in Nat,
           NEW self \in Steps, NEW next \in Steps, lock' = lock,
           call' = [call EXCEPT ![c] = Advance(r, n, self, next)]
    PROVE  Continues(r, call'[c]) /\ Turn(call'[c])
  <1>1. call'[c] = Advance(r, n, self, next)
    BY DEF IInv, TypeOK
  <1> QED
    BY <1>1, AdvanceFields, ContinuesSame DEF Turn

LEMMA ApplyFailedEffect ==
    ASSUME IInv, NEW c \in Calls, call[c].pc \in {"check", "open", "write"}, ApplyFailed(c)
    PROVE  Continues(call[c], call'[c]) /\ Turn(call'[c]) /\ Writes(c)
  <1> DEFINE o == call[c]
             r == [o EXCEPT !.stopped = o.i]
             s == [r EXCEPT !.pc = "rollback", !.i = r.applied]
  <1>1. o.pc \in Passes \ {"prepare"}
    BY DEF Passes
  <1>2. o \in CallRecord /\ o.i \in Nat /\ call \in [Calls -> CallRecord]
    BY <1>1, InPass, Flying, CallRecordFields DEF IInv, TypeOK
  <1>3. disk' = disk
    BY DEF ApplyFailed
  <1>4. \/ Return(c, r, "failed")
        \/ Return(c, r, "rolled_back")
        \/ call' = [call EXCEPT ![c] = s] /\ lock' = lock
    BY DEF ApplyFailed
  <1>5. r = StoppedAt(o, o.i)
    BY DEF StoppedAt
  <1>6. s = RollingBack(r, r.applied)
    BY DEF RollingBack
  <1> HIDE DEF o, r, s
  <1>7. r \in CallRecord /\ Continues(o, r)
    BY <1>2, <1>5, StoppedAtRecord, StoppedAtFields, ContinuesSame
  <1>8. CASE Return(c, r, "failed") \/ Return(c, r, "rolled_back")
    <2>1. "failed" \in Outcomes /\ "rolled_back" \in Outcomes
      BY DEF Outcomes
    <2>2. Continues(r, call'[c]) /\ Turn(call'[c])
      BY <1>3, <1>7, <1>8, <2>1, ReturnEnds
    <2> QED
      BY <1>3, <1>7, <2>2, ContinuesTwice DEF Writes, o
  <1>9. CASE call' = [call EXCEPT ![c] = s] /\ lock' = lock
    <2>1. r.applied \in Nat
      BY <1>7, CallRecordFields
    <2>2. Continues(r, s) /\ s.pc = "rollback"
      BY <1>6, <1>7, <2>1, RollingBackFields, ContinuesSame
    <2>3. call'[c] = s
      BY <1>2, <1>9
    <2>4. Turn(s)
      BY <1>9, <2>2 DEF Turn, Steps
    <2> QED
      BY <1>3, <1>7, <2>2, <2>3, <2>4, ContinuesTwice DEF Writes, o
  <1> QED
    BY <1>4, <1>8, <1>9

LEMMA StepFlies ==
    ASSUME NEW c \in Calls, Step(c)
    PROVE  InFlight(c)
  BY DEF Step, InFlight, Steps, prepare, refuse, conflict_pass, apply_check, patch_refused,
         open_truncate, open_failed, write_content, write_failed, verify_applied, rollback,
         rollback_done, report

LEMMA StepEffect ==
    ASSUME IInv, NEW c \in Calls, Step(c), ~ prepare(c)
    PROVE  Continues(call[c], call'[c]) /\ Turn(call'[c]) /\ Writes(c)
  <1> DEFINE Goal == Continues(call[c], call'[c]) /\ Turn(call'[c]) /\ Writes(c)
  <1>1. InFlight(c)
    BY StepFlies
  <1>2. call[c] \in CallRecord /\ call \in [Calls -> CallRecord]
    BY <1>1, Flying DEF IInv, TypeOK
  <1>3. ASSUME NEW out \in Outcomes, Return(c, call[c], out), disk' = disk PROVE Goal
    BY <1>2, <1>3, ReturnEnds DEF Writes
  <1>4. CASE refuse(c)
    BY <1>3, <1>4 DEF refuse, Outcomes
  <1>5. CASE conflict_pass(c)
    <2>1. /\ call[c].pc \in Passes \ {"prepare"} /\ "conflict" \in Steps /\ "check" \in Steps
          /\ "conflict" \in Outcomes
      BY <1>5 DEF conflict_pass, Passes, Steps, Outcomes
    <2>2. Len(call[c].changes) \in Nat
      BY <2>1, InPass
    <2>3. CASE Local(c, Advance(call[c], Len(call[c].changes), "conflict", "check"))
      BY <1>2, <2>1, <2>2, <2>3, AdvanceContinues DEF Local, Writes
    <2>4. CASE Return(c, call[c], "conflict") /\ disk' = disk
      BY <1>3, <2>1, <2>4
    <2> QED
      BY <1>5, <2>3, <2>4 DEF conflict_pass
  <1>6. CASE apply_check(c)
    <2>1. CASE Local(c, [call[c] EXCEPT !.pc = "open"])
      <3>1. call'[c] = Paced(call[c], "open") /\ lock' = lock /\ disk' = disk
        BY <1>2, <2>1 DEF Local, Paced
      <3>2. "open" \in Steps
        BY DEF Steps
      <3> QED
        BY <1>2, <3>1, <3>2, PacedFields, ContinuesSame DEF Turn, Writes
    <2>2. CASE ApplyFailed(c)
      BY <1>6, <2>2, ApplyFailedEffect DEF apply_check
    <2> QED
      BY <1>6, <2>1, <2>2 DEF apply_check
  <1>7. CASE patch_refused(c) \/ open_failed(c) \/ write_failed(c)
    BY <1>7, ApplyFailedEffect DEF patch_refused, open_failed, write_failed
  <1>8. CASE open_truncate(c)
    <2>1. /\ call'[c] = Paced(call[c], "write") /\ lock' = lock
          /\ disk' = [disk EXCEPT ![Change(c).path] = Torn]
      BY <1>2, <1>8 DEF open_truncate, Paced
    <2>2. call[c].pc \in Passes \ {"prepare"} /\ "write" \in Steps
      BY <1>8 DEF open_truncate, Passes, Steps
    <2>3. call[c].i \in DOMAIN call[c].changes /\ disk \in [Files -> OnDisk]
      BY <1>1, <2>2, InPass, Flying
    <2>4. Writes(c)
      BY <2>1, <2>3 DEF Writes, Change
    <2> QED
      BY <1>2, <2>1, <2>2, <2>4, PacedFields, ContinuesSame DEF Turn
  <1>9. CASE write_content(c)
    <2> DEFINE a == [call[c] EXCEPT !.applied = call[c].i]
    <2>1. call[c].pc \in Passes \ {"prepare"} /\ "check" \in Steps /\ "verify" \in Steps
      BY <1>9 DEF write_content, Passes, Steps
    <2>2. a = AppliedTo(call[c], call[c].i)
      BY DEF AppliedTo
    <2>3. Written(call[c]) = Advance(a, Len(call[c].changes), "check", "verify")
      BY DEF Written
    <2> HIDE DEF a
    <2>4. /\ Len(call[c].changes) \in Nat /\ call[c].i \in Nat
          /\ call[c].i \in DOMAIN call[c].changes /\ disk \in [Files -> OnDisk]
      BY <1>1, <1>2, <2>1, InPass, CallRecordFields, Flying
    <2>5. a \in CallRecord /\ Continues(call[c], a)
      <3>1. call[c] \in CallRecord /\ call[c].i \in Nat
        BY <1>2, <2>4
      <3>2. a \in CallRecord
        BY ONLY <2>2, <3>1, AppliedToRecord
      <3>3. /\ a.requests = call[c].requests /\ a.changes = call[c].changes
            /\ a.before = call[c].before /\ a.disturbed = call[c].disturbed
            /\ a.unrestored = call[c].unrestored
        BY ONLY <2>2, <3>1, AppliedToFields
      <3> QED
        BY <3>1, <3>2, <3>3, ContinuesSame
    <2>6. lock' = lock /\ call' = [call EXCEPT ![c] = Written(call[c])]
          /\ \E v : disk' = [disk EXCEPT ![Change(c).path] = v]
      BY <1>9 DEF write_content
    <2>7. Continues(a, call'[c]) /\ Turn(call'[c])
      BY <2>1, <2>3, <2>4, <2>5, <2>6, AdvanceContinues
    <2>8. Writes(c)
      BY <2>4, <2>6 DEF Writes, Change
    <2> QED
      BY <2>5, <2>7, <2>8, ContinuesTwice
  <1>10. CASE verify_applied(c)
    <2>1. PICK unreadable \in BOOLEAN :
            LET r == [call[c] EXCEPT !.mismatched =
                         @ \/ unreadable \/ disk[Change(c).path] # Change(c).full_new]
            IN  call' = [call EXCEPT ![c] =
                   IF r.i < Len(r.changes) THEN [r EXCEPT !.i = @ + 1]
                   ELSE [r EXCEPT !.pc = IF r.mismatched THEN "rollback" ELSE "report"]]
      BY <1>10 DEF verify_applied
    <2> DEFINE b == call[c].mismatched \/ unreadable \/ disk[Change(c).path] # Change(c).full_new
               r == [call[c] EXCEPT !.mismatched = b]
               last == IF r.mismatched THEN "rollback" ELSE "report"
    <2>2. r = Compared(call[c], b)
      BY DEF Compared
    <2>3. call' = [call EXCEPT ![c] = IF r.i < Len(r.changes) THEN Indexed(r, r.i + 1)
                                      ELSE Paced(r, last)]
      BY <2>1 DEF Indexed, Paced
    <2>4. b \in BOOLEAN /\ call[c].pc = "verify"
      BY <1>2, <1>10, CallRecordFields DEF verify_applied
    <2>5. last \in Steps /\ "verify" \in Steps
      BY DEF Steps
    <2> HIDE DEF b, r, last
    <2>6. r \in CallRecord /\ r.pc = "verify" /\ Continues(call[c], r)
      BY <1>2, <2>2, <2>4, ComparedRecord, ComparedFields, ContinuesSame
    <2>7. r.i + 1 \in Nat
      BY <2>6, CallRecordFields
    <2>8. /\ Indexed(r, r.i + 1).pc = "verify" /\ Paced(r, last).pc = last
          /\ Continues(r, Indexed(r, r.i + 1)) /\ Continues(r, Paced(r, last))
      BY <2>5, <2>6, <2>7, IndexedFields, PacedFields, ContinuesSame
    <2>9. call'[c] \in {Indexed(r, r.i + 1), Paced(r, last)}
      BY <1>2, <2>3
    <2>10. lock' = lock /\ disk' = disk
      BY <1>10 DEF verify_applied
    <2> QED
      BY <2>5, <2>6, <2>8, <2>9, <2>10, ContinuesTwice DEF Turn, Writes
  <1>11. CASE rollback(c)
    <2>1. PICK failed \in BOOLEAN :
            /\ call' = [call EXCEPT ![c] = AfterRestore(call[c], failed)]
            /\ failed => disk' = disk
            /\ ~ failed => disk' = [disk EXCEPT ![Change(c).path] = Change(c).backup]
      BY <1>11 DEF rollback
    <2> DEFINE p == call[c].changes[call[c].i].path
               u == IF failed THEN call[c].unrestored \cup {p} ELSE call[c].unrestored
    <2>2. call[c].pc = "rollback" /\ call[c].i > 0 /\ lock' = lock
      BY <1>11 DEF rollback
    <2>3. /\ call[c].i \in Nat /\ call[c].i - 1 \in Nat
          /\ call[c].i \in DOMAIN call[c].changes /\ disk \in [Files -> OnDisk]
          /\ call[c].changes[call[c].i] \in PreparedChange /\ call[c].unrestored \subseteq Files
      BY <1>1, <1>2, <2>2, InRollback, Flying
    <2>4. call'[c] = Undone(call[c], call[c].i - 1, u)
      BY <1>2, <2>1 DEF AfterRestore, Undone
    <2>5. u \in SUBSET Files
      BY <2>3 DEF PreparedChange
    <2>6. \A f \in u \ call[c].unrestored : \E k \in DOMAIN call[c].changes : call[c].changes[k].path = f
      BY <2>3
    <2>7. Writes(c)
      BY <2>1, <2>3 DEF Writes, Change
    <2> HIDE DEF u, p
    <2>8. /\ call'[c].pc = call[c].pc /\ call'[c].unrestored = u
          /\ call'[c].requests = call[c].requests /\ call'[c].changes = call[c].changes
          /\ call'[c].before = call[c].before /\ call'[c].disturbed = call[c].disturbed
      BY <1>2, <2>3, <2>4, <2>5, UndoneFields
    <2>9. Continues(call[c], call'[c])
      BY <2>6, <2>8 DEF Continues
    <2>10. Turn(call'[c])
      BY <2>2, <2>8 DEF Turn, Steps
    <2> QED
      BY <2>7, <2>9, <2>10
  <1>12. CASE rollback_done(c)
    <2>1. PICK out \in {"rolled_back", "uncertain"} : Return(c, call[c], out) /\ disk' = disk
      BY <1>12 DEF rollback_done
    <2>2. out \in Outcomes
      BY DEF Outcomes
    <2> QED
      BY <1>3, <2>1, <2>2
  <1>13. CASE report(c)
    BY <1>3, <1>13 DEF report, Outcomes
  <1> QED
    BY <1>1, <1>4, <1>5, <1>6, <1>7, <1>8, <1>9, <1>10, <1>11, <1>12, <1>13 DEF Step

LEMMA PrepareEffect ==
    ASSUME IInv, NEW c \in Calls, prepare(c)
    PROVE  /\ call'[c].pc \in Steps /\ lock' = lock /\ disk' = disk
           /\ call'[c].requests = call[c].requests /\ call'[c].unrestored = call[c].unrestored
           /\ call'[c].before = call[c].before /\ call'[c].disturbed = call[c].disturbed
           /\ \A k \in DOMAIN call'[c].changes :
                 \/ k \in DOMAIN call[c].changes /\ call'[c].changes[k] = call[c].changes[k]
                 \/ /\ k \in DOMAIN call[c].requests
                    /\ call'[c].changes[k].path = call[c].requests[k].path
                    /\ call'[c].changes[k].full_new = call[c].requests[k].new
  <1> DEFINE r == call[c]
             q == r.requests[r.i]
             ch == [path |-> q.path, backup |-> disk[q.path], full_new |-> q.new]
             cs == Append(r.changes, ch)
             p == [r EXCEPT !.changes = cs]
             n == Len(r.requests)
             next == IF r.kind = "apply_changes" THEN "conflict" ELSE "check"
             s == Advance(p, n, "prepare", next)
  <1>1. /\ r.pc = "prepare" /\ call' = [call EXCEPT ![c] = s]
        /\ lock' = lock /\ disk' = disk
    BY DEF prepare, Local
  <1>2. InFlight(c) /\ r \in CallRecord /\ Progress(r)
    BY <1>1, Flying DEF InFlight, Steps
  <1>3. /\ r.i \in 1 .. n /\ n \in Nat /\ Len(r.changes) = r.i - 1
        /\ r.requests \in Seq(TransactionRequest) /\ r.changes \in Seq(PreparedChange)
        /\ DOMAIN r.requests = 1 .. n
    BY <1>1, <1>2, CallRecordFields DEF Progress, Steps, Passes
  <1>4. ch \in PreparedChange /\ ch.path = q.path /\ ch.full_new = q.new
    <2>1. q \in TransactionRequest
      BY <1>3
    <2> QED
      BY <1>2, <2>1, Flying DEF PreparedChange, TransactionRequest
  <1> HIDE DEF ch
  <1>5. /\ cs \in Seq(PreparedChange) /\ Len(cs) = r.i /\ cs[r.i] = ch
        /\ \A k \in 1 .. (r.i - 1) : cs[k] = r.changes[k]
    <2> DEFINE old == r.changes
    <2>1. old \in Seq(PreparedChange) /\ Len(old) = r.i - 1 /\ r.i \in Nat
      BY <1>3
    <2> HIDE DEF old
    <2>2. /\ Append(old, ch) \in Seq(PreparedChange)
          /\ Len(Append(old, ch)) = Len(old) + 1
          /\ \A k \in 1 .. Len(old) : Append(old, ch)[k] = old[k]
          /\ Append(old, ch)[Len(old) + 1] = ch
      BY <1>4, <2>1, AppendProperties
    <2> QED
      BY <2>1, <2>2 DEF old
  <1> HIDE DEF cs
  <1>6. \A k \in DOMAIN cs :
           \/ k \in DOMAIN r.changes /\ cs[k] = r.changes[k]
           \/ k = r.i /\ cs[k] = ch
    <2>1. DOMAIN cs = 1 .. r.i /\ DOMAIN r.changes = 1 .. (r.i - 1) /\ r.i \in Nat
      BY <1>3, <1>5
    <2> QED
      BY <1>5, <2>1
  <1>7. p = Prepared(r, cs)
    BY DEF Prepared
  <1>8. next \in Steps /\ "prepare" \in Steps
    BY DEF Steps
  <1> HIDE DEF p, n, next
  <1>9. /\ p \in CallRecord /\ p.changes = cs /\ p.requests = r.requests
        /\ p.unrestored = r.unrestored /\ p.before = r.before /\ p.disturbed = r.disturbed
    BY <1>2, <1>5, <1>7, PreparedRecord, PreparedFields
  <1>10. /\ s.pc \in Steps /\ s.changes = cs /\ s.requests = r.requests
         /\ s.unrestored = r.unrestored /\ s.before = r.before /\ s.disturbed = r.disturbed
    BY <1>3, <1>8, <1>9, AdvanceFields
  <1>11. call'[c] = s
    BY <1>1 DEF IInv, TypeOK
  <1> HIDE DEF s
  <1>12. r.i \in DOMAIN r.requests
    BY <1>3
  <1> QED
    BY <1>1, <1>4, <1>6, <1>10, <1>11, <1>12

----------------------------------------------------------------------------
(* The abstract transaction: what a call is about stays what it was asked *)

\* Whoever waits has seen nobody write.  The changes are those requested, one
\* for one, and what is noted was requested.
AsAsked(r) ==
    /\ r.pc \in {"idle", "waiting"} => r.disturbed = {}
    /\ \A k \in DOMAIN r.changes :
          /\ k \in DOMAIN r.requests
          /\ r.changes[k].path = r.requests[k].path
          /\ r.changes[k].full_new = r.requests[k].new
    /\ \A f \in r.unrestored : \E k \in DOMAIN r.requests : r.requests[k].path = f

AskedInv ==
    /\ lock # NoCall => InFlight(lock)
    /\ \A c \in Calls : AsAsked(call[c])

LEMMA AskedStep ==
    ASSUME IInv, AskedInv, NEW c \in Calls, Step(c)
    PROVE  AskedInv'
  <1>1. InFlight(c) /\ lock = c
    BY StepFlies, Flying
  <1>2. \A d \in Calls \ {c} : call'[d] = call[d]
    BY Frame DEF IInv, TypeOK
  <1>3. AsAsked(call[c])
    BY DEF AskedInv
  <1>4. AsAsked(call'[c]) /\ ((call'[c].pc \in Steps /\ lock' = lock) \/ lock' = NoCall)
    <2>1. CASE prepare(c)
      <3>1. call'[c].pc \notin {"idle", "waiting"}
        BY <2>1, PrepareEffect DEF Steps
      <3> QED
        BY <1>3, <2>1, <3>1, PrepareEffect DEF AsAsked
    <2>2. CASE ~ prepare(c)
      <3>1. Continues(call[c], call'[c]) /\ Turn(call'[c])
        BY <2>2, StepEffect
      <3>2. call'[c].pc \notin {"idle", "waiting"}
        BY <3>1 DEF Turn, Steps
      <3> QED
        BY <1>3, <3>1, <3>2 DEF AsAsked, Continues, Turn
    <2> QED
      BY <2>1, <2>2
  <1> QED
    BY <1>1, <1>2, <1>4 DEF AskedInv, InFlight

LEMMA AskedNext == IInv /\ AskedInv /\ [Next]_vars => AskedInv'
  <1> SUFFICES ASSUME IInv, AskedInv, [Next]_vars PROVE AskedInv'
    OBVIOUS
  <1>1. call \in [Calls -> CallRecord] /\ lock \in Calls \cup {NoCall}
    BY DEF IInv, TypeOK
  <1>2. ASSUME NEW c \in Calls, Acquire(c) PROVE AskedInv'
    <2> DEFINE r == [call[c] EXCEPT !.pc = "prepare", !.before = disk]
    <2>1. /\ r.pc = "prepare" /\ r.changes = call[c].changes /\ r.requests = call[c].requests
          /\ r.unrestored = call[c].unrestored
      BY <1>1 DEF CallRecord
    <2>2. call' = [call EXCEPT ![c] = r] /\ lock' = c
      BY <1>2 DEF Acquire
    <2> HIDE DEF r
    <2>3. AsAsked(r)
      BY <2>1 DEF AskedInv, AsAsked
    <2> QED
      BY <1>1, <2>1, <2>2, <2>3 DEF AskedInv, InFlight, Steps
  <1>3. ASSUME NEW c \in Calls, NEW kind, NEW q, Arrive(c, kind, q) PROVE AskedInv'
    <2> DEFINE r == [Idle EXCEPT !.pc = "waiting", !.kind = kind, !.requests = q]
    <2>1. /\ r.pc = "waiting" /\ r.changes = <<>> /\ r.unrestored = {} /\ r.disturbed = {}
      BY DEF Idle
    <2>2. call' = [call EXCEPT ![c] = r] /\ lock' = lock /\ call[c].pc = "idle"
      BY <1>3 DEF Arrive
    <2> HIDE DEF r
    <2>3. AsAsked(r)
      BY <2>1 DEF AsAsked
    <2> QED
      BY <1>1, <2>2, <2>3 DEF AskedInv, InFlight, Steps
  <1>4. ASSUME NEW f \in Files, NEW v, Outsider(f, v) PROVE AskedInv'
    <2>1. ASSUME NEW c \in Calls PROVE AsAsked(call'[c]) /\ call'[c].pc = call[c].pc
      <3>1. CASE ~ InFlight(c)
        BY <1>4, <3>1 DEF Outsider, AskedInv
      <3>2. CASE InFlight(c)
        <4> DEFINE u == call[c].disturbed \cup {f}
        <4>1. call'[c] = Disturbed(call[c], u)
          BY <1>4, <3>2 DEF Outsider, Disturbed
        <4>2. u \in SUBSET Files /\ call[c] \in CallRecord
          BY <1>1, CallRecordFields
        <4> HIDE DEF u
        <4>3. /\ call'[c].pc = call[c].pc /\ call'[c].changes = call[c].changes
              /\ call'[c].requests = call[c].requests
              /\ call'[c].unrestored = call[c].unrestored
          BY <4>1, <4>2, DisturbedFields
        <4>4. call[c].pc \notin {"idle", "waiting"}
          BY <3>2 DEF InFlight, Steps
        <4> QED
          BY <4>3, <4>4 DEF AskedInv, AsAsked
      <3> QED
        BY <3>1, <3>2
    <2>2. lock' = lock
      BY <1>4 DEF Outsider
    <2> QED
      BY <1>1, <2>1, <2>2 DEF AskedInv, InFlight
  <1>5. CASE Crash
    <2>1. ASSUME NEW c \in Calls PROVE AsAsked(call'[c])
      <3>1. CASE InFlight(c) \/ call[c].pc = "waiting"
        <4>1. call'[c] = Dying(call[c])
          BY <1>5, <3>1 DEF Crash, Dying
        <4>2. /\ call'[c].pc = "dead" /\ call'[c].changes = call[c].changes
              /\ call'[c].requests = call[c].requests
              /\ call'[c].unrestored = call[c].unrestored
          BY <1>1, <4>1 DEF Dying, CallRecord
        <4> QED
          BY <4>2 DEF AskedInv, AsAsked
      <3>2. CASE ~ (InFlight(c) \/ call[c].pc = "waiting")
        BY <1>5, <3>2 DEF Crash, AskedInv
      <3> QED
        BY <3>1, <3>2
    <2>2. lock' = NoCall
      BY <1>5 DEF Crash
    <2> QED
      BY <2>1, <2>2 DEF AskedInv
  <1>6. CASE UNCHANGED vars
    BY <1>6 DEF vars, AskedInv, AsAsked, InFlight
  <1> QED
    BY <1>2, <1>3, <1>4, <1>5, <1>6, AskedStep DEF Next

LEMMA AskedInit == Init => AskedInv
  <1>1. Idle.changes = <<>> /\ Idle.unrestored = {} /\ Idle.disturbed = {}
    BY DEF Idle
  <1> QED
    BY <1>1 DEF Init, AskedInv, AsAsked

\* What the return of a call says.
LEMMA ReturnTells ==
    ASSUME IInv, [Next]_vars, NEW c \in Calls, Returns(c)
    PROVE  /\ Step(c)
           /\ \/ report(c) /\ call'[c].outcome = "ok" /\ call'[c].unrestored = {}
              \/ /\ call'[c].outcome # "ok"
                 /\ call'[c].outcome = "uncertain" <=> call'[c].unrestored # {}
                 /\ call'[c].stopped = 0 \/ call'[c].stopped \in DOMAIN call[c].changes
  <1> DEFINE Told == /\ call'[c].outcome # "ok"
                     /\ call'[c].outcome = "uncertain" <=> call'[c].unrestored # {}
                     /\ call'[c].stopped = 0 \/ call'[c].stopped \in DOMAIN call[c].changes
  <1>1. call[c] \in CallRecord /\ Progress(call[c]) /\ call \in [Calls -> CallRecord]
    BY DEF IInv, TypeOK, CallInv
  <1>2. {"refused", "conflict", "failed", "rolled_back", "uncertain", "ok"} \subseteq Outcomes
    BY DEF Outcomes
  <1>3. CASE refuse(c)
    <2>1. call[c].pc = "prepare" /\ Return(c, call[c], "refused")
      BY <1>3 DEF refuse
    <2>2. call[c].stopped = 0 /\ call[c].unrestored = {}
      BY <1>1, <2>1 DEF Progress, Steps
    <2> QED
      BY <1>1, <1>2, <1>3, <2>1, <2>2, ReturnEffect DEF Step
  <1>4. CASE conflict_pass(c) /\ Return(c, call[c], "conflict")
    <2>1. call[c].pc = "conflict"
      BY <1>4 DEF conflict_pass
    <2>2. call[c].stopped = 0 /\ call[c].unrestored = {}
      BY <1>1, <2>1 DEF Progress, Steps
    <2> QED
      BY <1>1, <1>2, <1>4, <2>1, <2>2, ReturnEffect DEF Step
  <1>5. CASE call[c].pc \in {"check", "open", "write"} /\ ApplyFailed(c)
    <2> DEFINE o == call[c]
               r == [o EXCEPT !.stopped = o.i]
               s == [r EXCEPT !.pc = "rollback", !.i = r.applied]
    <2>1. o.pc \in Passes \ {"prepare"}
      BY <1>5 DEF Passes
    <2>2. o.i \in DOMAIN o.changes /\ o.i \in Nat /\ o.unrestored = {}
      BY <1>1, <2>1, InPass, CallRecordFields
    <2>3. \/ Return(c, r, "failed")
          \/ Return(c, r, "rolled_back")
          \/ call' = [call EXCEPT ![c] = s]
      BY <1>5 DEF ApplyFailed
    <2>4. r = StoppedAt(o, o.i) /\ s = RollingBack(r, r.applied)
      BY DEF StoppedAt, RollingBack
    <2>5. o \in CallRecord
      BY <1>1
    <2> HIDE DEF o, r, s
    <2>6. r \in CallRecord /\ r.stopped = o.i /\ r.unrestored = {}
      BY ONLY <2>2, <2>4, <2>5, StoppedAtRecord, StoppedAtFields
    <2>7. call' # [call EXCEPT ![c] = s]
      <3>1. r.applied \in Nat
        BY <2>6, CallRecordFields
      <3>2. s.pc = "rollback"
        BY <2>4, <2>6, <3>1, RollingBackFields
      <3>3. call'[c].pc = "done"
        BY DEF Returns
      <3> QED
        BY <1>1, <3>2, <3>3
    <2>8. \/ Return(c, r, "failed") \/ Return(c, r, "rolled_back")
      BY <2>3, <2>7
    <2>9. Told
      BY <1>2, <2>2, <2>6, <2>8, ReturnEffect DEF o
    <2> QED
      BY <2>9, ReturnIsStep
  <1>6. CASE rollback_done(c)
    <2> DEFINE out == IF call[c].unrestored = {} THEN "rolled_back" ELSE "uncertain"
    <2>1. call[c].pc = "rollback" /\ Return(c, call[c], out)
      BY <1>6 DEF rollback_done
    <2>2. call[c].stopped = 0 \/ call[c].stopped \in DOMAIN call[c].changes
      BY <2>1, InRollback
    <2> QED
      BY <1>1, <1>2, <1>6, <2>1, <2>2, ReturnEffect DEF Step
  <1>7. CASE report(c)
    <2>1. call[c].pc = "report" /\ Return(c, call[c], "ok")
      BY <1>7 DEF report
    <2>2. call[c].unrestored = {}
      BY <1>1, <2>1 DEF Progress, Steps
    <2> QED
      BY <1>1, <1>2, <1>7, <2>1, <2>2, ReturnEffect DEF Step
  <1> QED
    BY <1>3, <1>4, <1>5, <1>6, <1>7, ReturnsByAnswer

----------------------------------------------------------------------------
(* The abstract transaction: every step is one of its, or invisible *)

\* What the store looks like while call c has its turn.
LEMMA ViewInTurn ==
    ASSUME IInv, NEW c \in Calls, InFlight(c)
    PROVE  /\ lock = c /\ lock # NoCall
           /\ \A f \in Files :
                 StoreView[f] = IF f \in call[c].disturbed THEN disk[f] ELSE call[c].before[f]
           /\ TouchedView = call[c].disturbed
           /\ FateView[c] = "open" /\ NotedView[c] = {}
  <1>1. lock = c /\ c # NoCall
    BY Flying, ConstantsAssumption
  <1>2. call[c].pc \in Steps
    BY DEF InFlight
  <1> QED
    BY <1>1, <1>2 DEF StoreView, TouchedView, FateView, FateOf, NotedView, Steps

\* And what it looks like between the turns.
LEMMA ViewBetween ==
    ASSUME TypeOK, lock = NoCall
    PROVE  StoreView = disk /\ TouchedView = {}
  BY DEF StoreView, TouchedView, TypeOK

LEMMA ViewBetweenNext ==
    ASSUME TypeOK', lock' = NoCall
    PROVE  StoreView' = disk' /\ TouchedView' = {}
  BY DEF StoreView, TouchedView, TypeOK

\* What is wanted of a file, and who wants something of it.
LEMMA WantedFacts ==
    ASSUME NEW c \in Calls, NEW f \in Files
    PROVE  /\ WantedView[c][f] = {call[c].requests[k].new :
                                    k \in {j \in DOMAIN call[c].requests : call[c].requests[j].path = f}}
           /\ (f \in Transaction!Named(c)) <=> \E k \in DOMAIN call[c].requests : call[c].requests[k].path = f
  BY DEF WantedView, WantedBy, Transaction!Named

\* Nothing but its own work is what the abstract transaction leaves behind.
LEMMA OwnWorkIsLeftover ==
    ASSUME IInv, AskedInv, NEW c \in Calls, InFlight(c), NEW f \in Files \ call[c].disturbed
    PROVE  /\ disk[f] \in Transaction!Leftover(c, f)
           /\ disk[f] # StoreView[f] => f \in Transaction!Named(c)
  <1>1. StoreView[f] = call[c].before[f]
    BY ViewInTurn
  <1>2. call[c] \in CallRecord /\ Progress(call[c]) /\ Clean(call[c], f, disk[f]) /\ AsAsked(call[c])
    BY Flying DEF AskedInv
  <1>3. CASE disk[f] = call[c].before[f]
    BY <1>1, <1>3 DEF Transaction!Leftover
  <1>4. ASSUME NEW k \in DOMAIN call[c].changes, call[c].changes[k].path = f,
               disk[f] = call[c].changes[k].full_new
        PROVE  disk[f] \in Transaction!Leftover(c, f) /\ f \in Transaction!Named(c)
    BY <1>2, <1>4, WantedFacts DEF AsAsked, Transaction!Leftover
  <1>5. CASE disk[f] = Torn /\ HalfWritten(call[c], f)
    <2>1. \E k \in DOMAIN call[c].changes : call[c].changes[k].path = f
      <3>1. CASE call[c].pc = "write" /\ f = call[c].changes[call[c].i].path
        <4>1. call[c].i \in DOMAIN call[c].changes
          BY <3>1, InPass DEF Passes
        <4> QED
          BY <3>1, <4>1
      <3>2. CASE call[c].stopped # 0 /\ f = call[c].changes[call[c].stopped].path
        <4>1. call[c].pc = "rollback"
          BY <1>2, <3>2 DEF Progress, InFlight
        <4>2. call[c].stopped \in DOMAIN call[c].changes
          BY <3>2, <4>1, InRollback
        <4> QED
          BY <3>2, <4>2
      <3> QED
        BY <1>5, <3>1, <3>2 DEF HalfWritten
    <2>2. f \in Transaction!Named(c)
      BY <1>2, <2>1, WantedFacts DEF AsAsked
    <2> QED
      BY <1>5, <2>2 DEF Transaction!Leftover
  <1> QED
    BY <1>2, <1>3, <1>4, <1>5 DEF Clean, OwnWork

\* A step of call c shows in nothing but its own fate and notes.
LEMMA OnlyItsOwn ==
    ASSUME IInv, NEW c \in Calls, Step(c), call'[c].requests = call[c].requests
    PROVE  /\ WantedView' = WantedView
           /\ FateView' = [FateView EXCEPT ![c] = FateOf(call'[c])]
           /\ NotedView' = [NotedView EXCEPT ![c] =
                              IF call'[c].pc = "done" THEN call'[c].unrestored ELSE {}]
  <1>1. \A d \in Calls \ {c} : call'[d] = call[d]
    BY Frame DEF IInv, TypeOK
  <1>2. WantedView' = WantedView
    BY <1>1 DEF WantedView
  <1>3. FateView' = [FateView EXCEPT ![c] = FateOf(call'[c])]
    BY <1>1 DEF FateView
  <1>4. NotedView' = [NotedView EXCEPT ![c] = IF call'[c].pc = "done" THEN call'[c].unrestored ELSE {}]
    BY <1>1 DEF NotedView
  <1> QED
    BY <1>2, <1>3, <1>4

\* A step within the turn is invisible, unless it writes a file an outsider
\* has written.
LEMMA StayImplements ==
    ASSUME IInv, AskedInv, TypeOK', NEW c \in Calls, Step(c), call'[c].pc \in Steps
    PROVE  [Transaction!Next]_(Transaction!vars)
  <1>1. InFlight(c)
    BY StepFlies
  <1>2. /\ call'[c].requests = call[c].requests /\ call'[c].before = call[c].before
        /\ call'[c].disturbed = call[c].disturbed /\ lock' = lock /\ Writes(c)
    <2>1. CASE prepare(c)
      BY <2>1, PrepareEffect DEF Writes
    <2>2. CASE ~ prepare(c)
      BY <2>2, StepEffect DEF Continues, Turn, Steps
    <2> QED
      BY <2>1, <2>2
  <1>3. FateOf(call'[c]) = "open" /\ call'[c].pc # "done"
    BY DEF FateOf, Steps
  <1>4. FateView[c] = "open" /\ NotedView[c] = {} /\ lock = c /\ lock # NoCall
    BY <1>1, ViewInTurn
  <1>5. UNCHANGED <<WantedView, FateView, NotedView>>
    <2>1. FateView = [FateView EXCEPT ![c] = "open"] /\ NotedView = [NotedView EXCEPT ![c] = {}]
      BY <1>4 DEF FateView, NotedView
    <2> QED
      BY <1>2, <1>3, <2>1, OnlyItsOwn
  <1>6. UNCHANGED TouchedView
    BY <1>2, <1>4 DEF TouchedView
  <1>7. /\ StoreView = [f \in Files |-> IF f \notin call[c].disturbed
                                        THEN call[c].before[f] ELSE disk[f]]
        /\ StoreView' = [f \in Files |-> IF f \notin call[c].disturbed
                                         THEN call[c].before[f] ELSE disk'[f]]
    BY <1>2, <1>4 DEF StoreView
  <1>8. CASE \A f \in call[c].disturbed : disk'[f] = disk[f]
    <2>1. StoreView' = StoreView
      BY <1>7, <1>8
    <2> QED
      BY <1>2, <1>5, <1>6, <2>1 DEF Transaction!vars
  <1>9. CASE \E f \in call[c].disturbed : disk'[f] # disk[f]
    <2>1. PICK f \in call[c].disturbed : disk'[f] # disk[f]
      BY <1>9
    <2>2. f \in Files
      BY <2>1, CallRecordFields DEF IInv, TypeOK
    <2>3. PICK k \in DOMAIN call[c].changes :
             \A g \in Files : g # call[c].changes[k].path => disk'[g] = disk[g]
      BY <1>2, <2>1 DEF Writes
    <2>4. f = call[c].changes[k].path
      BY <2>1, <2>2, <2>3
    <2>5. f \in Transaction!Named(c)
      BY <2>2, <2>3, <2>4, WantedFacts DEF AskedInv, AsAsked
    <2>6. disk'[f] \in OnDisk
      BY <2>2 DEF TypeOK
    <2>7. StoreView' = [StoreView EXCEPT ![f] = disk'[f]]
      BY <1>7, <2>1, <2>2, <2>3, <2>4
    <2>8. f \in TouchedView
      BY <1>1, <2>1, ViewInTurn
    <2>9. Transaction!Race(c)
      BY <1>2, <1>4, <1>5, <1>6, <2>5, <2>6, <2>7, <2>8 DEF Transaction!Race
    <2> QED
      BY <2>9 DEF Transaction!Next
  <1> QED
    BY <1>8, <1>9

\* The step that returns commits the transaction or undoes it.
LEMMA ReturnImplements ==
    ASSUME IInv, AskedInv, TypeOK', AskedInv', [Next]_vars, NEW c \in Calls, Returns(c)
    PROVE  Transaction!Commit(c) \/ Transaction!Undo(c)
  <1> DEFINE o == call[c]
             q == call'[c]
  <1>1. Step(c) /\ InFlight(c)
    BY ReturnIsStep, StepFlies
  <1>2. q.pc = "done" /\ ~ prepare(c)
    BY PrepareEffect DEF Returns, Steps
  <1>3. /\ q.requests = o.requests /\ q.changes = o.changes /\ lock' = NoCall /\ disk' = disk
    BY <1>1, <1>2, StepEffect DEF Continues, Turn, Steps
  <1>4. /\ lock = c /\ TouchedView = o.disturbed /\ NotedView[c] = {}
        /\ \A f \in Files : StoreView[f] = IF f \in o.disturbed THEN disk[f] ELSE o.before[f]
    BY <1>1, ViewInTurn
  <1>5. StoreView' = disk /\ TouchedView' = {} /\ DOMAIN StoreView' = Files
    BY <1>3, ViewBetweenNext DEF TypeOK
  <1>6. /\ WantedView' = WantedView
        /\ FateView' = [FateView EXCEPT ![c] = FateOf(q)]
        /\ NotedView' = [NotedView EXCEPT ![c] = q.unrestored]
    BY <1>1, <1>2, <1>3, OnlyItsOwn
  <1>7. Transaction!Close(c)
    BY <1>3, <1>4, <1>5, <1>6 DEF Transaction!Close
  <1>8. o \in CallRecord /\ Progress(o) /\ AsAsked(o) /\ AsAsked(q)
    BY <1>1, Flying DEF AskedInv
  <1>9. o.requests # <<>> /\ o.requests \in Seq(TransactionRequest)
    BY <1>1, <1>8, CallRecordFields DEF Progress, InFlight
  <1>10. CASE report(c) /\ q.outcome = "ok" /\ q.unrestored = {}
    <2>1. o.pc = "report"
      BY <1>10 DEF report
    <2>2. DOMAIN o.changes = DOMAIN o.requests
      <3>1. Len(o.changes) = Len(o.requests)
        BY <1>8, <2>1 DEF Progress, Steps
      <3> QED
        BY <1>8, <3>1, CallRecordFields
    <2>3. o.stopped = 0 /\ o.applied = Len(o.changes) /\ DOMAIN o.changes = 1 .. Len(o.changes)
      BY <1>8, <2>1, CallRecordFields DEF Progress, Steps
    <2>4. ASSUME NEW f \in Files, f \in Transaction!Named(c) \ TouchedView
          PROVE  WantedView[c][f] = {disk[f]}
      <3>1. Verified(o, f, disk[f])
        BY <1>1, <1>4, <2>4, Flying DEF Clean
      <3>2. \A k \in DOMAIN o.requests : o.requests[k].path = f => disk[f] = o.requests[k].new
        BY <1>8, <2>1, <2>2, <3>1 DEF Verified, AsAsked
      <3>3. \E k \in DOMAIN o.requests : o.requests[k].path = f
        BY <2>4, WantedFacts
      <3>4. WantedView[c][f] =
              {o.requests[k].new : k \in {j \in DOMAIN o.requests : o.requests[j].path = f}}
        BY WantedFacts
      <3> QED
        BY <3>2, <3>3, <3>4
    <2>5. ASSUME NEW f \in Files, f \notin Transaction!Named(c) \ TouchedView
          PROVE  disk[f] = StoreView[f]
      <3>1. CASE f \in o.disturbed
        BY <1>4, <3>1
      <3>2. CASE f \notin o.disturbed
        <4>1. ~ \E k \in DOMAIN o.changes : o.changes[k].path = f
          BY <1>4, <1>8, <2>5, <3>2, WantedFacts DEF AsAsked
        <4>2. Unapplied(o, f, disk[f])
          BY <1>1, <3>2, Flying DEF Clean
        <4>3. disk[f] = o.before[f]
          BY <2>1, <2>3, <4>1, <4>2 DEF Unapplied, HalfWritten
        <4> QED
          BY <1>4, <3>2, <4>3
      <3> QED
        BY <3>1, <3>2
    <2>6. FateOf(q) = "done"
      BY <1>2, <1>10 DEF FateOf, Steps
    <2>7. NotedView' = NotedView
      BY <1>4, <1>6, <1>10 DEF NotedView
    <2>8. Transaction!Commit(c)
      BY <1>5, <1>6, <1>7, <2>4, <2>5, <2>6, <2>7 DEF Transaction!Commit
    <2> QED
      BY <2>8
  <1>11. CASE /\ q.outcome # "ok"
              /\ q.outcome = "uncertain" <=> q.unrestored # {}
              /\ q.stopped = 0 \/ q.stopped \in DOMAIN o.changes
    <2> DEFINE cut == IF q.stopped = 0 THEN o.requests[1].path ELSE o.changes[q.stopped].path
               left == q.unrestored
    <2>1. cut \in Transaction!Named(c)
      <3>1. \E k \in DOMAIN o.requests : cut = o.requests[k].path
        <4>1. 1 \in DOMAIN o.requests
          BY <1>9
        <4> QED
          BY <1>8, <1>11, <4>1 DEF AsAsked
      <3> HIDE DEF cut
      <3>2. cut \in Files
        <4>1. PICK k \in DOMAIN o.requests : cut = o.requests[k].path
          BY <3>1
        <4>2. o.requests[k] \in TransactionRequest
          BY <1>9
        <4> QED
          BY <4>1, <4>2 DEF TransactionRequest
      <3> QED
        BY <3>1, <3>2, WantedFacts
    <2>2. left \in SUBSET Transaction!Named(c)
      <3>1. left \subseteq Files
        BY CallRecordFields DEF TypeOK
      <3>2. \A f \in left : \E k \in DOMAIN o.requests : o.requests[k].path = f
        BY <1>3, <1>8 DEF AsAsked
      <3> QED
        BY <3>1, <3>2, WantedFacts
    <2>3. ASSUME NEW f \in Files
          PROVE  \/ disk[f] = StoreView[f]
                 \/ f = cut /\ f \notin TouchedView /\ disk[f] = Torn
                 \/ f \in left \ TouchedView /\ disk[f] \in Transaction!Leftover(c, f)
      <3>1. CASE f \in o.disturbed
        BY <1>4, <3>1
      <3>2. CASE f \notin o.disturbed
        <4>1. HonestAbout(c, f)
          BY <3>2, HonestReturn
        <4>2. \/ disk[f] = o.before[f]
              \/ f \in left
              \/ q.stopped # 0 /\ f = o.changes[q.stopped].path /\ disk[f] = Torn
          BY <1>3, <1>11, <4>1 DEF HonestAbout
        <4>3. disk[f] \in Transaction!Leftover(c, f)
          BY <1>1, <3>2, OwnWorkIsLeftover
        <4> QED
          BY <1>4, <3>2, <4>2, <4>3
      <3> QED
        BY <3>1, <3>2
    <2>4. FateOf(q) = IF left = {} THEN "undone" ELSE "uncertain"
      BY <1>2, <1>11 DEF FateOf, Steps
    <2> HIDE DEF cut, left
    <2>5. Transaction!Undo(c)
      <3>1. /\ FateView' = [FateView EXCEPT ![c] = IF left = {} THEN "undone" ELSE "uncertain"]
            /\ NotedView' = [NotedView EXCEPT ![c] = left]
        BY <1>6, <2>4 DEF left
      <3>2. \A f \in Files :
               \/ StoreView'[f] = StoreView[f]
               \/ f = cut /\ f \notin TouchedView /\ StoreView'[f] = Torn
               \/ f \in left \ TouchedView /\ StoreView'[f] \in Transaction!Leftover(c, f)
        BY <1>5, <2>3
      <3> QED
        BY <1>5, <1>7, <2>1, <2>2, <3>1, <3>2 DEF Transaction!Undo
    <2> QED
      BY <2>5
  <1> QED
    BY <1>10, <1>11, ReturnTells

LEMMA WantedByType ==
    ASSUME NEW q \in Seq(TransactionRequest)
    PROVE  WantedBy(q) \in [Files -> SUBSET OnDisk]
  <1>1. \A k \in DOMAIN q : q[k].new \in OnDisk
    <2>1. \A k \in DOMAIN q : q[k] \in TransactionRequest
      OBVIOUS
    <2> QED
      BY <2>1 DEF TransactionRequest, OnDisk
  <1> QED
    BY <1>1 DEF WantedBy

\* A call that takes the lock begins: nobody has disturbed it yet.
LEMMA AcquireImplements ==
    ASSUME IInv, AskedInv, NEW c \in Calls, Acquire(c)
    PROVE  Transaction!Begin(c)
  <1> DEFINE r == [call[c] EXCEPT !.pc = "prepare", !.before = disk]
  <1>1. /\ call \in [Calls -> CallRecord] /\ disk \in [Files -> OnDisk] /\ c # NoCall /\ TypeOK
        /\ call[c].disturbed = {}
    BY ConstantsAssumption DEF IInv, TypeOK, AskedInv, AsAsked, Acquire
  <1>2. /\ call[c].pc = "waiting" /\ lock = NoCall /\ lock' = c /\ disk' = disk
        /\ call' = [call EXCEPT ![c] = r]
    BY DEF Acquire
  <1>3. /\ r.pc = "prepare" /\ r.before = disk /\ r.disturbed = {}
        /\ r.requests = call[c].requests
    BY <1>1 DEF CallRecord
  <1> HIDE DEF r
  <1>4. call'[c] = r /\ \A d \in Calls \ {c} : call'[d] = call[d]
    BY <1>1, <1>2
  <1>5. StoreView = disk /\ TouchedView = {}
    BY <1>1, <1>2, ViewBetween
  <1>6. StoreView' = disk /\ TouchedView' = {}
    BY <1>1, <1>2, <1>3, <1>4 DEF StoreView, TouchedView
  <1>7. WantedView' = WantedView
    BY <1>3, <1>4 DEF WantedView
  <1>8. FateView[c] = "asked" /\ FateView' = [FateView EXCEPT ![c] = "open"]
    <2>1. FateOf(call'[c]) = "open" /\ FateOf(call[c]) = "asked"
      BY <1>2, <1>3, <1>4 DEF FateOf, Steps
    <2>2. FateView' = [FateView EXCEPT ![c] = FateOf(call'[c])]
      BY <1>4 DEF FateView
    <2>3. FateView[c] = "asked"
      BY <2>1 DEF FateView
    <2> QED
      BY <2>1, <2>2, <2>3
  <1>9. NotedView' = NotedView
    BY <1>2, <1>3, <1>4 DEF NotedView
  <1> QED
    BY <1>2, <1>5, <1>6, <1>7, <1>8, <1>9 DEF Transaction!Begin

\* A call that arrives asks, in the middle of another's turn or not.
LEMMA ArriveImplements ==
    ASSUME IInv, AskedInv, TypeOK', NEW c \in Calls, NEW kind, NEW q, Arrive(c, kind, q)
    PROVE  Transaction!Ask(c)
  <1> DEFINE r == [Idle EXCEPT !.pc = "waiting", !.kind = kind, !.requests = q]
  <1>1. /\ call[c].pc = "idle" /\ lock' = lock /\ disk' = disk
        /\ call' = [call EXCEPT ![c] = r]
    BY DEF Arrive
  <1>2. r.pc = "waiting"
    BY DEF Idle
  <1> HIDE DEF r
  <1>3. call'[c] = r /\ \A d \in Calls \ {c} : call'[d] = call[d]
    BY <1>1 DEF IInv, TypeOK
  <1>4. lock # NoCall => lock \in Calls \ {c}
    BY <1>1 DEF IInv, TypeOK, AskedInv, InFlight, Steps
  <1>5. StoreView' = StoreView /\ TouchedView' = TouchedView
    BY <1>1, <1>3, <1>4 DEF StoreView, TouchedView
  <1>6. FateView[c] = "new" /\ FateView' = [FateView EXCEPT ![c] = "asked"]
    <2>1. FateOf(call'[c]) = "asked" /\ FateOf(call[c]) = "new"
      BY <1>1, <1>2, <1>3 DEF FateOf, Steps
    <2>2. FateView' = [FateView EXCEPT ![c] = FateOf(call'[c])]
      BY <1>3 DEF FateView
    <2>3. FateView[c] = "new"
      BY <2>1 DEF FateView
    <2> QED
      BY <2>1, <2>2, <2>3
  <1>7. NotedView' = NotedView
    BY <1>1, <1>2, <1>3 DEF NotedView
  <1>8. \A d \in Calls \ {c} : WantedView'[d] = WantedView[d]
    BY <1>3 DEF WantedView
  <1>9. WantedView' \in [Calls -> [Files -> SUBSET OnDisk]]
    <2>1. \A d \in Calls : call'[d].requests \in Seq(TransactionRequest)
      BY CallRecordFields DEF TypeOK
    <2> QED
      BY <2>1, WantedByType DEF WantedView
  <1> QED
    BY <1>1, <1>5, <1>6, <1>7, <1>8, <1>9 DEF Transaction!Ask

\* An outsider writes the store itself, and touches what it writes.
LEMMA OutsiderImplements ==
    ASSUME IInv, AskedInv, NEW f \in Files, NEW v \in Contents \cup {Absent}, Outsider(f, v)
    PROVE  Transaction!Outside
  <1>1. /\ call \in [Calls -> CallRecord] /\ disk \in [Files -> OnDisk] /\ TypeOK
        /\ lock' = lock /\ disk' = [disk EXCEPT ![f] = v] /\ v \in OnDisk
    BY DEF Outsider, IInv, TypeOK, OnDisk
  <1>2. ASSUME NEW c \in Calls
        PROVE  /\ call'[c].pc = call[c].pc /\ call'[c].requests = call[c].requests
               /\ call'[c].unrestored = call[c].unrestored /\ call'[c].before = call[c].before
               /\ call'[c].outcome = call[c].outcome
               /\ InFlight(c) => call'[c].disturbed = call[c].disturbed \cup {f}
    <2>1. CASE ~ InFlight(c)
      BY <2>1 DEF Outsider
    <2>2. CASE InFlight(c)
      <3> DEFINE u == call[c].disturbed \cup {f}
      <3>1. call'[c] = Disturbed(call[c], u)
        BY <2>2 DEF Outsider, Disturbed
      <3>2. u \in SUBSET Files /\ call[c] \in CallRecord
        BY <1>1, CallRecordFields
      <3> QED
        BY <3>1, <3>2, DisturbedFields
    <2> QED
      BY <2>1, <2>2
  <1>3. WantedView' = WantedView /\ FateView' = FateView /\ NotedView' = NotedView
    <2>1. \A c \in Calls : FateOf(call'[c]) = FateOf(call[c])
      BY <1>2 DEF FateOf
    <2>2. FateView' = FateView
      BY <2>1 DEF FateView
    <2>3. WantedView' = WantedView /\ NotedView' = NotedView
      BY <1>2 DEF WantedView, NotedView
    <2> QED
      BY <2>2, <2>3
  <1>4. /\ StoreView' = [StoreView EXCEPT ![f] = v]
        /\ TouchedView' = IF lock = NoCall THEN {} ELSE TouchedView \cup {f}
    <2>1. CASE lock = NoCall
      BY <1>1, <2>1 DEF StoreView, TouchedView
    <2>2. CASE lock # NoCall
      <3>1. lock \in Calls /\ InFlight(lock)
        BY <2>2 DEF IInv, TypeOK, AskedInv
      <3>2. /\ call'[lock].before = call[lock].before
            /\ call'[lock].disturbed = call[lock].disturbed \cup {f}
        BY <1>2, <3>1
      <3> QED
        BY <1>1, <2>2, <3>2 DEF StoreView, TouchedView
    <2> QED
      BY <2>1, <2>2
  <1> QED
    BY <1>1, <1>3, <1>4 DEF Transaction!Outside

\* A crash loses what waits and what is open, and leaves in the files what the
\* open call had made of them.
LEMMA CrashImplements ==
    ASSUME IInv, AskedInv, TypeOK', Crash
    PROVE  Transaction!Lose
  <1>1. /\ call \in [Calls -> CallRecord] /\ disk \in [Files -> OnDisk] /\ TypeOK
        /\ lock' = NoCall /\ disk' = disk
    BY DEF Crash, IInv, TypeOK
  <1>2. ASSUME NEW c \in Calls, InFlight(c) \/ call[c].pc = "waiting"
        PROVE  /\ call'[c].pc = "dead" /\ call'[c].requests = call[c].requests
    <2>1. call'[c] = Dying(call[c])
      BY <1>2 DEF Crash, Dying
    <2> QED
      BY <1>1, <2>1 DEF Dying, CallRecord
  <1>3. \A c \in Calls : ~ (InFlight(c) \/ call[c].pc = "waiting") => call'[c] = call[c]
    BY DEF Crash
  <1>4. WantedView' = WantedView
    BY <1>2, <1>3 DEF WantedView
  <1>5. NotedView' = NotedView
    <2>1. \A c \in Calls : InFlight(c) \/ call[c].pc = "waiting" => call[c].pc # "done"
      BY DEF InFlight, Steps
    <2> QED
      BY <1>2, <1>3, <2>1 DEF NotedView
  <1>6. FateView' = [c \in Calls |-> IF FateView[c] \in {"asked", "open"} THEN "lost" ELSE FateView[c]]
    <2>1. ASSUME NEW c \in Calls
          PROVE  FateOf(call'[c]) = IF FateOf(call[c]) \in {"asked", "open"} THEN "lost"
                                    ELSE FateOf(call[c])
      <3>1. CASE InFlight(c) \/ call[c].pc = "waiting"
        <4>1. FateOf(call[c]) \in {"asked", "open"}
          BY <3>1 DEF InFlight, FateOf, Steps
        <4>2. FateOf(call'[c]) = "lost"
          BY <1>2, <3>1 DEF FateOf, Steps
        <4> QED
          BY <4>1, <4>2
      <3>2. CASE ~ (InFlight(c) \/ call[c].pc = "waiting")
        <4>1. FateOf(call[c]) \notin {"asked", "open"}
          BY <3>2 DEF InFlight, FateOf
        <4> QED
          BY <1>3, <3>2, <4>1
      <3> QED
        BY <3>1, <3>2
    <2> QED
      BY <2>1 DEF FateView
  <1>7. StoreView' = disk /\ TouchedView' = {} /\ DOMAIN StoreView' = Files
    BY <1>1, ViewBetweenNext DEF TypeOK
  <1>8. ASSUME NEW f \in Files
        PROVE  \/ disk[f] = StoreView[f]
               \/ /\ lock # NoCall /\ f \in Transaction!Named(lock) \ TouchedView
                  /\ disk[f] \in Transaction!Leftover(lock, f)
    <2>1. CASE lock = NoCall
      BY <1>1, <2>1, ViewBetween
    <2>2. CASE lock # NoCall
      <3>1. lock \in Calls /\ InFlight(lock)
        BY <2>2 DEF IInv, TypeOK, AskedInv
      <3>2. CASE f \in call[lock].disturbed
        BY <3>1, <3>2, ViewInTurn
      <3>3. CASE f \notin call[lock].disturbed
        BY <2>2, <3>1, <3>3, ViewInTurn, OwnWorkIsLeftover
      <3> QED
        BY <3>2, <3>3
    <2> QED
      BY <2>1, <2>2
  <1> QED
    BY <1>1, <1>4, <1>5, <1>6, <1>7, <1>8 DEF Transaction!Lose

LEMMA InitImplements == Init => Transaction!Init
  <1> SUFFICES ASSUME Init PROVE Transaction!Init
    OBVIOUS
  <1>1. /\ disk \in [Files -> OnDisk] /\ lock = NoCall /\ call = [c \in Calls |-> Idle]
    BY DEF Init, OnDisk
  <1>2. Idle.pc = "idle" /\ Idle.requests = <<>>
    BY DEF Idle
  <1>3. StoreView = disk /\ TouchedView = {}
    BY <1>1 DEF StoreView, TouchedView
  <1>4. WantedView = [c \in Calls |-> [f \in Files |-> {}]]
    BY <1>1, <1>2 DEF WantedView, WantedBy
  <1>5. FateView = [c \in Calls |-> "new"] /\ NotedView = [c \in Calls |-> {}]
    BY <1>1, <1>2 DEF FateView, FateOf, NotedView
  <1> QED
    BY <1>1, <1>3, <1>4, <1>5 DEF Transaction!Init

LEMMA NextImplements ==
    ASSUME IInv, AskedInv, TypeOK', AskedInv', [Next]_vars
    PROVE  [Transaction!Next]_(Transaction!vars)
  <1>1. ASSUME NEW c \in Calls, Step(c) PROVE [Transaction!Next]_(Transaction!vars)
    <2>1. InFlight(c)
      BY <1>1, StepFlies
    <2>2. CASE call'[c].pc \in Steps
      BY <1>1, <2>2, StayImplements
    <2>3. CASE call'[c].pc \notin Steps
      <3>1. call'[c].pc = "done"
        BY <1>1, <2>3, PrepareEffect, StepEffect DEF Turn
      <3>2. Returns(c)
        BY <2>1, <3>1 DEF Returns, InFlight, Steps
      <3> QED
        BY <3>2, ReturnImplements DEF Transaction!Next
    <2> QED
      BY <2>2, <2>3
  <1>2. ASSUME NEW c \in Calls, Acquire(c) PROVE Transaction!Next
    BY <1>2, AcquireImplements DEF Transaction!Next
  <1>3. ASSUME NEW c \in Calls, NEW kind, NEW q, Arrive(c, kind, q) PROVE Transaction!Next
    BY <1>3, ArriveImplements DEF Transaction!Next
  <1>4. ASSUME NEW f \in Files, NEW v \in Contents \cup {Absent}, Outsider(f, v)
        PROVE  Transaction!Next
    BY <1>4, OutsiderImplements DEF Transaction!Next
  <1>5. CASE Crash
    BY <1>5, CrashImplements DEF Transaction!Next
  <1>6. CASE UNCHANGED vars
    <2>1. UNCHANGED <<StoreView, lock, TouchedView, WantedView, FateView, NotedView>>
      BY <1>6 DEF vars, StoreView, TouchedView, WantedView, FateView, NotedView
    <2> QED
      BY <2>1 DEF Transaction!vars
  <1> QED
    BY <1>1, <1>2, <1>3, <1>4, <1>5, <1>6 DEF Next

\* The change engine implements the abstract transaction, for every workspace
\* and every number of calls, requests, edits by outsiders, failed system calls
\* and crashes.
THEOREM TransactionImplemented == Spec => ImplementsTransaction
  <1>1. IInv /\ AskedInv /\ IInv' /\ AskedInv' /\ [Next]_vars
          => [Transaction!Next]_(Transaction!vars)
    BY NextImplements DEF IInv
  <1>2. Spec => []AskedInv
    BY AskedInit, AskedNext, Invariance, PTL DEF Spec
  <1> QED
    BY <1>1, <1>2, Invariance, InitImplements, PTL
    DEF Spec, ImplementsTransaction, Transaction!Spec

----------------------------------------------------------------------------
(* The patch of one file: sequences glued together *)

\* A set of numbers has a least one.
LEMMA LeastOf ==
    ASSUME NEW T, T \subseteq Nat, T # {}
    PROVE  \E m \in T : \A k \in T : m <= k
<1> DEFINE R == {ss \in Nat \X Nat : ss[1] < ss[2]}
<1>1. IsWellFoundedOn(R, Nat)  BY NatLessThanWellFounded DEF OpToRel
<1>2. \A a, b \in Nat : <<a, b>> \in R <=> a < b  OBVIOUS
<1> HIDE DEF R
<1>3. PICK x \in T : \A y \in T : ~ (<<y, x>> \in R)  BY <1>1, WFMin
<1>4. ASSUME NEW y \in T PROVE x <= y
  <2>1. x \in Nat /\ y \in Nat  OBVIOUS
  <2>2. ~ (y < x)  BY <1>2, <1>3, <2>1
  <2> QED  BY <2>1, <2>2
<1> QED  BY <1>4

\* What FlattenSeq computes: the first i of the sequences, one after the other.
GlueBody(f, ss, i) == IF i = 1 THEN ss[i] ELSE f[i - 1] \o ss[i]

Glue(ss, n) == CHOOSE f : f = [i \in 1 .. n |-> GlueBody(f, ss, i)]

IsGlue(f, ss, n) == f = [i \in 1 .. n |-> GlueBody(f, ss, i)]

LEMMA FlattenIsGlue ==
    ASSUME NEW ss
    PROVE  FlattenSeq(ss) = IF Len(ss) = 0 THEN ss ELSE Glue(ss, Len(ss))[Len(ss)]
  BY DEF FlattenSeq, Glue, GlueBody

\* For every length there is a function that satisfies the equation.
LEMMA GlueExists ==
    ASSUME NEW ss, NEW n \in Nat
    PROVE  \E f : IsGlue(f, ss, n)
<1> DEFINE Bad == {k \in Nat : ~ \E f : IsGlue(f, ss, k)}
<1>1. SUFFICES ASSUME Bad # {} PROVE FALSE
  OBVIOUS
<1>2. PICK b \in Bad : \A j \in Bad : b <= j
  <2>1. Bad \subseteq Nat  OBVIOUS
  <2> QED  BY <1>1, <2>1, LeastOf
<1>3. b \in Nat /\ ~ \E f : IsGlue(f, ss, b)  BY <1>2
<1>4. CASE b = 0
  <2>1. 1 .. b = {}  BY <1>4
  <2>2. IsGlue([i \in 1 .. b |-> {}], ss, b)  BY <2>1 DEF IsGlue
  <2> QED  BY <2>2, <1>3
<1>5. CASE b # 0
  <2>1. b - 1 \in Nat /\ ~ (b <= b - 1)  BY <1>3, <1>5
  <2>2. PICK f : IsGlue(f, ss, b - 1)  BY <2>1, <1>2
  <2> DEFINE g == [i \in 1 .. b |-> IF i = b THEN GlueBody(f, ss, b) ELSE f[i]]
  <2>3. \A i \in 1 .. (b - 1) : f[i] = GlueBody(f, ss, i)  BY <2>2 DEF IsGlue
  <2>4. \A i \in 1 .. b : g[i] = IF i = b THEN GlueBody(f, ss, b) ELSE f[i]  OBVIOUS
  <2>5. g = [i \in 1 .. b |-> g[i]]  OBVIOUS
  <2> HIDE DEF g
  <2>6. ASSUME NEW i \in 1 .. b PROVE g[i] = GlueBody(g, ss, i)
    <3>1. g[i] = GlueBody(f, ss, i)
      <4>1. CASE i = b  BY <4>1, <2>4
      <4>2. CASE i # b
        <5>1. i \in 1 .. (b - 1)  BY <4>2, <1>3
        <5> QED  BY <5>1, <4>2, <2>3, <2>4
      <4> QED  BY <4>1, <4>2
    <3>2. i # 1 => g[i - 1] = f[i - 1]
      <4>1. i # 1 => i - 1 \in 1 .. b /\ i - 1 # b  BY <1>3
      <4> QED  BY <4>1, <2>4
    <3> QED  BY <3>1, <3>2 DEF GlueBody
  <2>7. IsGlue(g, ss, b)  BY <2>5, <2>6 DEF IsGlue
  <2> QED  BY <2>7, <1>3
<1> QED  BY <1>4, <1>5

LEMMA GlueIs ==
    ASSUME NEW ss, NEW n \in Nat
    PROVE  IsGlue(Glue(ss, n), ss, n)
<1>1. \E f : f = [i \in 1 .. n |-> GlueBody(f, ss, i)]  BY GlueExists DEF IsGlue
<1> QED  BY <1>1 DEF Glue, IsGlue

LEMMA FlattenEmpty ==
    FlattenSeq(<<>>) = <<>>
  BY DEF FlattenSeq

\* One more sequence is glued on at the end.
LEMMA FlattenAppend ==
    ASSUME NEW S, NEW ss \in Seq(Seq(S)), FlattenSeq(ss) \in Seq(S), NEW x \in Seq(S)
    PROVE  /\ FlattenSeq(Append(ss, x)) = FlattenSeq(ss) \o x
           /\ FlattenSeq(Append(ss, x)) \in Seq(S)
<1> DEFINE n == Len(ss)
           tt == Append(ss, x)
           f == Glue(ss, n)
           g == Glue(tt, n + 1)
<1>1. n \in Nat /\ Len(tt) = n + 1 /\ tt[n + 1] = x /\ \A i \in 1 .. n : tt[i] = ss[i]
  OBVIOUS
<1>6. tt = Append(ss, x) /\ n = Len(ss)  OBVIOUS
<1> HIDE DEF tt, n
<1>2. FlattenSeq(tt) = g[n + 1]
  <2>1. Len(tt) # 0  BY <1>1
  <2> QED  BY <2>1, <1>1, FlattenIsGlue, Zenon
<1>3. IsGlue(f, ss, n) /\ IsGlue(g, tt, n + 1)
  <2>1. n + 1 \in Nat  BY <1>1
  <2> QED  BY <2>1, <1>1, GlueIs
<1>7. FlattenSeq(ss) = IF n = 0 THEN ss ELSE f[n]  BY <1>6, FlattenIsGlue
<1> HIDE DEF f, g
<1>8. g[n + 1] = GlueBody(g, tt, n + 1)
  <2>1. n + 1 \in 1 .. (n + 1)  BY <1>1
  <2>2. g = [i \in 1 .. (n + 1) |-> GlueBody(g, tt, i)]  BY <1>3 DEF IsGlue
  <2>3. \A i \in 1 .. (n + 1) : g[i] = GlueBody(g, tt, i)  BY <2>2, Zenon
  <2> QED  BY <2>1, <2>3
<1>4. CASE n = 0
  <2>1. ss = <<>> /\ FlattenSeq(ss) = <<>>  BY <1>4, <1>6, FlattenEmpty
  <2>2. g[n + 1] = GlueBody(g, tt, n + 1)  BY <1>8
  <2>3. g[n + 1] = x  BY <2>2, <1>1, <1>4 DEF GlueBody
  <2> QED  BY <2>1, <2>3, <1>2, <1>6, ConcatEmptySeq
<1>5. CASE n # 0
  <2>1. FlattenSeq(ss) = f[n]  BY <1>5, <1>7
  <2>2. g[n + 1] = GlueBody(g, tt, n + 1)  BY <1>8
  <2>3. n + 1 # 1 /\ (n + 1) - 1 = n  BY <1>1, <1>5
  <2>4. g[n + 1] = g[n] \o x  BY <2>2, <2>3, <1>1 DEF GlueBody
  <2>5. \A i \in 1 .. n : f[i] = g[i]
    <3> DEFINE Bad == {i \in 1 .. n : f[i] # g[i]}
    <3>1. SUFFICES ASSUME Bad # {} PROVE FALSE
      OBVIOUS
    <3>2. PICK b \in Bad : \A j \in Bad : b <= j
      <4>1. Bad \subseteq Nat  BY <1>1
      <4> QED  BY <3>1, <4>1, LeastOf
    <3>3. b \in 1 .. n /\ f[b] # g[b]  BY <3>2
    <3>4. b \in 1 .. (n + 1) /\ tt[b] = ss[b]  BY <3>3, <1>1
    <3>5. f[b] = GlueBody(f, ss, b) /\ g[b] = GlueBody(g, tt, b)
      BY <3>3, <3>4, <1>3 DEF IsGlue
    <3>6. CASE b = 1  BY <3>3, <3>4, <3>5, <3>6 DEF GlueBody
    <3>7. CASE b # 1
      <4>1. b - 1 \in 1 .. n /\ ~ (b <= b - 1)  BY <3>3, <3>7, <1>1
      <4>2. f[b - 1] = g[b - 1]  BY <4>1, <3>2
      <4> QED  BY <4>2, <3>3, <3>4, <3>5, <3>7 DEF GlueBody
    <3> QED  BY <3>6, <3>7
  <2>6. f[n] = g[n]
    <3>1. n \in 1 .. n  BY <1>1, <1>5
    <3> QED  BY <3>1, <2>5
  <2>7. FlattenSeq(tt) = FlattenSeq(ss) \o x  BY <2>1, <2>4, <2>6, <1>2
  <2>8. FlattenSeq(ss) \o x \in Seq(S)  BY ConcatProperties
  <2> QED  BY <2>7, <2>8, <1>6
<1> QED  BY <1>4, <1>5

----------------------------------------------------------------------------
(* The lines of a hunk *)

HunkLine == [tag : {"none", "-", "+"}, line : Line]
OutLine == Line \cup {Kept(h) : h \in HunkLine}

Outputs(s) == FlattenSeq([i \in DOMAIN s |-> Output(s[i])])
OldLines(s) == {i \in DOMAIN s : s[i].tag # "+"}
Counted(s) == Cardinality(OldLines(s))

LEMMA OldLinesFinite ==
    ASSUME NEW s \in Seq(HunkLine)
    PROVE  IsFiniteSet(OldLines(s)) /\ Counted(s) \in Nat
<1>1. IsFiniteSet(1 .. Len(s))  BY FS_Interval
<1>2. OldLines(s) \subseteq 1 .. Len(s)  BY DEF OldLines
<1>3. IsFiniteSet(OldLines(s))  BY <1>1, <1>2, FS_Subset
<1> QED  BY <1>3, FS_CardinalityType DEF Counted

\* One more hunk line, once for the lines it gives and once for the count.
LEMMA OneMoreHunkLine ==
    ASSUME NEW s \in Seq(HunkLine), NEW h \in HunkLine, Outputs(s) \in Seq(OutLine)
    PROVE  /\ Append(s, h) \in Seq(HunkLine)
           /\ Outputs(Append(s, h)) = Outputs(s) \o Output(h)
           /\ Outputs(Append(s, h)) \in Seq(OutLine)
           /\ Counted(Append(s, h)) = Counted(s) + (IF h.tag # "+" THEN 1 ELSE 0)
<1> DEFINE n == Len(s)
           t == Append(s, h)
           outs == [i \in DOMAIN s |-> Output(s[i])]
           outt == [i \in DOMAIN t |-> Output(t[i])]
<1>1. /\ t \in Seq(HunkLine) /\ n \in Nat /\ Len(t) = n + 1
      /\ DOMAIN s = 1 .. n /\ DOMAIN t = 1 .. (n + 1)
      /\ t[n + 1] = h /\ \A i \in 1 .. n : t[i] = s[i] /\ s[i] \in HunkLine
  OBVIOUS
<1> HIDE DEF t, n
<1>2. \A g \in HunkLine : Output(g) \in Seq(OutLine)
  <2> SUFFICES ASSUME NEW g \in HunkLine PROVE Output(g) \in Seq(OutLine)
    OBVIOUS
  <2>1. Kept(g) \in OutLine  BY DEF OutLine
  <2> QED  BY <2>1 DEF Output
<1>3. outs \in Seq(Seq(OutLine)) /\ Len(outs) = n
  <2>1. \A i \in 1 .. n : Output(s[i]) \in Seq(OutLine)  BY <1>1, <1>2
  <2>2. outs \in [1 .. n -> Seq(OutLine)]  BY <2>1, <1>1
  <2> QED  BY <2>2, <1>1
<1>4. outt = Append(outs, Output(h))
  <2>1. \A i \in 1 .. (n + 1) : Output(t[i]) \in Seq(OutLine)
    <3> SUFFICES ASSUME NEW i \in 1 .. (n + 1) PROVE Output(t[i]) \in Seq(OutLine)
      OBVIOUS
    <3>1. CASE i = n + 1  BY <3>1, <1>1, <1>2
    <3>2. CASE i \in 1 .. n  BY <3>2, <1>1, <1>2
    <3> QED  BY <3>1, <3>2, <1>1
  <2>2. outt \in [1 .. (n + 1) -> Seq(OutLine)]  BY <2>1, <1>1
  <2>3. outt \in Seq(Seq(OutLine)) /\ Len(outt) = n + 1  BY <2>2, <1>1
  <2>4. /\ Append(outs, Output(h)) \in Seq(Seq(OutLine)) /\ Len(Append(outs, Output(h))) = n + 1
        /\ \A i \in 1 .. n : Append(outs, Output(h))[i] = outs[i]
        /\ Append(outs, Output(h))[n + 1] = Output(h)
    BY <1>2, <1>3, AppendProperties
  <2>5. \A i \in 1 .. n : outs[i] = Output(s[i])  BY <1>1
  <2>6. \A i \in 1 .. (n + 1) : outt[i] = Output(t[i])  BY <1>1
  <2> HIDE DEF outs, outt
  <2>7. ASSUME NEW i \in 1 .. (n + 1) PROVE outt[i] = Append(outs, Output(h))[i]
    <3>1. CASE i = n + 1  BY <3>1, <2>4, <2>6, <1>1
    <3>2. CASE i \in 1 .. n  BY <3>2, <2>4, <2>5, <2>6, <1>1
    <3>3. i = n + 1 \/ i \in 1 .. n  BY <1>1
    <3> QED  BY ONLY <3>1, <3>2, <3>3
  <2>8. outt \in Seq(Seq(OutLine)) /\ Append(outs, Output(h)) \in Seq(Seq(OutLine))
        /\ Len(outt) = Len(Append(outs, Output(h)))
        /\ \A i \in 1 .. Len(outt) : outt[i] = Append(outs, Output(h))[i]
    BY <2>3, <2>4, <2>7
  <2> QED  BY ONLY <2>8, SeqEqual
<1>5. Outputs(s) = FlattenSeq(outs) /\ Outputs(t) = FlattenSeq(outt)  BY DEF Outputs
<1> HIDE DEF outs, outt
<1>6. Outputs(t) = Outputs(s) \o Output(h) /\ Outputs(t) \in Seq(OutLine)
  BY <1>2, <1>3, <1>4, <1>5, FlattenAppend
<1>7. Counted(t) = Counted(s) + (IF h.tag # "+" THEN 1 ELSE 0)
  <2>1. IsFiniteSet(OldLines(s)) /\ Counted(s) \in Nat  BY OldLinesFinite
  <2>2. CASE h.tag # "+"
    <3>1. OldLines(t) = OldLines(s) \cup {n + 1} /\ n + 1 \notin OldLines(s)
      BY <2>2, <1>1 DEF OldLines
    <3>2. Cardinality(OldLines(s) \cup {n + 1}) = Cardinality(OldLines(s)) + 1
      BY <3>1, <2>1, FS_AddElement
    <3> QED  BY <2>2, <3>1, <3>2 DEF Counted
  <2>3. CASE h.tag = "+"
    <3>1. OldLines(t) = OldLines(s)  BY <2>3, <1>1 DEF OldLines
    <3> QED  BY <2>1, <2>3, <3>1 DEF Counted
  <2> QED  BY <2>2, <2>3
<1> QED  BY <1>1, <1>6, <1>7 DEF t

\* The hunk lines of the first n rows of the two texts.
Rows(old, new, n) == FlattenSeq([i \in 1 .. n |-> DiffAt(old, new, i)])

LEMMA DiffAtIsHunk ==
    ASSUME NEW old \in Seq(Line), NEW new \in Seq(Line), NEW i \in Nat \ {0}
    PROVE  DiffAt(old, new, i) \in Seq(HunkLine)
<1>1. i <= Len(old) => old[i] \in Line  OBVIOUS
<1>2. i <= Len(new) => new[i] \in Line  OBVIOUS
<1>3. \A l \in Line : \A t \in {"none", "-", "+"} : [tag |-> t, line |-> l] \in HunkLine
  BY DEF HunkLine
<1>4. \A h \in HunkLine : <<h>> \in Seq(HunkLine)  OBVIOUS
<1>5. <<>> \in Seq(HunkLine)  OBVIOUS
<1>6. \A s, t \in Seq(HunkLine) : s \o t \in Seq(HunkLine)  BY ConcatProperties
<1> DEFINE o == IF i <= Len(old) THEN <<[tag |-> "-", line |-> old[i]]>> ELSE <<>>
           p == IF i <= Len(new) THEN <<[tag |-> "+", line |-> new[i]]>> ELSE <<>>
<1>7. o \in Seq(HunkLine) /\ p \in Seq(HunkLine)  BY <1>1, <1>2, <1>3, <1>4, <1>5
<1>8. DiffAt(old, new, i) \in {<<[tag |-> "none", line |-> old[i]]>>, o \o p}
      /\ (i <= Len(old) \/ DiffAt(old, new, i) = o \o p)
  BY DEF DiffAt
<1> HIDE DEF o, p
<1> QED  BY <1>1, <1>3, <1>4, <1>6, <1>7, <1>8

LEMMA OneMoreRow ==
    ASSUME NEW old \in Seq(Line), NEW new \in Seq(Line), NEW n \in Nat,
           Rows(old, new, n) \in Seq(HunkLine)
    PROVE  Rows(old, new, n + 1) = Rows(old, new, n) \o DiffAt(old, new, n + 1)
<1> DEFINE S == Seq(HunkLine)
           rows == [i \in 1 .. n |-> DiffAt(old, new, i)]
           more == [i \in 1 .. (n + 1) |-> DiffAt(old, new, i)]
           row == DiffAt(old, new, n + 1)
<1>1. \A i \in 1 .. (n + 1) : DiffAt(old, new, i) \in S  BY DiffAtIsHunk
<1>2. /\ rows \in [1 .. n -> S] /\ more \in [1 .. (n + 1) -> S] /\ row \in S
      /\ \A i \in 1 .. n : rows[i] = more[i]
      /\ more[n + 1] = row
  BY <1>1
<1>3. Rows(old, new, n) = FlattenSeq(rows) /\ Rows(old, new, n + 1) = FlattenSeq(more)
  BY DEF Rows
<1> HIDE DEF rows, more, row, S
<1>4. rows \in Seq(S) /\ Len(rows) = n /\ more \in Seq(S) /\ Len(more) = n + 1
  BY <1>2
<1>5. /\ Append(rows, row) \in Seq(S) /\ Len(Append(rows, row)) = n + 1
      /\ \A i \in 1 .. n : Append(rows, row)[i] = rows[i]
      /\ Append(rows, row)[n + 1] = row
  BY <1>2, <1>4, AppendProperties
<1>6. ASSUME NEW i \in 1 .. (n + 1) PROVE more[i] = Append(rows, row)[i]
  <2>1. CASE i = n + 1  BY <2>1, <1>2, <1>5
  <2>2. CASE i \in 1 .. n  BY <2>2, <1>2, <1>5
  <2>3. i = n + 1 \/ i \in 1 .. n  OBVIOUS
  <2> QED  BY ONLY <2>1, <2>2, <2>3
<1>7. more = Append(rows, row)  BY <1>4, <1>5, <1>6, SeqEqual
<1>8. rows \in Seq(Seq(HunkLine)) /\ row \in Seq(HunkLine)  BY <1>2, <1>4 DEF S
<1>9. FlattenSeq(rows) \in Seq(HunkLine)  BY <1>3
<1>10. FlattenSeq(Append(rows, row)) = FlattenSeq(rows) \o row
  BY ONLY <1>8, <1>9, FlattenAppend
<1> QED  BY <1>3, <1>7, <1>10 DEF row

\* No line unchanged at its place begins with a tag character.
Unmarked(old, new) ==
    \A i \in DOMAIN old \cap DOMAIN new : old[i] = new[i] => old[i].sign = "none"

Least2(m, n) == IF m <= n THEN m ELSE n

\* What the hunk lines of the first n rows stand for.
RowsMean(old, new, n) ==
    /\ Rows(old, new, n) \in Seq(HunkLine)
    /\ Outputs(Rows(old, new, n)) \in Seq(OutLine)
    /\ Counted(Rows(old, new, n)) = Least2(n, Len(old))
    /\ n # 0 => Rows(old, new, n) # <<>>
    /\ Unmarked(old, new) =>
          Outputs(Rows(old, new, n)) = SubSeq(new, 1, Least2(n, Len(new)))

LEMMA Tagged ==
    ASSUME NEW l \in Line
    PROVE  /\ \A t \in {"none", "-", "+"} : [tag |-> t, line |-> l] \in HunkLine
           /\ l.sign = "none" => Output([tag |-> "none", line |-> l]) = <<l>>
           /\ Output([tag |-> "-", line |-> l]) = <<>>
           /\ Output([tag |-> "+", line |-> l]) = <<l>>
<1>1. \A t \in {"none", "-", "+"} : [tag |-> t, line |-> l] \in HunkLine  BY DEF HunkLine
<1>2. l.sign = "none" => Output([tag |-> "none", line |-> l]) = <<l>>
  BY DEF Output, First, Kept
<1>3. Output([tag |-> "-", line |-> l]) = <<>>  BY DEF Output, First
<1>4. Output([tag |-> "+", line |-> l]) = <<l>>  BY DEF Output, First, Kept
<1> QED  BY <1>1, <1>2, <1>3, <1>4

\* The first n + 1 lines of a text that has so many.
LEMMA OneMoreLine ==
    ASSUME NEW new \in Seq(Line), NEW n \in Nat, n + 1 <= Len(new)
    PROVE  /\ SubSeq(new, 1, Least2(n + 1, Len(new)))
                = SubSeq(new, 1, Least2(n, Len(new))) \o <<new[n + 1]>>
           /\ new[n + 1] \in Line
<1>1. Least2(n + 1, Len(new)) = n + 1 /\ Least2(n, Len(new)) = n  BY DEF Least2
<1>2. 1 \in 1 .. Len(new) /\ n + 1 \in 1 .. Len(new) /\ (n + 1) - 1 = n  OBVIOUS
<1>3. SubSeq(new, 1, n + 1) = SubSeq(new, 1, (n + 1) - 1) \o <<new[n + 1]>>
  BY <1>2, SubSeqRecursiveSecond
<1>4. new[n + 1] \in Line  BY <1>2
<1> QED  BY <1>1, <1>2, <1>3, <1>4

LEMMA Least2Grows ==
    \A n, k \in Nat : /\ Least2(n, k) \in Nat
                      /\ Least2(n + 1, k) = Least2(n, k) + (IF n + 1 <= k THEN 1 ELSE 0)
  BY DEF Least2

LEMMA AppendNotEmpty ==
    ASSUME NEW H, NEW r \in Seq(H), NEW h \in H
    PROVE  Append(r, h) # <<>>
<1>1. Len(Append(r, h)) = Len(r) + 1 /\ Len(r) \in Nat  BY AppendProperties
<1>2. Len(<<>>) = 0  OBVIOUS
<1> QED  BY <1>1, <1>2

LEMMA HunksAssociate ==
    \A r, o, q \in Seq(HunkLine) : (r \o o) \o q = r \o (o \o q)
<1> SUFFICES ASSUME NEW r \in Seq(HunkLine), NEW o \in Seq(HunkLine), NEW q \in Seq(HunkLine)
             PROVE  (r \o o) \o q = r \o (o \o q)
  OBVIOUS
<1> DEFINE H == HunkLine
<1>1. r \in Seq(H) /\ o \in Seq(H) /\ q \in Seq(H)  OBVIOUS
<1> HIDE DEF H
<1> QED  BY ONLY <1>1, ConcatAssociative

LEMMA RowMeans ==
    ASSUME NEW old \in Seq(Line), NEW new \in Seq(Line),
           NEW n \in Nat, n < Len(old) \/ n < Len(new), RowsMean(old, new, n)
    PROVE  RowsMean(old, new, n + 1)
<1> DEFINE i == n + 1
           r == Rows(old, new, n)
           out == Outputs(r)
<1>1. /\ r \in Seq(HunkLine) /\ out \in Seq(OutLine)
      /\ Unmarked(old, new) => out = SubSeq(new, 1, Least2(n, Len(new)))
      /\ Counted(r) = Least2(n, Len(old))
      /\ Len(old) \in Nat /\ Len(new) \in Nat /\ i \in Nat
  BY DEF RowsMean
<1>2. Rows(old, new, i) = r \o DiffAt(old, new, i)  BY <1>1, OneMoreRow
<1>3. out \in Seq(OutLine) /\ i # 0 /\ (i <= Len(old) \/ i <= Len(new))  BY <1>1
<1> HIDE DEF r, out
<1>4. out = Outputs(r)  BY DEF out
<1>5. i <= Len(old) => old[i] \in Line  BY <1>1
<1>6. i <= Len(new) =>
          /\ new[i] \in Line
          /\ Unmarked(old, new) => SubSeq(new, 1, Least2(i, Len(new))) = out \o <<new[i]>>
  BY <1>1, OneMoreLine
<1>7. ~ (i <= Len(new)) =>
          (Unmarked(old, new) => SubSeq(new, 1, Least2(i, Len(new))) = out)
  <2>1. ~ (i <= Len(new)) => Least2(i, Len(new)) = Least2(n, Len(new))  BY <1>1 DEF Least2
  <2> QED  BY <2>1, <1>1
<1>8. Least2(i, Len(old)) = Counted(r) + (IF i <= Len(old) THEN 1 ELSE 0)
  BY <1>1, Least2Grows
<1>9. CASE i <= Len(old) /\ i <= Len(new) /\ old[i] = new[i]
  <2> DEFINE h == [tag |-> "none", line |-> old[i]]
  <2>1. i \in DOMAIN old \cap DOMAIN new  BY <1>1, <1>9
  <2>2. Unmarked(old, new) => old[i].sign = "none"  BY <2>1, <1>9 DEF Unmarked
  <2>3. h \in HunkLine /\ h.tag # "+" /\ (Unmarked(old, new) => Output(h) = <<new[i]>>)
    BY <2>2, <1>5, <1>9, Tagged
  <2>4. DiffAt(old, new, i) = <<h>>  BY <1>9 DEF DiffAt
  <2> HIDE DEF h, i
  <2>5. Rows(old, new, i) = Append(r, h)  BY <2>3, <2>4, <1>1, <1>2, AppendIsConcat
  <2>6. /\ Append(r, h) \in Seq(HunkLine) /\ Outputs(Append(r, h)) = out \o Output(h)
        /\ Outputs(Append(r, h)) \in Seq(OutLine)
        /\ Counted(Append(r, h)) = Counted(r) + (IF h.tag # "+" THEN 1 ELSE 0)
    BY <2>3, <1>1, <1>3, <1>4, OneMoreHunkLine
  <2>8. Append(r, h) # <<>>  BY <2>3, <1>1, AppendNotEmpty
  <2>7. RowsMean(old, new, i)
    BY <2>3, <2>5, <2>6, <2>8, <1>6, <1>8, <1>9 DEF RowsMean
  <2> QED  BY <2>7 DEF i
<1>10. CASE ~ (i <= Len(old) /\ i <= Len(new) /\ old[i] = new[i])
  <2> DEFINE m == [tag |-> "-", line |-> old[i]]
             p == [tag |-> "+", line |-> new[i]]
             o == IF i <= Len(old) THEN <<m>> ELSE <<>>
             q == IF i <= Len(new) THEN <<p>> ELSE <<>>
             s == r \o o
  <2>1. i <= Len(old) => m \in HunkLine /\ Output(m) = <<>> /\ m.tag # "+"  BY <1>5, Tagged
  <2>2. i <= Len(new) => p \in HunkLine /\ Output(p) = <<new[i]>> /\ p.tag = "+"  BY <1>6, Tagged
  <2>3. DiffAt(old, new, i) = o \o q  BY <1>10 DEF DiffAt
  <2>9. Rows(old, new, i) = r \o (o \o q)  BY ONLY <2>3, <1>2
  <2> HIDE DEF m, p, i
  <2>4. o \in Seq(HunkLine) /\ q \in Seq(HunkLine)  BY <2>1, <2>2
  <2>5. Rows(old, new, i) = s \o q
    <3> HIDE DEF o, q
    <3>0. r \in Seq(HunkLine) /\ o \in Seq(HunkLine) /\ q \in Seq(HunkLine)  BY <2>4, <1>1
    <3>1. (r \o o) \o q = r \o (o \o q)  BY ONLY <3>0, HunksAssociate
    <3> QED  BY ONLY <3>1, <2>9
  <2>6. /\ s \in Seq(HunkLine) /\ Outputs(s) = out
        /\ Counted(s) = Least2(i, Len(old))
        /\ i <= Len(old) => s # <<>>
    <3>1. CASE i <= Len(old)
      <4>1. s = Append(r, m)  BY <3>1, <2>1, <1>1, AppendIsConcat
      <4>2. /\ Append(r, m) \in Seq(HunkLine) /\ Outputs(Append(r, m)) = out \o Output(m)
            /\ Counted(Append(r, m)) = Counted(r) + (IF m.tag # "+" THEN 1 ELSE 0)
        BY <2>1, <3>1, <1>1, <1>3, <1>4, OneMoreHunkLine
      <4>3. out \o <<>> = out  BY <1>3, ConcatEmptySeq
      <4>4. Append(r, m) # <<>>  BY <2>1, <3>1, <1>1, AppendNotEmpty
      <4> HIDE DEF s
      <4> QED  BY <4>1, <4>2, <4>3, <4>4, <2>1, <3>1, <1>8
    <3>2. CASE ~ (i <= Len(old))
      <4>1. s = r  BY <3>2, <1>1, ConcatEmptySeq
      <4>2. Counted(r) \in Nat  BY <1>1, OldLinesFinite
      <4> HIDE DEF s
      <4> QED  BY <4>1, <4>2, <3>2, <1>1, <1>4, <1>8
    <3> QED  BY <3>1, <3>2
  <2> HIDE DEF s
  <2>7. CASE i <= Len(new)
    <3>1. s \o q = Append(s, p)  BY <2>2, <2>6, <2>7, AppendIsConcat
    <3>2. /\ Append(s, p) \in Seq(HunkLine) /\ Outputs(Append(s, p)) = out \o Output(p)
          /\ Outputs(Append(s, p)) \in Seq(OutLine)
          /\ Counted(Append(s, p)) = Counted(s) + (IF p.tag # "+" THEN 1 ELSE 0)
      BY <2>2, <2>6, <2>7, <1>3, OneMoreHunkLine
    <3>3. Counted(s) \in Nat  BY <2>6, OldLinesFinite
    <3>4. Counted(Append(s, p)) = Counted(s)  BY <3>2, <3>3, <2>2, <2>7
    <3>6. Append(s, p) # <<>>  BY <2>2, <2>6, <2>7, AppendNotEmpty
    <3>5. RowsMean(old, new, i)
      BY <3>1, <3>2, <3>4, <3>6, <2>2, <2>5, <2>6, <2>7, <1>6 DEF RowsMean
    <3> QED  BY <3>5 DEF i
  <2>8. CASE ~ (i <= Len(new))
    <3>1. s \o q = s  BY <2>8, <2>6, ConcatEmptySeq
    <3>2. RowsMean(old, new, i)
      BY <3>1, <2>5, <2>6, <2>8, <1>3, <1>7 DEF RowsMean
    <3> QED  BY <3>2 DEF i
  <2> QED  BY <2>7, <2>8
<1> QED  BY <1>9, <1>10

\* The whole diff, by the least row from which it would go wrong.
LEMMA AllRowsMean ==
    ASSUME NEW old \in Seq(Line), NEW new \in Seq(Line),
           NEW n \in Nat, n <= Len(old) \/ n <= Len(new)
    PROVE  RowsMean(old, new, n)
<1> DEFINE Bad == {k \in Nat : (k <= Len(old) \/ k <= Len(new)) /\ ~ RowsMean(old, new, k)}
<1>1. SUFFICES ASSUME Bad # {} PROVE FALSE
  OBVIOUS
<1>2. PICK b \in Bad : \A j \in Bad : b <= j
  <2>1. Bad \subseteq Nat  OBVIOUS
  <2> QED  BY <1>1, <2>1, LeastOf
<1>3. b \in Nat /\ (b <= Len(old) \/ b <= Len(new)) /\ ~ RowsMean(old, new, b)  BY <1>2
<1>0. Len(old) \in Nat /\ Len(new) \in Nat  OBVIOUS
<1>4. CASE b = 0
  <2>1. [i \in 1 .. b |-> DiffAt(old, new, i)] = <<>>
    <3>1. 1 .. b = {}  BY <1>4
    <3>2. [i \in 1 .. b |-> DiffAt(old, new, i)] \in [1 .. b -> {}]  BY <3>1
    <3> QED  BY <3>2, <1>4
  <2>2. Rows(old, new, b) = <<>>  BY <2>1, FlattenEmpty DEF Rows
  <2>3. Outputs(<<>>) = <<>>
    <3>1. [i \in DOMAIN <<>> |-> Output(<<>>[i])] = <<>>  OBVIOUS
    <3> QED  BY <3>1, FlattenEmpty DEF Outputs
  <2>4. Counted(<<>>) = 0
    <3>1. OldLines(<<>>) = {}  BY DEF OldLines
    <3> QED  BY <3>1, FS_EmptySet DEF Counted
  <2>5. Least2(b, Len(new)) = 0 /\ Least2(b, Len(old)) = 0  BY <1>0, <1>4 DEF Least2
  <2>6. SubSeq(new, 1, 0) = <<>>  BY SubSeqEmpty
  <2>7. <<>> \in Seq(HunkLine)  OBVIOUS
  <2>9. <<>> \in Seq(OutLine)  OBVIOUS
  <2>8. RowsMean(old, new, b)
    BY <2>2, <2>3, <2>4, <2>5, <2>6, <2>7, <2>9, <1>4 DEF RowsMean
  <2> QED  BY <2>8, <1>3
<1>5. CASE b # 0
  <2>1. /\ b - 1 \in Nat /\ ~ (b <= b - 1) /\ (b - 1) + 1 = b
        /\ b - 1 < Len(old) \/ b - 1 < Len(new)
        /\ b - 1 <= Len(old) \/ b - 1 <= Len(new)
    BY <1>0, <1>3, <1>5
  <2>2. RowsMean(old, new, b - 1)  BY <2>1, <1>2
  <2>3. RowsMean(old, new, (b - 1) + 1)  BY <2>1, <2>2, RowMeans
  <2> QED  BY <2>1, <2>3, <1>3
<1> QED  BY <1>4, <1>5

\* The diff of two texts, read as a hunk, stands for all lines of the old one,
\* has no line only when both texts have none and, when no context line looks
\* like a tag, gives the new one.
LEMMA DiffRoundTrips ==
    ASSUME NEW old \in Seq(Line), NEW new \in Seq(Line)
    PROVE  /\ NewLines(parse_hunks(compute_diff(old, new))) \in Seq(OutLine)
           /\ parse_hunks(compute_diff(old, new)).old_count = Len(old)
           /\ parse_hunks(compute_diff(old, new)).lines = <<>> => old = <<>> /\ new = <<>>
           /\ Unmarked(old, new) => NewLines(parse_hunks(compute_diff(old, new))) = new
<1> DEFINE m == Max({Len(old), Len(new)})
           diff == compute_diff(old, new)
<1>0. Len(old) \in Nat /\ Len(new) \in Nat  OBVIOUS
<1>1. m \in {Len(old), Len(new)} /\ m >= Len(old) /\ m >= Len(new)
  <2>1. \E x \in {Len(old), Len(new)} : \A y \in {Len(old), Len(new)} : x >= y
    BY <1>0
  <2> QED  BY <2>1 DEF Max
<1>2. diff = Rows(old, new, m)  BY DEF compute_diff, Rows
<1> HIDE DEF m
<1>3. m \in Nat /\ (m <= Len(old) \/ m <= Len(new))  BY <1>0, <1>1
<1>4. RowsMean(old, new, m)  BY <1>3, AllRowsMean
<1>5. Least2(m, Len(new)) = Len(new) /\ Least2(m, Len(old)) = Len(old)
  BY <1>0, <1>1, <1>3 DEF Least2
<1>6. SubSeq(new, 1, Len(new)) = new  BY SubSeqFull
<1>7. /\ Outputs(diff) \in Seq(OutLine) /\ Counted(diff) = Len(old)
      /\ m # 0 => diff # <<>>
      /\ Unmarked(old, new) => Outputs(diff) = new
  BY <1>2, <1>4, <1>5, <1>6 DEF RowsMean
<1>10. diff = <<>> => old = <<>> /\ new = <<>>  BY <1>7, <1>0, <1>1, <1>3
<1> HIDE DEF diff
<1>8. NewLines(parse_hunks(diff)) = Outputs(diff) /\ parse_hunks(diff).lines = diff
  BY DEF NewLines, parse_hunks, Outputs
<1>9. parse_hunks(diff).old_count = Len(old)
  BY <1>7 DEF parse_hunks, Counted, OldLines
<1> QED  BY <1>7, <1>8, <1>9, <1>10 DEF diff

\* Applied to the text it was made from, the hunk rebuilds the new lines.
LEMMA RebuiltIsNew ==
    ASSUME NEW old \in Seq(Line), NEW new \in Seq(Line), Unmarked(old, new)
    PROVE  Rebuilt(old, parse_hunks(compute_diff(old, new))) = new
<1> DEFINE hunk == parse_hunks(compute_diff(old, new))
<1>1. NewLines(hunk) = new /\ hunk.old_count = Len(old)  BY DiffRoundTrips
<1>2. Len(old) \in Nat  OBVIOUS
<1>3. CASE hunk.lines = <<>>
  <2>1. new = <<>> /\ old = <<>>  BY <1>3, DiffRoundTrips
  <2> HIDE DEF hunk
  <2>4. Rebuilt(old, hunk) = new  BY <2>1, <1>3 DEF Rebuilt
  <2> QED  BY <2>4 DEF hunk
<1>4. CASE hunk.lines # <<>>
  <2>1. Min({Len(old), Len(old)}) = Len(old)
    <3>1. {Len(old), Len(old)} = {Len(old)} /\ Len(old) <= Len(old)  BY <1>2
    <3> QED  BY <3>1 DEF Min
  <2>2. SubSeq(old, Len(old) + 1, Len(old)) = <<>>
    <3>1. Len(old) + 1 \in Int /\ Len(old) \in Int /\ Len(old) < Len(old) + 1  BY <1>2
    <3> QED  BY ONLY <3>1, SubSeqEmpty
  <2>3. new \o <<>> = new  BY ConcatEmptySeq
  <2> HIDE DEF hunk
  <2>4. Rebuilt(old, hunk) = new  BY <2>1, <2>2, <2>3, <1>1, <1>4 DEF Rebuilt
  <2> QED  BY <2>4 DEF hunk
<1> QED  BY <1>3, <1>4

\* The last line that a strip of trailing newlines keeps.
KeptLines(lines, cr) == {0} \cup {i \in DOMAIN lines : ~ Blank(lines[i]) \/ i \in cr}

LEMMA StripIs ==
    ASSUME NEW S, NEW lines \in Seq(S), NEW cr
    PROVE  /\ Max(KeptLines(lines, cr)) \in Nat
           /\ Max(KeptLines(lines, cr)) <= Len(lines)
           /\ \A i \in KeptLines(lines, cr) : i <= Max(KeptLines(lines, cr))
           /\ StripTrailing(lines, cr) = SubSeq(lines, 1, Max(KeptLines(lines, cr)))
<1> DEFINE T == KeptLines(lines, cr)
           n == Len(lines)
           Top == {k \in Nat : \A i \in T : i <= k}
<1>1. n \in Nat /\ \A i \in T : i \in Nat /\ i <= n  BY DEF KeptLines
<1>2. 0 \in T  BY DEF KeptLines
<1>3. StripTrailing(lines, cr) = SubSeq(lines, 1, Max(T))  BY DEF StripTrailing, KeptLines
<1> HIDE DEF T, n
<1>4. PICK k \in Top : \A j \in Top : k <= j
  <2>1. Top \subseteq Nat /\ n \in Top  BY <1>1
  <2> QED  BY <2>1, LeastOf
<1>5. k \in Nat /\ \A i \in T : i <= k  OBVIOUS
<1>6. k \in T
  <2>1. CASE k = 0  BY <2>1, <1>2
  <2>2. CASE k # 0
    <3>1. k - 1 \in Nat /\ ~ (k <= k - 1)  BY <1>5, <2>2
    <3>2. k - 1 \notin Top  BY <3>1, <1>4
    <3>3. PICK i \in T : ~ (i <= k - 1)  BY <3>1, <3>2
    <3>4. i = k  BY <3>3, <1>1, <1>5
    <3> QED  BY <3>4
  <2> QED  BY <2>1, <2>2
<1>7. \E x \in T : \A y \in T : x >= y  BY <1>1, <1>5, <1>6
<1>8. Max(T) \in T /\ \A y \in T : Max(T) >= y  BY <1>7 DEF Max
<1>9. Max(T) \in Nat /\ Max(T) <= n /\ \A i \in T : i <= Max(T)  BY <1>1, <1>8
<1> QED  BY <1>3, <1>9 DEF T, n

\* A text without a final newline does not end in a blank line.
LEMMA StripKeeps ==
    ASSUME NEW new \in Seq(Line), new # <<>> => ~ Blank(Last(new)), NEW cr
    PROVE  StripTrailing(new, cr) = new
<1> DEFINE T == KeptLines(new, cr)
           n == Len(new)
<1>1. n \in Nat /\ DOMAIN new = 1 .. n  OBVIOUS
<1>2. n \in T
  <2>1. CASE n = 0  BY <2>1 DEF KeptLines
  <2>2. CASE n # 0
    <3>1. Last(new) = new[n] /\ new # <<>>  BY <2>2, <1>1 DEF Last
    <3> QED  BY <3>1, <2>2, <1>1 DEF KeptLines
  <2> QED  BY <2>1, <2>2
<1>3. Max(T) = n  BY <1>1, <1>2, StripIs
<1>4. StripTrailing(new, cr) = SubSeq(new, 1, n)  BY <1>3, StripIs
<1> QED  BY <1>4, SubSeqFull

\* What a text is.
LEMMA TextFacts ==
    ASSUME NEW t \in Text
    PROVE  /\ t.lines \in Seq(Line) /\ t.nl \in BOOLEAN
           /\ t.lines = <<>> => ~ t.nl /\ t.cr = {}
           /\ t.lines # <<>> /\ Blank(Last(t.lines)) => t.nl
           /\ t = [lines |-> t.lines, nl |-> t.nl, cr |-> t.cr]
<1>1. /\ t \in [lines : UNION {[1..n -> Line] : n \in 0..MaxLines}, nl : BOOLEAN,
                 cr : SUBSET (1..MaxLines)]
      /\ t.lines = <<>> => ~ t.nl
      /\ t.lines # <<>> /\ Blank(Last(t.lines)) => t.nl
      /\ t.cr \subseteq DOMAIN t.lines
  BY DEF Text
<1>2. PICK n \in 0 .. MaxLines : t.lines \in [1 .. n -> Line]  BY <1>1
<1>3. t.lines \in Seq(Line)  BY <1>2, PatchAssumption
<1>4. t.nl \in BOOLEAN /\ t = [lines |-> t.lines, nl |-> t.nl, cr |-> t.cr]  BY <1>1
<1>5. t.lines = <<>> => t.cr = {}  BY <1>1
<1> QED  BY <1>1, <1>3, <1>4, <1>5

LEMMA ReconstructIsTarget ==
    ASSUME NEW base \in Text, NEW target \in Text, Unmarked(base.lines, target.lines),
           target.cr = {}
    PROVE  reconstruct_from_patch(base, parse_hunks(compute_diff(base.lines, target.lines)), target)
             = target
<1> DEFINE hunk == parse_hunks(compute_diff(base.lines, target.lines))
<1>1. base.lines \in Seq(Line) /\ target.lines \in Seq(Line)  BY TextFacts
<1>2. Rebuilt(base.lines, hunk) = target.lines  BY <1>1, RebuiltIsNew
<1>3. CarriageReturns(base, hunk) = {}
  <2>1. hunk.lines = <<>> => base.lines = <<>>  BY <1>1, DiffRoundTrips
  <2>2. base.lines = <<>> => base.cr = {}  BY TextFacts
  <2> HIDE DEF hunk
  <2> QED  BY <2>1, <2>2 DEF CarriageReturns
<1> HIDE DEF hunk
<1>4. CASE target.nl
  <2>1. target.lines # <<>>  BY <1>4, TextFacts
  <2>2. target = [lines |-> target.lines, nl |-> TRUE, cr |-> {}]  BY <1>4, TextFacts
  <2>3. (target.lines # <<>>) = TRUE  BY <2>1
  <2>4. reconstruct_from_patch(base, hunk, target) = [lines |-> target.lines, nl |-> TRUE, cr |-> {}]
    BY <1>2, <1>3, <1>4, <2>3 DEF reconstruct_from_patch
  <2> QED  BY <2>2, <2>4 DEF hunk
<1>5. CASE ~ target.nl
  <2>1. target.lines # <<>> => ~ Blank(Last(target.lines))  BY <1>5, TextFacts
  <2>2. StripTrailing(target.lines, {}) = target.lines  BY <2>1, <1>1, StripKeeps
  <2>3. target = [lines |-> target.lines, nl |-> FALSE, cr |-> {}]  BY <1>5, TextFacts
  <2>4. reconstruct_from_patch(base, hunk, target) = [lines |-> target.lines, nl |-> FALSE, cr |-> {}]
    BY <1>2, <1>3, <1>5, <2>2 DEF reconstruct_from_patch
  <2> QED  BY <2>3, <2>4 DEF hunk
<1> QED  BY <1>4, <1>5

\* What a rebuild puts out has a carriage return only when the target is empty.
LEMMA WrittenIsPlain ==
    ASSUME NEW base, NEW old \in Seq(Line), NEW target \in Text,
           reconstruct_from_patch(base, parse_hunks(compute_diff(old, target.lines)), target)
             = target
    PROVE  target.cr = {}
<1> DEFINE hunk == parse_hunks(compute_diff(old, target.lines))
<1>1. hunk.lines = <<>> => target.lines = <<>>  BY TextFacts, DiffRoundTrips
<1>2. target.lines = <<>> => target.cr = {}  BY TextFacts
<1>3. target = reconstruct_from_patch(base, hunk, target)  OBVIOUS
<1> HIDE DEF hunk
<1>4. target.cr = CarriageReturns(base, hunk)
  <2>1. CASE target.nl  BY <1>3, <2>1 DEF reconstruct_from_patch
  <2>2. CASE ~ target.nl  BY <1>3, <2>2 DEF reconstruct_from_patch
  <2> QED  BY <2>1, <2>2
<1> QED  BY <1>1, <1>2, <1>4 DEF CarriageReturns

----------------------------------------------------------------------------
(* The patch and the file it is applied to *)

PatchInv ==
    /\ backup \in Text /\ full_new \in Text /\ file \in Text
    /\ result \in {"prepared", "written", "refused"}
    /\ ExactTarget

LEMMA PatchInitHolds == PatchInit => PatchInv
  BY DEF PatchInit, PatchInv, ExactTarget

LEMMA PatchStepHolds ==
    ASSUME PatchInv, [PatchNext]_patchVars PROVE PatchInv'
<1>1. CASE apply
  BY <1>1 DEF apply, PatchInv, ExactTarget
<1>2. ASSUME NEW t \in Text, OutsideEdit(t) PROVE PatchInv'
  BY <1>2 DEF OutsideEdit, PatchInv, ExactTarget
<1>3. CASE UNCHANGED patchVars
  BY <1>3 DEF patchVars, PatchInv, ExactTarget
<1> QED  BY <1>1, <1>2, <1>3 DEF PatchNext

LEMMA PatchInvariant == PatchSpec => []PatchInv
<1> QED  BY PatchInitHolds, PatchStepHolds, PTL DEF PatchSpec

\* Whatever the file has become by the time the patch is applied, and whatever
\* characters its lines begin with, a patch that reports success has left
\* exactly the declared target: the comparison in apply is what makes it so.
THEOREM PatchIsExact == PatchSpec => []ExactTarget
<1>1. PatchInv => ExactTarget  BY DEF PatchInv
<1> QED  BY <1>1, PatchInvariant, PTL

LEMMA RefusalStep ==
    ASSUME PatchInv, [PatchNext]_patchVars
    PROVE  [/\ result' = "refused" /\ file = backup => MarkedContext \/ full_new.cr # {}
            /\ result' = "written" => full_new.cr = {}]_patchVars
<1>1. SUFFICES ASSUME PatchNext
               PROVE  /\ result' = "refused" /\ file = backup
                            => MarkedContext \/ full_new.cr # {}
                      /\ result' = "written" => full_new.cr = {}
  OBVIOUS
<1>2. CASE apply
  <2> DEFINE built == reconstruct_from_patch(file, Patch, full_new)
  <2>1. backup \in Text /\ full_new \in Text  BY DEF PatchInv
  <2>2. result' = "written" => built = full_new  BY <1>2 DEF apply
  <2>3. result' = "refused" => built # full_new  BY <1>2 DEF apply
  <2>4. ASSUME built = full_new PROVE full_new.cr = {}
    <3>1. backup.lines \in Seq(Line)  BY <2>1, TextFacts
    <3> QED  BY <3>1, <2>1, <2>4, WrittenIsPlain DEF Patch
  <2>5. ASSUME file = backup, ~ MarkedContext, full_new.cr = {} PROVE built = full_new
    <3>1. Unmarked(backup.lines, full_new.lines)  BY <2>5 DEF MarkedContext, Unmarked
    <3> QED  BY <3>1, <2>1, <2>5, ReconstructIsTarget DEF Patch
  <2> HIDE DEF built
  <2> QED  BY <2>2, <2>3, <2>4, <2>5
<1>3. ASSUME NEW t \in Text, OutsideEdit(t)
      PROVE  result' # "refused" /\ result' # "written"
  BY <1>3 DEF OutsideEdit
<1> QED  BY <1>1, <1>2, <1>3 DEF PatchNext

\* A patch applied to the file it was made from goes through, for texts of any
\* number of lines, unless some line that is the same in both at its place
\* begins with a tag character or the target has a carriage return, and then it
\* never does: compute_diff, the hunk count, the reading of the tags and the
\* handling of the final newline undo each other, carriage returns are lost.
THEOREM PatchRoundTrips == PatchSpec => RoundTripsUnmarked
<1>1. PatchInv /\ [PatchNext]_patchVars
        => [/\ result' = "refused" /\ file = backup => MarkedContext \/ full_new.cr # {}
            /\ result' = "written" => full_new.cr = {}]_patchVars
  BY RefusalStep
<1> QED  BY <1>1, PatchInvariant, PTL DEF PatchSpec, RoundTripsUnmarked

\* A line of the file past the snapshot's last one is in what the patch leaves.
LEMMA TailSurvives ==
    ASSUME NEW base \in Text, NEW old \in Seq(Line), NEW target \in Text,
           reconstruct_from_patch(base, parse_hunks(compute_diff(old, target.lines)), target)
             = target,
           NEW i \in DOMAIN base.lines, i > Len(old), ~ Blank(base.lines[i])
    PROVE  \E j \in DOMAIN target.lines : target.lines[j] = base.lines[i]
<1> DEFINE hunk == parse_hunks(compute_diff(old, target.lines))
           bl == base.lines
           head == NewLines(hunk)
           tail == SubSeq(bl, Len(old) + 1, Len(bl))
           cr == CarriageReturns(base, hunk)
           re == Rebuilt(bl, hunk)
<1>1. /\ bl \in Seq(Line) /\ Len(bl) \in Nat /\ Len(old) \in Nat
      /\ i \in 1 .. Len(bl) /\ i > Len(old)
  BY TextFacts
<1>2. /\ head \in Seq(OutLine) /\ hunk.old_count = Len(old)
      /\ hunk.lines = <<>> => old = <<>> /\ target.lines = <<>>
  BY TextFacts, DiffRoundTrips
<1>3. target = reconstruct_from_patch(base, hunk, target)  OBVIOUS
<1> HIDE DEF hunk
<1>4. /\ target.nl => target.lines = re
      /\ ~ target.nl => target.lines = StripTrailing(re, cr)
  <2>1. CASE target.nl  BY <1>3, <2>1 DEF reconstruct_from_patch
  <2>2. CASE ~ target.nl  BY <1>3, <2>2 DEF reconstruct_from_patch
  <2> QED  BY <2>1, <2>2
\* The rebuild has the line somewhere.
<1>5. \E k \in DOMAIN re : re[k] = bl[i]
  <2>1. CASE hunk.lines = <<>>
    <3>1. re = bl  BY <2>1 DEF Rebuilt
    <3> QED  BY <3>1
  <2>2. CASE hunk.lines # <<>>
    <3>1. Min({Len(old), Len(bl)}) = Len(old)
      <4>1. Len(old) <= Len(bl)  BY <1>1
      <4>2. \E x \in {Len(old), Len(bl)} : \A y \in {Len(old), Len(bl)} : x <= y  BY <4>1, <1>1
      <4>3. /\ Min({Len(old), Len(bl)}) \in {Len(old), Len(bl)}
            /\ \A y \in {Len(old), Len(bl)} : Min({Len(old), Len(bl)}) <= y
        BY <4>2 DEF Min
      <4> QED  BY <4>1, <4>3, <1>1
    <3>2. re = head \o tail  BY <3>1, <2>2, <1>2 DEF Rebuilt
    <3>3. /\ tail \in Seq(Line) /\ Len(tail) = Len(bl) - Len(old)
          /\ i - Len(old) \in 1 .. Len(tail)
          /\ tail[i - Len(old)] = bl[i]
      <4>1. \A q \in (Len(old) + 1) .. Len(bl) : bl[q] \in Line  BY <1>1
      <4>2. Len(old) + 1 \in Int /\ Len(bl) \in Int  BY <1>1
      <4>3. /\ tail \in Seq(Line)
            /\ Len(tail) = (IF Len(old) + 1 <= Len(bl) THEN (Len(bl) - (Len(old) + 1)) + 1 ELSE 0)
            /\ \A q \in 1 .. ((Len(bl) - (Len(old) + 1)) + 1) :
                  tail[q] = bl[((Len(old) + 1) + q) - 1]
        BY <4>1, <4>2, SubSeqProperties
      <4>4. i - Len(old) \in 1 .. ((Len(bl) - (Len(old) + 1)) + 1)
            /\ ((Len(old) + 1) + (i - Len(old))) - 1 = i
            /\ Len(tail) = Len(bl) - Len(old)
        BY <4>3, <1>1
      <4>5. tail[i - Len(old)] = bl[i]  BY <4>3, <4>4
      <4>6. i - Len(old) \in 1 .. (Len(bl) - Len(old))  BY <1>1
      <4> HIDE DEF tail, bl
      <4>7. i - Len(old) \in 1 .. Len(tail)  BY <4>4, <4>6
      <4> QED  BY <4>3, <4>4, <4>5, <4>7
    <3> HIDE DEF head, tail, bl
    <3> DEFINE n == Len(head)
               d == i - Len(old)
    <3>4. /\ head \in Seq(OutLine) /\ tail \in Seq(Line) /\ n \in Nat /\ d \in 1 .. Len(tail)
          /\ Len(tail) \in Nat
      BY <3>3, <1>1, <1>2
    <3>5. /\ DOMAIN (head \o tail) = 1 .. (n + Len(tail))
          /\ (head \o tail)[n + d] = tail[d]
      BY <3>4
    <3>6. n + d \in 1 .. (n + Len(tail))  BY <3>4
    <3> QED  BY <3>2, <3>3, <3>5, <3>6
  <2> QED  BY <2>1, <2>2
<1>6. re \in Seq(OutLine)
  <2>1. \A q \in DOMAIN bl : bl[q] \in OutLine  BY <1>1 DEF OutLine
  <2>2. bl \in Seq(OutLine)  BY <2>1, <1>1
  <2>3. CASE hunk.lines = <<>>  BY <2>2, <2>3 DEF Rebuilt
  <2>4. CASE hunk.lines # <<>>
    <3> DEFINE a == Min({hunk.old_count, Len(bl)}) + 1
               rest == SubSeq(bl, a, Len(bl))
    <3>1. a \in Nat \ {0}
      <4>1. Len(old) <= Len(bl)  BY <1>1
      <4>2. \E x \in {Len(old), Len(bl)} : \A y \in {Len(old), Len(bl)} : x <= y  BY <4>1, <1>1
      <4>3. Min({Len(old), Len(bl)}) \in {Len(old), Len(bl)}  BY <4>2 DEF Min
      <4> QED  BY <4>3, <1>1, <1>2
    <3> HIDE DEF a
    <3>2. \A q \in a .. Len(bl) : bl[q] \in OutLine  BY <2>1, <3>1, <1>1
    <3>3. a \in Int /\ Len(bl) \in Int  BY <3>1, <1>1
    <3>4. rest \in Seq(OutLine)  BY ONLY <3>2, <3>3, SubSeqProperties
    <3> HIDE DEF rest
    <3>5. head \o rest \in Seq(OutLine)  BY ONLY <1>2, <3>4, ConcatProperties
    <3>6. re = head \o rest  BY <2>4 DEF Rebuilt, rest, a
    <3> QED  BY <3>5, <3>6
  <2> QED  BY <2>3, <2>4
<1>7. PICK k \in DOMAIN re : re[k] = bl[i]  BY <1>5
<1>8. CASE target.nl  BY <1>4, <1>7, <1>8
<1>9. CASE ~ target.nl
  <2> DEFINE top == Max(KeptLines(re, cr))
  <2>1. /\ top \in Nat /\ top <= Len(re)
        /\ \A q \in KeptLines(re, cr) : q <= top
        /\ StripTrailing(re, cr) = SubSeq(re, 1, top)
    BY <1>6, StripIs
  <2>2. k \in KeptLines(re, cr)  BY <1>7 DEF KeptLines
  <2> HIDE DEF top, re
  <2>3. Len(re) \in Nat /\ DOMAIN re = 1 .. Len(re)  BY <1>6
  <2>4. k \in 1 .. top  BY <2>1, <2>2, <2>3
  <2>5. \A q \in 1 .. top : re[q] \in OutLine  BY <1>6, <2>1, <2>3
  <2>6. 1 \in Int /\ top \in Int  BY <2>1
  <2>7. /\ SubSeq(re, 1, top) \in Seq(OutLine)
        /\ Len(SubSeq(re, 1, top)) = (IF 1 <= top THEN (top - 1) + 1 ELSE 0)
        /\ \A q \in 1 .. ((top - 1) + 1) : SubSeq(re, 1, top)[q] = re[(1 + q) - 1]
    BY ONLY <2>5, <2>6, SubSeqProperties
  <2>8. k \in 1 .. ((top - 1) + 1) /\ (1 + k) - 1 = k /\ Len(SubSeq(re, 1, top)) = top
    BY <2>1, <2>4, <2>7
  <2>9. SubSeq(re, 1, top)[k] = re[k]  BY <2>7, <2>8
  <2>10. k \in DOMAIN SubSeq(re, 1, top)  BY <2>4, <2>7, <2>8
  <2> QED  BY <2>1, <2>9, <2>10, <1>4, <1>7, <1>9
<1> QED  BY <1>8, <1>9

LEMMA AddedStep ==
    ASSUME PatchInv, [PatchNext]_patchVars
    PROVE  [result' = "written" =>
              \A i \in DOMAIN file.lines :
                  i > Len(backup.lines) /\ ~ Blank(file.lines[i]) =>
                      \E j \in DOMAIN file'.lines : file'.lines[j] = file.lines[i]]_patchVars
<1>1. SUFFICES ASSUME PatchNext, result' = "written",
                      NEW i \in DOMAIN file.lines,
                      i > Len(backup.lines), ~ Blank(file.lines[i])
               PROVE  \E j \in DOMAIN file'.lines : file'.lines[j] = file.lines[i]
  OBVIOUS
<1>2. CASE apply
  <2>1. /\ reconstruct_from_patch(file, Patch, full_new) = full_new
        /\ file' = full_new
    BY <1>1, <1>2 DEF apply
  <2>2. backup \in Text /\ full_new \in Text /\ file \in Text  BY DEF PatchInv
  <2>3. backup.lines \in Seq(Line)  BY <2>2, TextFacts
  <2>4. \E j \in DOMAIN full_new.lines : full_new.lines[j] = file.lines[i]
    BY <2>1, <2>2, <2>3, <1>1, TailSurvives DEF Patch
  <2> QED  BY <2>1, <2>4
<1>3. ASSUME NEW t \in Text, OutsideEdit(t) PROVE FALSE
  BY <1>1, <1>3 DEF OutsideEdit
<1> QED  BY <1>1, <1>2, <1>3 DEF PatchNext

\* The hunk replaces as many lines as the snapshot has, whatever they hold, and
\* nothing more: a line someone has added below meanwhile, unless it is blank,
\* is in the file that a successful patch leaves, for texts of any number of
\* lines and whatever their lines look like.
THEOREM AddedLinesSurvive == PatchSpec => AddedLinesKept
<1>1. PatchInv /\ [PatchNext]_patchVars
        => [result' = "written" =>
              \A i \in DOMAIN file.lines :
                  i > Len(backup.lines) /\ ~ Blank(file.lines[i]) =>
                      \E j \in DOMAIN file'.lines : file'.lines[j] = file.lines[i]]_patchVars
  BY AddedStep
<1> QED  BY <1>1, PatchInvariant, PTL DEF PatchSpec, AddedLinesKept

=============================================================================
