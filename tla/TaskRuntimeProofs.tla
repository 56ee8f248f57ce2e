------------------------- MODULE TaskRuntimeProofs -------------------------
(* Proofs about TaskRuntime, for every set of tasks, workers and keys, every *)
(* lease length and every bound.                                             *)
EXTENDS TaskRuntime, TLAPS, SequenceTheorems

\* A context of a call is well formed and names no session that is not there.
LEMMA CtxType ==
    ASSUME TypeOK, NEW t \in TaskIds, NEW c \in Ctx(t)
    PROVE  /\ c \in TaskMutationCtx
           /\ c.session = 0 \/ c.session \in DOMAIN sessions
           /\ c.now <= clock
  BY DEF Ctx, TaskMutationCtx, TypeOK

\* What record_event_in_tx does to the log and to the session counters.
LEMMA RecordType ==
    ASSUME TypeOK, NEW t \in TaskIds, NEW e \in TaskEvent,
           e.session = 0 \/ e.session \in DOMAIN sessions,
           record_event_in_tx(t, e)
    PROVE  /\ log' \in [TaskIds -> Seq(TaskEvent)]
           /\ sessions' \in Seq(SessionRecord)
  <1>1. log[t] \in Seq(TaskEvent)
    BY DEF TypeOK
  <1>2. Append(log[t], e) \in Seq(TaskEvent)
    BY <1>1, AppendProperties
  <1>3. log' \in [TaskIds -> Seq(TaskEvent)]
    BY <1>2 DEF TypeOK, record_event_in_tx
  <1>4. CASE e.session = 0
    BY <1>3, <1>4 DEF TypeOK, record_event_in_tx
  <1>5. CASE e.session # 0
    <2> DEFINE s == sessions[e.session]
    <2>1. e.session \in DOMAIN sessions /\ sessions \in Seq(SessionRecord)
      BY <1>5 DEF TypeOK
    <2>2. s \in SessionRecord
      BY <2>1, ElementOfSeq
    <2>3. [s EXCEPT !.count = @ + 1] \in SessionRecord
      BY <2>2 DEF SessionRecord
    <2>4. [sessions EXCEPT ![e.session] = [s EXCEPT !.count = @ + 1]] \in Seq(SessionRecord)
      BY <2>1, <2>3, ExceptSeq
    <2> QED
      BY <1>3, <1>5, <2>4 DEF record_event_in_tx
  <1> QED
    BY <1>4, <1>5

\* Rows stay rows under the edits the operations make.
LEMMA BumpType ==
    ASSUME NEW row \in TaskRecord
    PROVE  [row EXCEPT !.version = @ + 1] \in TaskRecord
  BY DEF TaskRecord

LEMMA StatusType ==
    ASSUME NEW row \in TaskRecord, NEW to \in TaskStatus
    PROVE  [row EXCEPT !.status = to] \in TaskRecord
  BY DEF TaskRecord

LEMMA LeaseFieldsType ==
    ASSUME NEW row \in TaskRecord, NEW n \in Nat, NEW w \in Workers \cup {NoWorker},
           NEW x \in Int
    PROVE  /\ [row EXCEPT !.lv = n, !.worker = w, !.expires = x] \in TaskRecord
           /\ [row EXCEPT !.worker = w, !.expires = x] \in TaskRecord
           /\ [row EXCEPT !.checkpoint = n, !.expires = x] \in TaskRecord
  BY ZenonT(40) DEF TaskRecord

LEMMA AcquireType ==
    ASSUME NEW row \in TaskRecord, NEW w \in Workers, NEW now \in Nat
    PROVE  acquire_lease(row, w, now) \in TaskRecord
  <1>1. (IF row.worker = w THEN row.lv ELSE row.lv + 1) \in Nat
    BY DEF TaskRecord
  <1>2. now + TTL \in Int
    BY ConstantsAssumption, SMTT(40)
  <1> QED
    BY <1>1, <1>2, LeaseFieldsType DEF acquire_lease

LEMMA ReleaseType ==
    ASSUME NEW row \in TaskRecord
    PROVE  release_lease(row) \in TaskRecord
  <1>1. NoTime \in Int
    BY DEF NoTime
  <1> QED
    BY <1>1, LeaseFieldsType DEF release_lease

LEMMA ExpiryType ==
    ASSUME NEW row \in TaskRecord, NEW now \in Nat
    PROVE  [row EXCEPT !.expires = now + TTL] \in TaskRecord
  BY ConstantsAssumption DEF TaskRecord

LEMMA ValidationType ==
    ASSUME NEW row \in TaskRecord, NEW v \in {"open", "passed", "failed"}
    PROVE  [row EXCEPT !.validation = v] \in TaskRecord
  BY DEF TaskRecord

LEMMA OutcomeType ==
    ASSUME NEW row \in TaskRecord, NEW result \in Terminal, NEW n \in Nat
    PROVE  /\ [row EXCEPT !.outcome = result] \in TaskRecord
           /\ [row EXCEPT !.outcome = result, !.evidence = n] \in TaskRecord
  BY DEF TaskRecord

LEMMA CreatedType ==
    ASSUME NEW row \in TaskRecord, NEW to \in TaskStatus, NEW key \in Keys \cup {NoKey}
    PROVE  [row EXCEPT !.status = to, !.key = key] \in TaskRecord
  BY DEF TaskRecord

LEMMA AbsentType == AbsentTask \in TaskRecord
  BY DEF AbsentTask, TaskRecord, NoTime

LEMMA CommitType ==
    ASSUME TypeOK, NEW t \in TaskIds, NEW c \in Ctx(t), NEW row \in TaskRecord,
           NEW kind \in EventKinds, tasks[t].status # "absent",
           Commit(c, t, row, kind), checkpoints' \in [TaskIds -> Seq(TaskCheckpoint)]
    PROVE  TypeOK'
  <1> DEFINE e == Event(kind, c, row, tasks[t].status)
  <1>1. c \in TaskMutationCtx /\ (c.session = 0 \/ c.session \in DOMAIN sessions)
    BY CtxType
  <1>2. e \in TaskEvent /\ e.session = c.session
    BY <1>1 DEF Event, TaskEvent, TaskMutationCtx, TypeOK, TaskRecord
  <1>3. record_event_in_tx(t, e)
    BY DEF Commit
  <1> HIDE DEF e
  <1>4. log' \in [TaskIds -> Seq(TaskEvent)] /\ sessions' \in Seq(SessionRecord)
    BY <1>1, <1>2, <1>3, RecordType
  <1>5. [row EXCEPT !.version = @ + 1] \in TaskRecord
    BY BumpType
  <1>6. tasks' \in [TaskIds -> TaskRecord] /\ clock' \in Nat
    BY <1>5 DEF Commit, TypeOK
  <1> QED
    BY <1>4, <1>6 DEF TypeOK

\* The event kind of a transition is one of the kinds.
LEMMA KindType ==
    ASSUME NEW from \in TaskStatus, NEW to \in TaskStatus
    PROVE  transition_event_kind(from, to) \in EventKinds
  BY DEF transition_event_kind, TaskStatus, Live, Terminal, EventKinds, TransitionKinds, Notes

LEMMA TransitionType ==
    ASSUME TypeOK, NEW t \in TaskIds, NEW c \in Ctx(t), NEW row \in TaskRecord,
           NEW to \in TaskStatus, tasks[t].status # "absent", Transition(c, t, row, to)
    PROVE  TypeOK'
  <1>1. [row EXCEPT !.status = to] \in TaskRecord
    BY StatusType
  <1>2. tasks[t].status \in TaskStatus
    BY DEF TypeOK, TaskRecord
  <1>3. transition_event_kind(tasks[t].status, to) \in EventKinds
    BY <1>2, KindType
  <1>4. checkpoints' \in [TaskIds -> Seq(TaskCheckpoint)]
    BY DEF Transition, TypeOK
  <1> QED
    BY <1>1, <1>3, <1>4, CommitType DEF Transition

LEMMA InitType == Init => TypeOK
  <1> SUFFICES ASSUME Init PROVE TypeOK
    OBVIOUS
  <1> QED
    BY AbsentType, EmptySeq DEF Init, TypeOK

LEMMA MutationType ==
    ASSUME TypeOK, NEW t \in TaskIds, NEW c \in Ctx(t), Mutation(c, t)
    PROVE  TypeOK'
  <1> DEFINE r == tasks[t]
  <1>1. r \in TaskRecord /\ c \in TaskMutationCtx
    BY CtxType DEF TypeOK
  <1>2. c.worker \in Workers /\ c.now \in Nat
    BY <1>1 DEF TaskMutationCtx
  <1>3. acquire_lease(r, c.worker, c.now) \in TaskRecord /\ release_lease(r) \in TaskRecord
    BY <1>1, <1>2, AcquireType, ReleaseType
  <1>4. Len(log[t]) + 1 \in Nat /\ Len(checkpoints[t]) + 1 \in Nat
    BY LenProperties DEF TypeOK
  <1>5. {"running", "paused", "validating"} \cup Terminal \subseteq TaskStatus
    BY DEF TaskStatus, Live
  <1>6. {"completed", "failed", "cancelled"} = Terminal
    BY DEF Terminal
  <1>a. CASE start_task(c, t)
    BY <1>a, <1>3, <1>5, TransitionType DEF start_task, Fresh
  <1>b. CASE pause_task(c, t)
    BY <1>b, <1>3, <1>5, TransitionType DEF pause_task, Fresh
  <1>c. CASE resume_task(c, t)
    BY <1>c, <1>3, <1>5, TransitionType DEF resume_task, Fresh
  <1>d. CASE start_task_validation(c, t)
    <2>1. [r EXCEPT !.validation = "open"] \in TaskRecord
      BY <1>1, ValidationType
    <2> QED
      BY <1>d, <2>1, <1>5, TransitionType DEF start_task_validation, Fresh
  <1>e. ASSUME NEW result \in {"passed", "failed"}, record_task_validation(c, t, result)
        PROVE  TypeOK'
    <2> DEFINE row == [r EXCEPT !.validation = result,
                                !.status = IF result = "passed" THEN @ ELSE "running"]
               kind == IF result = "passed" THEN "validation_passed" ELSE "validation_failed"
    <2>1. [r EXCEPT !.validation = result] \in TaskRecord
      BY <1>1, ValidationType
    <2>2. row \in TaskRecord
      BY <1>1, <1>5 DEF TaskRecord
    <2>3. kind \in EventKinds
      BY DEF EventKinds
    <2>4. /\ Commit(c, t, row, kind) /\ tasks[t].status # "absent"
          /\ checkpoints' \in [TaskIds -> Seq(TaskCheckpoint)]
      BY <1>e DEF record_task_validation, Fresh, TypeOK
    <2> HIDE DEF row, kind
    <2> QED
      BY <2>2, <2>3, <2>4, CommitType
  <1>f. CASE complete_task(c, t)
    <2>1. WithOutcome(release_lease(r), t, "completed") \in TaskRecord
      BY <1>3, <1>4, <1>6, OutcomeType DEF WithOutcome
    <2> QED
      BY <1>f, <2>1, <1>5, <1>6, TransitionType DEF complete_task, Fresh
  <1>g. CASE fail_task(c, t)
    <2>1. WithOutcome(release_lease(r), t, "failed") \in TaskRecord
      BY <1>3, <1>4, <1>6, OutcomeType DEF WithOutcome
    <2> QED
      BY <1>g, <2>1, <1>5, <1>6, TransitionType DEF fail_task, Fresh
  <1>h. ASSUME NEW reason \in BOOLEAN, cancel_task(c, t, reason)
        PROVE  TypeOK'
    <2>1. [release_lease(r) EXCEPT !.outcome = "cancelled"] \in TaskRecord
      BY <1>3, <1>4, <1>6, OutcomeType
    <2>2. (IF reason THEN [release_lease(r) EXCEPT !.outcome = "cancelled"]
                     ELSE release_lease(r)) \in TaskRecord
      BY <2>1, <1>3
    <2> QED
      BY <1>h, <2>2, <1>5, <1>6, TransitionType DEF cancel_task, Fresh
  <1>i. ASSUME NEW key \in Keys \cup {NoKey}, record_task_outcome(c, t, key)
        PROVE  TypeOK'
    <2> DEFINE e == [Event("outcome", c, r, r.status) EXCEPT !.key = key]
    <2>1. e \in TaskEvent /\ e.session = c.session
      BY <1>i, <1>1 DEF record_task_outcome, Event, TaskEvent, TaskMutationCtx, TaskRecord,
                        EventKinds, Notes
    <2>2. record_event_in_tx(t, e)
      BY <1>i DEF record_task_outcome
    <2>3. c.session = 0 \/ c.session \in DOMAIN sessions
      BY CtxType
    <2> HIDE DEF e
    <2>4. log' \in [TaskIds -> Seq(TaskEvent)] /\ sessions' \in Seq(SessionRecord)
      BY <2>1, <2>2, <2>3, RecordType
    <2> QED
      BY <2>4, <1>i DEF record_task_outcome, TypeOK
  <1>j. CASE create_task_checkpoint(c, t)
    <2> DEFINE row == [r EXCEPT !.checkpoint = Len(checkpoints[t]) + 1,
                         !.expires = IF tasks[t].worker = c.worker THEN c.now + TTL ELSE @]
               cp == [state |-> r.status, lv |-> r.lv]
    <2>1. cp \in TaskCheckpoint
      BY <1>j, <1>1 DEF create_task_checkpoint, Fresh, TaskCheckpoint, TaskRecord
    <2>2. Append(checkpoints[t], cp) \in Seq(TaskCheckpoint)
      BY <2>1, AppendProperties DEF TypeOK
    <2>3. checkpoints' \in [TaskIds -> Seq(TaskCheckpoint)]
      BY <1>j, <2>2 DEF create_task_checkpoint, TypeOK
    <2>7. (IF tasks[t].worker = c.worker THEN c.now + TTL ELSE r.expires) \in Int
      BY <1>1, <1>2, ConstantsAssumption, SMTT(40) DEF TaskRecord
    <2>4. row \in TaskRecord
      BY <1>1, <1>4, <2>7, LeaseFieldsType
    <2>5. Commit(c, t, row, "checkpoint") /\ tasks[t].status # "absent"
      BY <1>j DEF create_task_checkpoint, Fresh
    <2>6. "checkpoint" \in EventKinds
      BY DEF EventKinds, Notes
    <2> HIDE DEF row
    <2> QED
      BY <2>3, <2>4, <2>5, <2>6, CommitType
  <1>k. CASE heartbeat_task_lease(c, t)
    <2>1. [r EXCEPT !.expires = c.now + TTL] \in TaskRecord
      BY <1>1, <1>2, ExpiryType
    <2> QED
      BY <1>k, <2>1 DEF heartbeat_task_lease, TypeOK
  <1>l. CASE set_task_skill_refs(c, t)
    <2>1. [r EXCEPT !.version = @ + 1] \in TaskRecord
      BY <1>1, BumpType
    <2> QED
      BY <1>l, <2>1 DEF set_task_skill_refs, TypeOK
  <1> QED
    BY <1>a, <1>b, <1>c, <1>d, <1>e, <1>f, <1>g, <1>h, <1>i, <1>j, <1>k, <1>l DEF Mutation

\* Type correctness: no operation, in any interleaving, writes a row, a
\* checkpoint, an event or a session that its reader would reject.
THEOREM TypeCorrect == Spec => []TypeOK
  <1>1. TypeOK /\ [Next]_vars => TypeOK'
    <2> SUFFICES ASSUME TypeOK, [Next]_vars PROVE TypeOK'
      OBVIOUS
    <2>1. ASSUME NEW t \in TaskIds, NEW c \in Ctx(t), Mutation(c, t) PROVE TypeOK'
      BY <2>1, MutationType
    <2>2. ASSUME NEW w \in Workers, NEW t \in TaskIds, NEW key \in Keys \cup {NoKey},
                 create_task(w, t, key)
          PROVE  TypeOK'
      <3> DEFINE row == [AbsentTask EXCEPT !.status = "pending", !.key = key]
                 e == [kind |-> transition_event_kind("pending", "pending"),
                       from |-> "pending", by |-> w, lv |-> 0, session |-> 0, key |-> NoKey]
      <3>1. row \in TaskRecord
        BY AbsentType, CreatedType DEF TaskStatus
      <3>2. e \in TaskEvent
        BY KindType DEF TaskEvent, TaskStatus
      <3>3. Append(log[t], e) \in Seq(TaskEvent)
        BY <3>2, AppendProperties DEF TypeOK
      <3>4. /\ tasks' = [tasks EXCEPT ![t] = row]
            /\ log' = [log EXCEPT ![t] = Append(@, e)]
            /\ UNCHANGED <<clock, checkpoints, sessions>>
        BY <2>2 DEF create_task
      <3> HIDE DEF row, e
      <3> QED
        BY <3>1, <3>3, <3>4 DEF TypeOK
    <2>3. ASSUME NEW t \in TaskIds, open_session(t) PROVE TypeOK'
      <3>1. [task |-> t, active |-> TRUE, count |-> 0] \in SessionRecord
        BY DEF SessionRecord
      <3>2. Append(sessions, [task |-> t, active |-> TRUE, count |-> 0]) \in Seq(SessionRecord)
        BY <3>1, AppendProperties DEF TypeOK
      <3> QED
        BY <2>3, <3>2 DEF open_session, TypeOK
    <2>4. ASSUME NEW s \in DOMAIN sessions, close_session(s) PROVE TypeOK'
      <3>1. sessions[s] \in SessionRecord
        BY ElementOfSeq DEF TypeOK
      <3>2. [sessions[s] EXCEPT !.active = FALSE] \in SessionRecord
        BY <3>1 DEF SessionRecord
      <3>3. [sessions EXCEPT ![s] = [sessions[s] EXCEPT !.active = FALSE]] \in Seq(SessionRecord)
        BY <3>2, ExceptSeq DEF TypeOK
      <3> QED
        BY <2>4, <3>3 DEF close_session, TypeOK
    <2>5. CASE Tick
      BY <2>5 DEF Tick, TypeOK
    <2>6. CASE UNCHANGED vars
      BY <2>6 DEF vars, TypeOK
    <2> QED
      BY <2>1, <2>2, <2>3, <2>4, <2>5, <2>6 DEF Next
  <1> QED
    BY <1>1, InitType, PTL DEF Spec

----------------------------------------------------------------------------
(* What a mutation does to the row and the history of its task, said once.  *)

\* When the lease that is granted or renewed in this step may run out.
Granted(x) == x \in 0 .. clock + TTL

OutcomeKept(t) ==
    tasks'[t].outcome = tasks[t].outcome /\ tasks'[t].evidence = tasks[t].evidence

\* The row as the lease sees it is untouched, except that an owner may have
\* renewed its expiry.
Quiet(t) ==
    /\ tasks'[t].status = tasks[t].status
    /\ tasks'[t].worker = tasks[t].worker
    /\ tasks'[t].lv = tasks[t].lv
    /\ tasks'[t].validation = tasks[t].validation
    /\ OutcomeKept(t)
    /\ \/ tasks'[t].expires = tasks[t].expires
       \/ tasks[t].worker # NoWorker /\ Granted(tasks'[t].expires)

\* The worker of e takes the lease, or renews the one it has.
Takes(t, e) ==
    /\ e.kind = transition_event_kind(tasks[t].status, "running")
    /\ tasks[t].status \in {"pending", "paused"} \cup Live
    /\ tasks'[t].status = "running"
    /\ tasks[t].worker \in {NoWorker, e.by} \/ tasks[t].expires = NoTime \/ clock >= tasks[t].expires
    /\ tasks'[t].worker = e.by
    /\ Granted(tasks'[t].expires)
    /\ tasks'[t].validation = tasks[t].validation
    /\ tasks'[t].lv = IF tasks[t].worker = e.by THEN tasks[t].lv ELSE tasks[t].lv + 1
    /\ OutcomeKept(t)

\* The owner stops: pause, complete or fail.
Stops(t, e) ==
    /\ e.kind \in {"paused", "completed", "failed"}
    /\ e.kind = "completed" => tasks[t].status = "validating" /\ tasks[t].validation = "passed"
    /\ tasks[t].status \in Live
    /\ tasks[t].worker \in {NoWorker, e.by}
    /\ tasks'[t].status = e.kind
    /\ tasks'[t].worker = NoWorker
    /\ tasks'[t].expires = NoTime
    /\ tasks'[t].lv = tasks[t].lv
    /\ e.kind = "paused" => OutcomeKept(t)
    /\ e.kind # "paused" => /\ tasks'[t].outcome = e.kind
                            /\ tasks'[t].evidence = Len(log[t]) + 1

\* Anyone cancels.
Cancels(t, e) ==
    /\ e.kind = "cancelled"
    /\ tasks[t].status \notin Terminal
    /\ tasks'[t].status = "cancelled"
    /\ tasks'[t].worker = NoWorker
    /\ tasks'[t].expires = NoTime
    /\ tasks'[t].lv = tasks[t].lv
    /\ tasks'[t].outcome \in {tasks[t].outcome, "cancelled"}

\* The owner starts a validation or records its result.
Validates(t, e) ==
    /\ e.kind \in {"validation_started", "validation_passed", "validation_failed"}
    /\ tasks[t].status \in Live
    /\ tasks[t].worker \in {NoWorker, e.by}
    /\ tasks'[t].status = StatusAfter(e.kind)
    /\ tasks'[t].validation =
          CASE e.kind = "validation_started" -> "open"
            [] e.kind = "validation_passed" -> "passed"
            [] OTHER -> "failed"
    /\ tasks'[t].worker = tasks[t].worker
    /\ tasks'[t].expires = tasks[t].expires
    /\ tasks'[t].lv = tasks[t].lv
    /\ OutcomeKept(t)

\* A checkpoint or outcome evidence.
Annotates(t, e) ==
    /\ e.kind \in Notes
    /\ e.kind = "checkpoint" => /\ tasks[t].status \notin Terminal
                                /\ tasks[t].worker \in {NoWorker, e.by}
    /\ Quiet(t)

Effect(t) ==
    \/ log'[t] = log[t] /\ Quiet(t)
    \/ \E e \in TaskEvent :
          /\ log'[t] = Append(log[t], e)
          /\ tasks[t].status # "absent"
          /\ e.from = tasks[t].status
          /\ e.lv = tasks'[t].lv
          /\ Takes(t, e) \/ Stops(t, e) \/ Cancels(t, e) \/ Validates(t, e) \/ Annotates(t, e)

LEMMA CommitFields ==
    ASSUME TypeOK, NEW t \in TaskIds, NEW c \in Ctx(t), NEW row \in TaskRecord,
           NEW kind \in EventKinds, tasks[t].status # "absent", Commit(c, t, row, kind),
           NEW e, e = Event(kind, c, row, tasks[t].status)
    PROVE  /\ tasks'[t] = [row EXCEPT !.version = @ + 1]
           /\ e \in TaskEvent
           /\ e.kind = kind /\ e.from = tasks[t].status /\ e.by = c.worker /\ e.lv = row.lv
           /\ log'[t] = Append(log[t], e)
           /\ \A o \in TaskIds \ {t} : tasks'[o] = tasks[o] /\ log'[o] = log[o]
  <1>1. c \in TaskMutationCtx
    BY CtxType
  <1>2. e \in TaskEvent
    BY <1>1 DEF Event, TaskEvent, TaskMutationCtx, TypeOK, TaskRecord
  <1>3. e.kind = kind /\ e.from = tasks[t].status /\ e.by = c.worker /\ e.lv = row.lv
    BY DEF Event
  <1>4. record_event_in_tx(t, e) /\ tasks' = [tasks EXCEPT ![t] = [row EXCEPT !.version = @ + 1]]
    BY DEF Commit
  <1> QED
    BY <1>2, <1>3, <1>4 DEF record_event_in_tx, TypeOK

LEMMA TransitionFields ==
    ASSUME TypeOK, NEW t \in TaskIds, NEW c \in Ctx(t), NEW row \in TaskRecord,
           NEW to \in TaskStatus, tasks[t].status # "absent", Transition(c, t, row, to)
    PROVE  \E e \in TaskEvent :
              /\ log'[t] = Append(log[t], e)
              /\ e.kind = transition_event_kind(tasks[t].status, to)
              /\ e.from = tasks[t].status /\ e.by = c.worker /\ e.lv = row.lv
              /\ tasks'[t].status = to
              /\ tasks'[t].worker = row.worker
              /\ tasks'[t].expires = row.expires
              /\ tasks'[t].lv = row.lv
              /\ tasks'[t].validation = row.validation
              /\ tasks'[t].outcome = row.outcome
              /\ tasks'[t].evidence = row.evidence
  <1> DEFINE new == [row EXCEPT !.status = to]
             kind == transition_event_kind(tasks[t].status, to)
             e == Event(kind, c, new, tasks[t].status)
  <1>1. new \in TaskRecord
    BY StatusType
  <1>2. /\ new.status = to /\ new.worker = row.worker /\ new.expires = row.expires
        /\ new.lv = row.lv /\ new.validation = row.validation
        /\ new.outcome = row.outcome /\ new.evidence = row.evidence
    BY DEF TaskRecord
  <1>3. kind \in EventKinds
    BY KindType DEF TypeOK, TaskRecord
  <1>4. Commit(c, t, new, kind)
    BY DEF Transition
  <1> HIDE DEF new, kind
  <1>5. /\ tasks'[t] = [new EXCEPT !.version = @ + 1]
        /\ e \in TaskEvent
        /\ e.kind = kind /\ e.from = tasks[t].status /\ e.by = c.worker /\ e.lv = new.lv
        /\ log'[t] = Append(log[t], e)
    BY <1>1, <1>3, <1>4, CommitFields
  <1> HIDE DEF e
  <1>6. LET q == [new EXCEPT !.version = @ + 1]
        IN  /\ q.status = new.status /\ q.worker = new.worker /\ q.expires = new.expires
            /\ q.lv = new.lv /\ q.validation = new.validation
            /\ q.outcome = new.outcome /\ q.evidence = new.evidence
    BY <1>1 DEF TaskRecord
  <1>7. /\ tasks'[t].status = to /\ tasks'[t].worker = row.worker
        /\ tasks'[t].expires = row.expires /\ tasks'[t].lv = row.lv
        /\ tasks'[t].validation = row.validation
        /\ tasks'[t].outcome = row.outcome /\ tasks'[t].evidence = row.evidence
    BY <1>2, <1>5, <1>6
  <1>8. e.lv = row.lv /\ e.kind = transition_event_kind(tasks[t].status, to)
    BY <1>2, <1>5 DEF kind
  <1> QED
    BY <1>5, <1>7, <1>8

LEMMA LeaseFields ==
    ASSUME NEW row \in TaskRecord, NEW w \in Workers, NEW now \in Nat
    PROVE  /\ acquire_lease(row, w, now).worker = w
           /\ acquire_lease(row, w, now).expires = now + TTL
           /\ acquire_lease(row, w, now).lv = IF row.worker = w THEN row.lv ELSE row.lv + 1
           /\ acquire_lease(row, w, now).validation = row.validation
           /\ release_lease(row).worker = NoWorker
           /\ release_lease(row).expires = NoTime
           /\ release_lease(row).lv = row.lv
           /\ release_lease(row).validation = row.validation
           /\ acquire_lease(row, w, now).outcome = row.outcome
           /\ acquire_lease(row, w, now).evidence = row.evidence
           /\ release_lease(row).outcome = row.outcome
           /\ release_lease(row).evidence = row.evidence
  BY ConstantsAssumption DEF TaskRecord, acquire_lease, release_lease

LEMMA OutcomeFields ==
    ASSUME NEW row \in TaskRecord, NEW result, NEW n
    PROVE  LET q == [row EXCEPT !.outcome = result, !.evidence = n]
               p == [row EXCEPT !.outcome = result]
           IN  /\ q.worker = row.worker /\ q.expires = row.expires
               /\ q.lv = row.lv /\ q.validation = row.validation
               /\ p.worker = row.worker /\ p.expires = row.expires
               /\ p.lv = row.lv /\ p.validation = row.validation
               /\ q.outcome = result /\ q.evidence = n
               /\ p.outcome = result /\ p.evidence = row.evidence
  BY DEF TaskRecord

LEMMA MutationEffect ==
    ASSUME TypeOK, NEW t \in TaskIds, NEW c \in Ctx(t), Mutation(c, t)
    PROVE  Effect(t)
  <1> DEFINE r == tasks[t]
             acq == acquire_lease(r, c.worker, c.now)
             rel == release_lease(r)
  <1>1. r \in TaskRecord /\ c \in TaskMutationCtx
    BY CtxType DEF TypeOK
  <1>2. c.worker \in Workers /\ c.now \in Nat
    BY <1>1 DEF TaskMutationCtx
  <1>0. Granted(c.now + TTL)
    BY <1>2, CtxType, ConstantsAssumption DEF Granted, TypeOK
  <1>3. /\ acq \in TaskRecord /\ acq.worker = c.worker /\ acq.expires = c.now + TTL
        /\ acq.lv = (IF r.worker = c.worker THEN r.lv ELSE r.lv + 1)
        /\ acq.validation = r.validation
        /\ acq.outcome = r.outcome /\ acq.evidence = r.evidence
    BY <1>1, <1>2, AcquireType, LeaseFields
  <1>4. /\ rel \in TaskRecord /\ rel.worker = NoWorker /\ rel.expires = NoTime
        /\ rel.lv = r.lv /\ rel.outcome = r.outcome /\ rel.evidence = r.evidence
    BY <1>1, <1>2, ReleaseType, LeaseFields
  <1>5. Len(log[t]) + 1 \in Nat /\ Len(checkpoints[t]) + 1 \in Nat
    BY LenProperties DEF TypeOK
  <1>6. {"running", "paused", "validating"} \cup Terminal \subseteq TaskStatus
    BY DEF TaskStatus, Live
  <1>7. {"completed", "failed", "cancelled"} = Terminal
    BY DEF Terminal
  <1> HIDE DEF acq, rel
  <1>a. CASE start_task(c, t) \/ resume_task(c, t)
    <2>1. /\ Transition(c, t, acq, "running") /\ r.status # "absent"
          /\ r.status \in {"pending", "paused"} \cup Live
      BY <1>a DEF start_task, resume_task, Fresh, is_stale, acq
    <2>4. r.worker \in {NoWorker, c.worker} \/ r.expires = NoTime \/ clock >= r.expires
      BY <1>a, <1>1, <1>2, CtxType DEF start_task, resume_task, lease_free_for, TypeOK, TaskRecord
    <2>2. PICK e \in TaskEvent :
             /\ log'[t] = Append(log[t], e)
             /\ e.kind = transition_event_kind(r.status, "running")
             /\ e.from = r.status /\ e.by = c.worker /\ e.lv = acq.lv
             /\ tasks'[t].status = "running" /\ tasks'[t].worker = acq.worker
             /\ tasks'[t].expires = acq.expires /\ tasks'[t].lv = acq.lv
             /\ tasks'[t].validation = acq.validation
             /\ tasks'[t].outcome = acq.outcome /\ tasks'[t].evidence = acq.evidence
      BY <2>1, <1>3, <1>6, TransitionFields
    <2>3. Takes(t, e)
      BY <2>1, <2>2, <2>4, <1>0, <1>3 DEF Takes, OutcomeKept
    <2> QED
      BY <2>1, <2>2, <2>3 DEF Effect
  <1>b. CASE pause_task(c, t)
    <2>1. /\ Transition(c, t, rel, "paused") /\ r.status # "absent"
          /\ r.status = "running" /\ r.worker \in {NoWorker, c.worker}
      BY <1>b DEF pause_task, Fresh, Holds, enforce_lease, task_transition_allowed, rel
    <2>2. PICK e \in TaskEvent :
             /\ log'[t] = Append(log[t], e)
             /\ e.kind = transition_event_kind(r.status, "paused")
             /\ e.from = r.status /\ e.by = c.worker /\ e.lv = rel.lv
             /\ tasks'[t].status = "paused" /\ tasks'[t].worker = rel.worker
             /\ tasks'[t].expires = rel.expires /\ tasks'[t].lv = rel.lv
             /\ tasks'[t].outcome = rel.outcome /\ tasks'[t].evidence = rel.evidence
      BY <2>1, <1>4, <1>6, TransitionFields
    <2>3. e.kind = "paused"
      BY <2>2 DEF transition_event_kind
    <2>4. Stops(t, e)
      BY <2>1, <2>2, <2>3, <1>4 DEF Stops, Live, OutcomeKept
    <2> QED
      BY <2>1, <2>2, <2>4, <1>4 DEF Effect
  <1>c. CASE complete_task(c, t) \/ fail_task(c, t)
    <2>1. PICK to \in {"completed", "failed"} :
             /\ Transition(c, t, WithOutcome(rel, t, to), to) /\ r.status # "absent"
             /\ r.status \in Live /\ r.worker \in {NoWorker, c.worker}
             /\ to = "completed" => r.status = "validating" /\ r.validation = "passed"
      BY <1>c DEF complete_task, fail_task, Fresh, Holds, enforce_lease, Live, rel
    <2> DEFINE row == WithOutcome(rel, t, to)
    <2>7. to \in Terminal /\ rel \in TaskRecord
      BY <1>4, <1>7
    <2>8. row \in TaskRecord
      BY <1>5, <2>7, OutcomeType DEF WithOutcome
    <2>9. /\ row.worker = rel.worker /\ row.expires = rel.expires /\ row.lv = rel.lv
          /\ row.outcome = to /\ row.evidence = Len(log[t]) + 1
      BY <2>7, OutcomeFields DEF WithOutcome
    <2>2. /\ row \in TaskRecord /\ row.worker = rel.worker /\ row.expires = rel.expires
          /\ row.lv = rel.lv /\ row.outcome = to /\ row.evidence = Len(log[t]) + 1
      BY <2>8, <2>9
    <2>3. to \in TaskStatus
      BY <1>6, <1>7
    <2> HIDE DEF row
    <2>4. PICK e \in TaskEvent :
             /\ log'[t] = Append(log[t], e)
             /\ e.kind = transition_event_kind(r.status, to)
             /\ e.from = r.status /\ e.by = c.worker /\ e.lv = row.lv
             /\ tasks'[t].status = to /\ tasks'[t].worker = row.worker
             /\ tasks'[t].expires = row.expires /\ tasks'[t].lv = row.lv
             /\ tasks'[t].outcome = row.outcome /\ tasks'[t].evidence = row.evidence
      BY <2>1, <2>2, <2>3, TransitionFields DEF row
    <2>5. e.kind = to
      BY <2>4 DEF transition_event_kind
    <2>6. Stops(t, e)
      BY <2>1, <2>2, <2>4, <2>5, <1>4 DEF Stops
    <2> QED
      BY <2>1, <2>2, <2>4, <2>6, <1>4 DEF Effect
  <1>d. ASSUME NEW reason \in BOOLEAN, cancel_task(c, t, reason)
        PROVE  Effect(t)
    <2> DEFINE row == IF reason THEN [rel EXCEPT !.outcome = "cancelled"] ELSE rel
    <2>1. /\ row \in TaskRecord /\ row.worker = rel.worker /\ row.expires = rel.expires
          /\ row.lv = rel.lv /\ row.outcome \in {r.outcome, "cancelled"}
      BY <1>4, <1>5, <1>7, OutcomeType, OutcomeFields, ZenonT(40)
    <2>2. /\ Transition(c, t, row, "cancelled") /\ r.status # "absent"
          /\ r.status \notin Terminal
      BY <1>d DEF cancel_task, Fresh, task_transition_allowed, Terminal, rel
    <2> HIDE DEF row
    <2>3. PICK e \in TaskEvent :
             /\ log'[t] = Append(log[t], e)
             /\ e.kind = transition_event_kind(r.status, "cancelled")
             /\ e.from = r.status /\ e.by = c.worker /\ e.lv = row.lv
             /\ tasks'[t].status = "cancelled" /\ tasks'[t].worker = row.worker
             /\ tasks'[t].expires = row.expires /\ tasks'[t].lv = row.lv
             /\ tasks'[t].outcome = row.outcome
      BY <2>1, <2>2, <1>6, <1>7, TransitionFields
    <2>4. e.kind = "cancelled"
      BY <2>3 DEF transition_event_kind
    <2>5. Cancels(t, e)
      BY <2>1, <2>2, <2>3, <2>4, <1>4 DEF Cancels
    <2> QED
      BY <2>1, <2>2, <2>3, <2>5, <1>4 DEF Effect
  <1>e. CASE start_task_validation(c, t)
    <2> DEFINE row == [r EXCEPT !.validation = "open"]
    <2>1. /\ row \in TaskRecord /\ row.worker = r.worker /\ row.expires = r.expires
          /\ row.lv = r.lv /\ row.validation = "open"
          /\ row.outcome = r.outcome /\ row.evidence = r.evidence
      BY <1>1 DEF TaskRecord
    <2>2. /\ Transition(c, t, row, "validating") /\ r.status # "absent"
          /\ r.status = "running" /\ r.worker \in {NoWorker, c.worker}
      BY <1>e DEF start_task_validation, Fresh, Holds, enforce_lease
    <2> HIDE DEF row
    <2>3. PICK e \in TaskEvent :
             /\ log'[t] = Append(log[t], e)
             /\ e.kind = transition_event_kind(r.status, "validating")
             /\ e.from = r.status /\ e.by = c.worker /\ e.lv = row.lv
             /\ tasks'[t].status = "validating" /\ tasks'[t].worker = row.worker
             /\ tasks'[t].expires = row.expires /\ tasks'[t].lv = row.lv
             /\ tasks'[t].validation = row.validation
             /\ tasks'[t].outcome = row.outcome /\ tasks'[t].evidence = row.evidence
      BY <2>1, <2>2, <1>6, TransitionFields
    <2>4. e.kind = "validation_started"
      BY <2>3 DEF transition_event_kind
    <2>5. Validates(t, e)
      BY <2>1, <2>2, <2>3, <2>4 DEF Validates, StatusAfter, Live, OutcomeKept
    <2> QED
      BY <2>1, <2>2, <2>3, <2>5 DEF Effect
  <1>f. ASSUME NEW result \in {"passed", "failed"}, record_task_validation(c, t, result)
        PROVE  Effect(t)
    <2> DEFINE row == [r EXCEPT !.validation = result,
                                !.status = IF result = "passed" THEN @ ELSE "running"]
               kind == IF result = "passed" THEN "validation_passed" ELSE "validation_failed"
               e == Event(kind, c, row, r.status)
    <2>1. /\ Commit(c, t, row, kind) /\ r.status # "absent"
          /\ r.status = "validating" /\ r.worker \in {NoWorker, c.worker}
      BY <1>f DEF record_task_validation, Fresh, Holds, enforce_lease
    <2>2. row \in TaskRecord
      BY <1>1, <1>6 DEF TaskRecord
    <2>3. /\ row.worker = r.worker /\ row.expires = r.expires
          /\ row.lv = r.lv /\ row.validation = result
          /\ row.outcome = r.outcome /\ row.evidence = r.evidence
          /\ row.status = StatusAfter(kind)
      BY <1>1, <2>1 DEF TaskRecord, StatusAfter
    <2>4. kind \in EventKinds
      BY DEF EventKinds
    <2> HIDE DEF row
    <2>5. /\ tasks'[t] = [row EXCEPT !.version = @ + 1]
          /\ e \in TaskEvent
          /\ e.kind = kind /\ e.from = r.status /\ e.by = c.worker /\ e.lv = row.lv
          /\ log'[t] = Append(log[t], e)
      BY <2>1, <2>2, <2>4, CommitFields
    <2> HIDE DEF e
    <2>6. /\ tasks'[t].status = row.status /\ tasks'[t].worker = row.worker
          /\ tasks'[t].expires = row.expires /\ tasks'[t].lv = row.lv
          /\ tasks'[t].validation = row.validation
          /\ tasks'[t].outcome = row.outcome /\ tasks'[t].evidence = row.evidence
      BY <2>2, <2>5 DEF TaskRecord
    <2>7. Validates(t, e)
      BY <2>1, <2>3, <2>5, <2>6 DEF Validates, Live, OutcomeKept
    <2> QED
      BY <2>1, <2>3, <2>5, <2>6, <2>7 DEF Effect
  <1>g. ASSUME NEW key \in Keys \cup {NoKey}, record_task_outcome(c, t, key)
        PROVE  Effect(t)
    <2> DEFINE e == [Event("outcome", c, r, r.status) EXCEPT !.key = key]
    <2>1. /\ e \in TaskEvent /\ e.kind = "outcome" /\ e.from = r.status /\ e.lv = r.lv
      BY <1>g, <1>1 DEF record_task_outcome, Event, TaskEvent, TaskMutationCtx, TaskRecord,
                        EventKinds, Notes
    <2>2. record_event_in_tx(t, e) /\ UNCHANGED tasks /\ r.status # "absent"
      BY <1>g DEF record_task_outcome
    <2> HIDE DEF e
    <2>3. log'[t] = Append(log[t], e)
      BY <2>2 DEF record_event_in_tx, TypeOK
    <2>4. Annotates(t, e)
      BY <2>1, <2>2 DEF Annotates, Quiet, OutcomeKept, Notes
    <2> QED
      BY <2>1, <2>2, <2>3, <2>4 DEF Effect
  <1>h. CASE create_task_checkpoint(c, t)
    <2> DEFINE x == IF r.worker = c.worker THEN c.now + TTL ELSE r.expires
               row == [r EXCEPT !.checkpoint = Len(checkpoints[t]) + 1, !.expires = x]
               e == Event("checkpoint", c, row, r.status)
    <2>1. /\ Commit(c, t, row, "checkpoint") /\ r.status # "absent"
          /\ r.status \notin Terminal /\ r.worker \in {NoWorker, c.worker}
      BY <1>h DEF create_task_checkpoint, Fresh, Holds, enforce_lease
    <2>2. x \in Int /\ (x = r.expires \/ (r.worker # NoWorker /\ Granted(x)))
      BY <1>0, <1>1, <1>2, ConstantsAssumption DEF TaskRecord
    <2> HIDE DEF x
    <2>3. row \in TaskRecord
      BY <1>1, <1>5, <2>2, LeaseFieldsType
    <2>4. /\ row.status = r.status /\ row.worker = r.worker /\ row.expires = x
          /\ row.lv = r.lv /\ row.validation = r.validation
          /\ row.outcome = r.outcome /\ row.evidence = r.evidence
      BY <1>1 DEF TaskRecord
    <2>5. "checkpoint" \in EventKinds
      BY DEF EventKinds, Notes
    <2> HIDE DEF row
    <2>6. /\ tasks'[t] = [row EXCEPT !.version = @ + 1]
          /\ e \in TaskEvent
          /\ e.kind = "checkpoint" /\ e.from = r.status /\ e.by = c.worker /\ e.lv = row.lv
          /\ log'[t] = Append(log[t], e)
      BY <2>1, <2>3, <2>5, CommitFields
    <2> HIDE DEF e
    <2>7. /\ tasks'[t].status = row.status /\ tasks'[t].worker = row.worker
          /\ tasks'[t].expires = row.expires /\ tasks'[t].lv = row.lv
          /\ tasks'[t].validation = row.validation
          /\ tasks'[t].outcome = row.outcome /\ tasks'[t].evidence = row.evidence
      BY <2>3, <2>6 DEF TaskRecord
    <2>8. Annotates(t, e)
      BY <2>1, <2>2, <2>4, <2>6, <2>7 DEF Annotates, Quiet, OutcomeKept, Notes
    <2> QED
      BY <2>1, <2>4, <2>6, <2>7, <2>8 DEF Effect
  <1>i. CASE heartbeat_task_lease(c, t)
    <2>1. /\ tasks' = [tasks EXCEPT ![t] = [r EXCEPT !.expires = c.now + TTL]]
          /\ UNCHANGED log /\ r.worker = c.worker
      BY <1>i DEF heartbeat_task_lease
    <2>2. tasks'[t] = [r EXCEPT !.expires = c.now + TTL]
      BY <2>1 DEF TypeOK
    <2>3. r.worker # NoWorker
      BY <2>1, <1>2, ConstantsAssumption
    <2>4. /\ tasks'[t].status = r.status /\ tasks'[t].worker = r.worker
          /\ tasks'[t].lv = r.lv /\ tasks'[t].validation = r.validation
          /\ tasks'[t].expires = c.now + TTL
          /\ tasks'[t].outcome = r.outcome /\ tasks'[t].evidence = r.evidence
      BY <2>2, <1>1 DEF TaskRecord
    <2> QED
      BY <1>0, <2>1, <2>3, <2>4 DEF Effect, Quiet, OutcomeKept
  <1>j. CASE set_task_skill_refs(c, t)
    <2>1. /\ tasks' = [tasks EXCEPT ![t] = [r EXCEPT !.version = @ + 1]]
          /\ UNCHANGED log
      BY <1>j DEF set_task_skill_refs
    <2>2. tasks'[t] = [r EXCEPT !.version = @ + 1]
      BY <2>1 DEF TypeOK
    <2>3. /\ tasks'[t].status = r.status /\ tasks'[t].worker = r.worker
          /\ tasks'[t].lv = r.lv /\ tasks'[t].validation = r.validation
          /\ tasks'[t].expires = r.expires
          /\ tasks'[t].outcome = r.outcome /\ tasks'[t].evidence = r.evidence
      BY <2>2, <1>1, SMTT(40) DEF TaskRecord
    <2> QED
      BY <2>1, <2>3 DEF Effect, Quiet, OutcomeKept
  <1> QED
    BY <1>a, <1>b, <1>c, <1>d, <1>e, <1>f, <1>g, <1>h, <1>i, <1>j DEF Mutation

\* A mutation touches one task.
LEMMA MutationElsewhere ==
    ASSUME TypeOK, NEW t \in TaskIds, NEW c \in Ctx(t), Mutation(c, t), NEW o \in TaskIds \ {t}
    PROVE  tasks'[o] = tasks[o] /\ log'[o] = log[o] /\ checkpoints'[o] = checkpoints[o]
  BY DEF TypeOK, Mutation, start_task, pause_task, resume_task, start_task_validation,
         record_task_validation, complete_task, fail_task, cancel_task, record_task_outcome,
         create_task_checkpoint, heartbeat_task_lease, set_task_skill_refs, Transition,
         Commit, record_event_in_tx

\* A task comes into being, unowned and with its first event.
Creates(t) ==
    /\ tasks[t].status = "absent"
    /\ tasks'[t].status = "pending"
    /\ tasks'[t].worker = NoWorker
    /\ tasks'[t].expires = NoTime
    /\ tasks'[t].lv = 0
    /\ tasks'[t].validation = "none"
    /\ tasks'[t].outcome = "none"
    /\ \E e \in TaskEvent :
          /\ log'[t] = Append(log[t], e)
          /\ e.kind = "created" /\ e.from = "pending" /\ e.lv = 0

LEMMA NextEffect ==
    ASSUME TypeOK, [Next]_vars, NEW o \in TaskIds
    PROVE  Effect(o) \/ Creates(o)
  <1>1. ASSUME tasks'[o] = tasks[o], log'[o] = log[o] PROVE Effect(o)
    BY <1>1 DEF Effect, Quiet, OutcomeKept
  <1>2. ASSUME NEW t \in TaskIds, NEW c \in Ctx(t), Mutation(c, t) PROVE Effect(o)
    BY <1>1, <1>2, MutationEffect, MutationElsewhere
  <1>3. ASSUME NEW w \in Workers, NEW t \in TaskIds, NEW key \in Keys \cup {NoKey},
               create_task(w, t, key)
        PROVE  Effect(o) \/ Creates(o)
    <2>1. CASE o # t
      <3>1. tasks'[o] = tasks[o] /\ log'[o] = log[o]
        BY <1>3, <2>1 DEF create_task, TypeOK
      <3> QED
        BY <1>1, <3>1
    <2>2. CASE o = t
      <3> DEFINE row == [AbsentTask EXCEPT !.status = "pending", !.key = key]
                 e == [kind |-> transition_event_kind("pending", "pending"),
                       from |-> "pending", by |-> w, lv |-> 0, session |-> 0, key |-> NoKey]
      <3>1. tasks'[o] = row /\ log'[o] = Append(log[o], e) /\ tasks[o].status = "absent"
        BY <1>3, <2>2 DEF create_task, TypeOK
      <3>2. /\ row.status = "pending" /\ row.worker = NoWorker /\ row.expires = NoTime
            /\ row.lv = 0 /\ row.validation = "none" /\ row.outcome = "none"
        BY DEF AbsentTask
      <3>3. e \in TaskEvent
        BY KindType DEF TaskEvent, TaskStatus
      <3>4. e.kind = "created" /\ e.from = "pending" /\ e.lv = 0
        BY DEF transition_event_kind
      <3> HIDE DEF row, e
      <3> QED
        BY <3>1, <3>2, <3>3, <3>4 DEF Creates
    <2> QED
      BY <2>1, <2>2
  <1>4. ASSUME NEW t \in TaskIds, open_session(t) PROVE Effect(o)
    BY <1>1, <1>4 DEF open_session
  <1>5. ASSUME NEW s \in DOMAIN sessions, close_session(s) PROVE Effect(o)
    BY <1>1, <1>5 DEF close_session
  <1>6. CASE Tick
    BY <1>1, <1>6 DEF Tick
  <1>7. CASE UNCHANGED vars
    BY <1>1, <1>7 DEF vars
  <1> QED
    BY <1>2, <1>3, <1>4, <1>5, <1>6, <1>7 DEF Next

----------------------------------------------------------------------------
(* Leases *)

\* LeaseIffLive for one row.
LeaseRow(r) ==
    /\ (r.worker # NoWorker) <=> (r.status \in Live)
    /\ (r.worker # NoWorker) <=> (r.expires # NoTime)
    /\ r.worker # NoWorker => r.lv > 0

LEMMA LeaseStep ==
    ASSUME TypeOK, LeaseIffLive, [Next]_vars
    PROVE  LeaseIffLive'
  <1> SUFFICES ASSUME NEW t \in TaskIds PROVE LeaseRow(tasks'[t])
    BY DEF LeaseIffLive, LeaseRow
  <1>1. LeaseRow(tasks[t]) /\ tasks[t].lv \in Nat
    BY DEF LeaseIffLive, TypeOK, TaskRecord, LeaseRow
  <1>2. \A x : Granted(x) => x # NoTime
    BY ConstantsAssumption DEF NoTime, Granted, TypeOK
  <1>3. CASE Creates(t)
    BY <1>3 DEF Creates, Live, LeaseRow
  <1>4. ASSUME Quiet(t) PROVE LeaseRow(tasks'[t])
    <2>1. CASE tasks'[t].expires = tasks[t].expires
      BY <1>1, <1>4, <2>1, Zenon DEF Quiet, LeaseRow
    <2>2. CASE tasks[t].worker # NoWorker /\ Granted(tasks'[t].expires)
      <3>1. tasks'[t].expires # NoTime /\ tasks[t].expires # NoTime
        BY <1>1, <1>2, <2>2, Zenon DEF LeaseRow
      <3> QED
        BY <1>1, <1>4, <2>2, <3>1, Zenon DEF Quiet, LeaseRow
    <2> QED
      BY <1>4, <2>1, <2>2 DEF Quiet
  <1>5. ASSUME NEW e \in TaskEvent, Takes(t, e) PROVE LeaseRow(tasks'[t])
    <2>1. e.by # NoWorker
      BY ConstantsAssumption DEF TaskEvent
    <2>2. tasks'[t].worker # NoWorker /\ tasks'[t].status \in Live
      BY <1>5, <2>1 DEF Takes, Live
    <2>3. tasks'[t].expires # NoTime
      BY <1>2, <1>5 DEF Takes
    <2>4. tasks[t].worker = e.by => tasks[t].lv > 0
      BY <1>1, <2>1 DEF LeaseRow
    <2>5. tasks'[t].lv > 0
      BY <1>1, <1>5, <2>4 DEF Takes
    <2> QED
      BY <2>2, <2>3, <2>5 DEF LeaseRow
  <1>6. ASSUME NEW e \in TaskEvent, Stops(t, e) \/ Cancels(t, e) PROVE LeaseRow(tasks'[t])
    BY <1>6 DEF Stops, Cancels, Live, LeaseRow
  <1>7. ASSUME NEW e \in TaskEvent, Validates(t, e) PROVE LeaseRow(tasks'[t])
    <2>1. /\ tasks'[t].worker = tasks[t].worker /\ tasks[t].status \in Live
          /\ tasks'[t].expires = tasks[t].expires /\ tasks'[t].lv = tasks[t].lv
      BY <1>7 DEF Validates
    <2>2. tasks'[t].status \in Live
      BY <1>7 DEF Validates, Live, StatusAfter
    <2> QED
      BY <1>1, <2>1, <2>2, Zenon DEF LeaseRow
  <1>8. CASE Effect(t)
    BY <1>4, <1>5, <1>6, <1>7, <1>8 DEF Effect, Annotates
  <1> QED
    BY <1>3, <1>8, NextEffect

\* A task names an owner, with an expiry and a fencing version past zero,
\* exactly while it is running or validating, for every number of workers.
THEOREM LeaseCorrect == Spec => []LeaseIffLive
  <1>1. Init => LeaseIffLive
    <2> SUFFICES ASSUME Init, NEW t \in TaskIds PROVE LeaseRow(tasks[t])
      BY DEF LeaseIffLive, LeaseRow
    <2>1. tasks[t] = AbsentTask
      BY DEF Init
    <2> QED
      BY <2>1 DEF AbsentTask, LeaseRow, Live
  <1> QED
    BY <1>1, LeaseStep, TypeCorrect, PTL DEF Spec

----------------------------------------------------------------------------
(* Fencing *)

\* The inductive form of OneWriterPerLease, for a history s of a task whose
\* row has lease version lv and owner w: nothing in the history is ahead of
\* the row, and the owner writes of the current lease version are the owner's.
FencedLog(s, lv, w) ==
    /\ \A i \in DOMAIN s : s[i].lv <= lv
    /\ w # NoWorker => \A i \in DOMAIN s : OwnerWrite(s[i]) /\ s[i].lv = lv => s[i].by = w
    /\ \A i, j \in DOMAIN s : i < j => s[i].lv <= s[j].lv
    /\ \A i, j \in DOMAIN s :
          s[i].lv = s[j].lv /\ OwnerWrite(s[i]) /\ OwnerWrite(s[j]) => s[i].by = s[j].by

LEMMA FencedAppend ==
    ASSUME NEW s \in Seq(TaskEvent), NEW e \in TaskEvent,
           NEW lv \in Nat, NEW w, NEW lv2 \in Nat, NEW w2,
           FencedLog(s, lv, w), lv2 >= lv, e.lv = lv2,
           OwnerWrite(e) /\ lv2 = lv => w = e.by /\ w # NoWorker,
           w2 # NoWorker => \/ w2 = e.by /\ OwnerWrite(e)
                            \/ w2 = w /\ lv2 = lv
    PROVE  FencedLog(Append(s, e), lv2, w2)
  <1> DEFINE q == Append(s, e)
             n == Len(s)
  <1>1. /\ n \in Nat /\ DOMAIN s = 1..n /\ DOMAIN q = 1..(n + 1)
        /\ q[n + 1] = e /\ \A i \in 1..n : q[i] = s[i]
    BY AppendProperties, LenProperties
  <1>2. \A i \in 1..n : s[i] \in TaskEvent /\ s[i].lv \in Nat
    <2> SUFFICES ASSUME NEW i \in 1..n PROVE s[i] \in TaskEvent /\ s[i].lv \in Nat
      OBVIOUS
    <2>1. s[i] \in TaskEvent
      BY <1>1, ElementOfSeq
    <2> QED
      BY <2>1 DEF TaskEvent
  <1> HIDE DEF q, n
  <1>3. \A i \in 1..(n + 1) : i \in 1..n \/ i = n + 1
    BY <1>1
  <1>4. \A i \in DOMAIN q : q[i].lv <= lv2
    BY <1>1, <1>2, <1>3 DEF FencedLog
  <1>5. \A i \in 1..n : OwnerWrite(s[i]) /\ OwnerWrite(e) /\ s[i].lv = lv2 => s[i].by = e.by
    BY <1>1, <1>2 DEF FencedLog
  <1>6. ASSUME w2 # NoWorker, NEW i \in DOMAIN q, OwnerWrite(q[i]), q[i].lv = lv2
        PROVE  q[i].by = w2
    <2>1. CASE i = n + 1
      BY <2>1, <1>1, <1>6
    <2>2. CASE i \in 1..n
      <3>1. CASE w2 = e.by /\ OwnerWrite(e)
        BY <2>2, <3>1, <1>1, <1>5, <1>6
      <3>2. CASE w2 = w /\ lv2 = lv
        BY <2>2, <3>2, <1>1, <1>6 DEF FencedLog
      <3> QED
        BY <3>1, <3>2, <1>6
    <2> QED
      BY <2>1, <2>2, <1>1, <1>3
  <1>7. ASSUME NEW i \in DOMAIN q, NEW j \in DOMAIN q, i < j
        PROVE  q[i].lv <= q[j].lv
    <2>1. CASE j = n + 1
      BY <2>1, <1>1, <1>4
    <2>2. CASE j \in 1..n
      BY <2>2, <1>1, <1>7 DEF FencedLog
    <2> QED
      BY <2>1, <2>2, <1>1, <1>3
  <1>8. ASSUME NEW i \in DOMAIN q, NEW j \in DOMAIN q, q[i].lv = q[j].lv,
               OwnerWrite(q[i]), OwnerWrite(q[j])
        PROVE  q[i].by = q[j].by
    <2>1. CASE i = n + 1 /\ j = n + 1
      BY <2>1
    <2>2. CASE i \in 1..n /\ j = n + 1
      BY <2>2, <1>1, <1>5, <1>8
    <2>3. CASE i = n + 1 /\ j \in 1..n
      BY <2>3, <1>1, <1>5, <1>8
    <2>4. CASE i \in 1..n /\ j \in 1..n
      BY <2>4, <1>1, <1>8 DEF FencedLog
    <2> QED
      BY <2>1, <2>2, <2>3, <2>4, <1>1, <1>3
  <1> QED
    BY <1>4, <1>6, <1>7, <1>8 DEF FencedLog, q

FencingInv ==
    \A t \in TaskIds :
        /\ tasks[t].status = "absent" => log[t] = <<>>
        /\ FencedLog(log[t], tasks[t].lv, tasks[t].worker)

LEMMA FencingStep ==
    ASSUME TypeOK, LeaseIffLive, FencingInv, [Next]_vars
    PROVE  FencingInv'
  <1> SUFFICES ASSUME NEW t \in TaskIds
               PROVE  /\ tasks'[t].status = "absent" => log'[t] = <<>>
                      /\ FencedLog(log'[t], tasks'[t].lv, tasks'[t].worker)
    BY DEF FencingInv
  <1>1. /\ log[t] \in Seq(TaskEvent) /\ tasks[t].lv \in Nat /\ tasks[t] \in TaskRecord
        /\ tasks[t].status = "absent" => log[t] = <<>>
        /\ FencedLog(log[t], tasks[t].lv, tasks[t].worker)
        /\ LeaseRow(tasks[t])
    BY DEF TypeOK, TaskRecord, FencingInv, LeaseIffLive, LeaseRow
  <1>2. CASE Creates(t)
    <2>1. PICK e \in TaskEvent : log'[t] = Append(log[t], e) /\ e.kind = "created"
                                 /\ e.from = "pending" /\ e.lv = 0
      BY <1>2 DEF Creates
    <2>2. ~ OwnerWrite(e)
      BY <2>1 DEF OwnerWrite, Live
    <2>3. FencedLog(log[t], 0, NoWorker)
      BY <1>1, <1>2 DEF Creates, FencedLog
    <2>4. FencedLog(Append(log[t], e), 0, NoWorker)
      <3> DEFINE zero == 0
      <3>1. zero \in Nat /\ zero >= zero /\ e.lv = zero /\ FencedLog(log[t], zero, NoWorker)
        BY <2>1, <2>3
      <3> HIDE DEF zero
      <3>2. FencedLog(Append(log[t], e), zero, NoWorker)
        BY <1>1, <2>2, <3>1, FencedAppend
      <3> QED
        BY <3>2 DEF zero
    <2> QED
      BY <1>2, <2>1, <2>4 DEF Creates
  <1>3. CASE log'[t] = log[t] /\ Quiet(t)
    BY <1>1, <1>3 DEF Quiet
  <1>4. ASSUME NEW e \in TaskEvent, log'[t] = Append(log[t], e), tasks[t].status # "absent",
               e.from = tasks[t].status, e.lv = tasks'[t].lv,
               Takes(t, e) \/ Stops(t, e) \/ Cancels(t, e) \/ Validates(t, e) \/ Annotates(t, e)
        PROVE  /\ tasks'[t].status # "absent"
               /\ FencedLog(log'[t], tasks'[t].lv, tasks'[t].worker)
    <2> DEFINE lv2 == tasks'[t].lv
               w2 == tasks'[t].worker
    <2>0. e.by # NoWorker
      BY ConstantsAssumption DEF TaskEvent
    <2>1. CASE Takes(t, e)
      <3>1. OwnerWrite(e) /\ w2 = e.by /\ tasks'[t].status = "running"
        BY <2>1 DEF Takes, OwnerWrite, transition_event_kind
      <3>2. lv2 \in Nat /\ lv2 >= tasks[t].lv /\ (lv2 = tasks[t].lv => tasks[t].worker = e.by)
        BY <1>1, <2>1 DEF Takes
      <3> QED
        BY <1>1, <1>4, <2>0, <3>1, <3>2, FencedAppend
    <2>2. CASE Stops(t, e) \/ Validates(t, e)
      <3>1. tasks[t].worker = e.by
        BY <1>1, <2>2, Zenon DEF Stops, Validates, LeaseRow
      <3>2. lv2 = tasks[t].lv /\ w2 \in {NoWorker, tasks[t].worker}
        BY <2>2 DEF Stops, Validates
      <3>3. tasks'[t].status # "absent"
        BY <2>2 DEF Stops, Validates, StatusAfter
      <3> QED
        BY <1>1, <1>4, <2>0, <3>1, <3>2, <3>3, FencedAppend
    <2>3. CASE Cancels(t, e)
      <3>1. ~ OwnerWrite(e) /\ lv2 = tasks[t].lv /\ w2 = NoWorker
            /\ tasks'[t].status # "absent"
        BY <2>3 DEF Cancels, OwnerWrite
      <3> QED
        BY <1>1, <1>4, <3>1, FencedAppend
    <2>4. CASE Annotates(t, e)
      <3>1. /\ lv2 = tasks[t].lv /\ w2 = tasks[t].worker /\ tasks'[t].status # "absent"
        BY <1>4, <2>4 DEF Annotates, Quiet
      <3>2. OwnerWrite(e) => tasks[t].status \in Live /\ tasks[t].worker \in {NoWorker, e.by}
        BY <1>4, <2>4 DEF Annotates, OwnerWrite, Notes
      <3>3. OwnerWrite(e) => tasks[t].worker = e.by
        BY <3>2, <1>1, Zenon DEF LeaseRow
      <3> QED
        BY <1>1, <1>4, <2>0, <3>1, <3>3, FencedAppend
    <2> QED
      BY <1>4, <2>1, <2>2, <2>3, <2>4
  <1> QED
    BY <1>2, <1>3, <1>4, NextEffect DEF Effect

\* Fencing, for every number of workers and tasks: one writer per lease version
\* and lease versions that never go back, so a worker that was taken over never
\* writes into or after the work of the newer owner.
THEOREM FencingCorrect == Spec => []OneWriterPerLease
  <1>1. Init => FencingInv
    <2> SUFFICES ASSUME Init, NEW t \in TaskIds
                 PROVE  log[t] = <<>> /\ FencedLog(log[t], tasks[t].lv, tasks[t].worker)
      BY DEF FencingInv
    <2>1. log[t] = <<>> /\ DOMAIN log[t] = {}
      BY DEF Init
    <2> QED
      BY <2>1 DEF FencedLog
  <1>2. FencingInv => OneWriterPerLease
    BY DEF FencingInv, FencedLog, OneWriterPerLease
  <1> QED
    BY <1>1, <1>2, FencingStep, TypeCorrect, LeaseCorrect, PTL DEF Spec

----------------------------------------------------------------------------
(* History: the row and the log tell the same story *)

\* LastLifecycle for a history s.
Last(s, i, n) ==
    /\ i \in DOMAIN s /\ i < n
    /\ s[i].kind \notin Notes
    /\ \A j \in DOMAIN s : i < j /\ j < n => s[j].kind \in Notes

\* Event n is explained by the lifecycle event before it.
Explained(s, n) ==
    \E i \in 1..(n - 1) : Last(s, i, n) /\ StatusAfter(s[i].kind) = s[n].from

\* Event n completes what the event before it allowed.
Gated(s, n) ==
    \E i \in 1..(n - 1) :
        /\ Last(s, i, n)
        /\ s[i].kind = "validation_passed"
        /\ s[i].lv = s[n].lv
        /\ s[i].by = s[n].by

\* The status of the row is where the last lifecycle event leads to; an armed
\* completion gate was armed by that event, by the owner and under its lease.
Current(s, status, validation, lv, w) ==
    \E i \in DOMAIN s :
        /\ Last(s, i, Len(s) + 1)
        /\ StatusAfter(s[i].kind) = status
        /\ status = "validating" /\ validation = "passed" =>
              s[i].kind = "validation_passed" /\ s[i].lv = lv /\ s[i].by = w

\* What a history keeps, whatever is appended.
Chained(s) ==
    \A n \in DOMAIN s : /\ n > 1 => Explained(s, n)
                        /\ s[n].kind = "completed" => Gated(s, n)

LEMMA LastAppend ==
    ASSUME NEW s \in Seq(TaskEvent), NEW e \in TaskEvent
    PROVE  LET q == Append(s, e)
           IN  /\ Len(q) = Len(s) + 1 /\ DOMAIN q = DOMAIN s \cup {Len(s) + 1}
               /\ q[Len(s) + 1] = e /\ \A i \in DOMAIN s : q[i] = s[i]
               /\ \A i \in DOMAIN s : \A n \in 1..(Len(s) + 1) : Last(s, i, n) => Last(q, i, n)
               /\ \A i \in DOMAIN s : Last(s, i, Len(s) + 1) /\ e.kind \in Notes
                                        => Last(q, i, Len(s) + 2)
               /\ e.kind \notin Notes => Last(q, Len(s) + 1, Len(s) + 2)
  <1> DEFINE q == Append(s, e)
  <1>1. /\ Len(q) = Len(s) + 1 /\ DOMAIN q = 1..(Len(s) + 1) /\ DOMAIN s = 1..Len(s)
        /\ Len(s) \in Nat /\ q[Len(s) + 1] = e /\ \A i \in DOMAIN s : q[i] = s[i]
    BY AppendProperties, LenProperties
  <1> HIDE DEF q
  <1>2. \A i \in DOMAIN s : \A n \in 1..(Len(s) + 1) : Last(s, i, n) => Last(q, i, n)
    BY <1>1 DEF Last
  <1>3. \A i \in DOMAIN s : Last(s, i, Len(s) + 1) /\ e.kind \in Notes => Last(q, i, Len(s) + 2)
    BY <1>1 DEF Last
  <1>4. e.kind \notin Notes => Last(q, Len(s) + 1, Len(s) + 2)
    BY <1>1 DEF Last
  <1>5. DOMAIN q = DOMAIN s \cup {Len(s) + 1}
    BY <1>1
  <1> QED
    BY <1>1, <1>2, <1>3, <1>4, <1>5 DEF q

\* A history goes on with an event that names the status it finds, and that
\* completes only through an armed gate.
LEMMA ChainedAppend ==
    ASSUME NEW s \in Seq(TaskEvent), NEW e \in TaskEvent, Chained(s),
           NEW status, NEW validation, NEW lv, NEW w,
           Current(s, status, validation, lv, w), e.from = status,
           e.kind = "completed" =>
              status = "validating" /\ validation = "passed" /\ e.lv = lv /\ e.by = w
    PROVE  Chained(Append(s, e))
  <1> DEFINE q == Append(s, e)
             n == Len(s) + 1
  <1>1. /\ Len(q) = n /\ DOMAIN q = DOMAIN s \cup {n} /\ q[n] = e
        /\ \A i \in DOMAIN s : q[i] = s[i]
        /\ \A i \in DOMAIN s : \A m \in 1..n : Last(s, i, m) => Last(q, i, m)
        /\ DOMAIN s = 1..Len(s) /\ Len(s) \in Nat
    BY LastAppend, LenProperties
  <1> HIDE DEF q
  <1>2. PICK i \in DOMAIN s :
          /\ Last(s, i, n)
          /\ StatusAfter(s[i].kind) = status
          /\ status = "validating" /\ validation = "passed" =>
                s[i].kind = "validation_passed" /\ s[i].lv = lv /\ s[i].by = w
    BY DEF Current
  <1>3. i \in 1..(n - 1) /\ Last(q, i, n) /\ q[i] = s[i]
    BY <1>1, <1>2
  <1>4. Explained(q, n)
    BY <1>1, <1>2, <1>3 DEF Explained
  <1>5. e.kind = "completed" => Gated(q, n)
    BY <1>1, <1>2, <1>3 DEF Gated
  <1>6. ASSUME NEW m \in DOMAIN s
        PROVE  (m > 1 => Explained(q, m)) /\ (q[m].kind = "completed" => Gated(q, m))
    <2>1. (m > 1 => Explained(s, m)) /\ (s[m].kind = "completed" => Gated(s, m))
      BY DEF Chained
    <2>2. \A k \in 1..(m - 1) : k \in DOMAIN s /\ q[k] = s[k] /\ (Last(s, k, m) => Last(q, k, m))
      BY <1>1
    <2>3. Explained(s, m) => Explained(q, m)
      BY <1>1, <2>2 DEF Explained
    <2>4. Gated(s, m) => Gated(q, m)
      BY <1>1, <2>2 DEF Gated
    <2> QED
      BY <1>1, <2>1, <2>3, <2>4
  <1> QED
    BY <1>1, <1>4, <1>5, <1>6 DEF Chained, q

\* After a lifecycle event that event is current, after a note the old one.
LEMMA CurrentEvent ==
    ASSUME NEW s \in Seq(TaskEvent), NEW e \in TaskEvent, e.kind \notin Notes,
           NEW status, NEW validation, NEW lv, NEW w, StatusAfter(e.kind) = status,
           status = "validating" /\ validation = "passed" =>
              e.kind = "validation_passed" /\ e.lv = lv /\ e.by = w
    PROVE  Current(Append(s, e), status, validation, lv, w)
  <1> DEFINE q == Append(s, e)
             n == Len(s) + 1
  <1>1. /\ Len(q) = n /\ n \in DOMAIN q /\ q[n] = e /\ Last(q, n, Len(s) + 2)
        /\ Len(s) \in Nat
    BY LastAppend, LenProperties
  <1> HIDE DEF q
  <1>2. Last(q, n, Len(q) + 1)
    BY <1>1
  <1> HIDE DEF n
  <1> QED
    BY <1>1, <1>2 DEF Current, q

LEMMA CurrentNote ==
    ASSUME NEW s \in Seq(TaskEvent), NEW e \in TaskEvent, e.kind \in Notes,
           NEW status, NEW validation, NEW lv, NEW w, Current(s, status, validation, lv, w)
    PROVE  Current(Append(s, e), status, validation, lv, w)
  <1> DEFINE q == Append(s, e)
  <1>1. PICK i \in DOMAIN s :
          /\ Last(s, i, Len(s) + 1)
          /\ StatusAfter(s[i].kind) = status
          /\ status = "validating" /\ validation = "passed" =>
                s[i].kind = "validation_passed" /\ s[i].lv = lv /\ s[i].by = w
    BY DEF Current
  <1>2. i \in DOMAIN q /\ q[i] = s[i] /\ Last(q, i, Len(s) + 2) /\ Len(q) = Len(s) + 1
        /\ Len(s) \in Nat
    BY <1>1, LastAppend, LenProperties
  <1> HIDE DEF q
  <1>3. Last(q, i, Len(q) + 1)
    BY <1>2
  <1> QED
    BY <1>1, <1>2, <1>3 DEF Current, q

\* The evidence of an outcome.
OutcomeRow(s, r) ==
    /\ r.outcome # "none" => r.outcome = r.status
    /\ r.status \in {"completed", "failed"} =>
          /\ r.outcome = r.status
          /\ r.evidence \in DOMAIN s
          /\ s[r.evidence].kind = r.outcome

HistoryInv ==
    \A t \in TaskIds :
        /\ tasks[t].status = "absent" => log[t] = <<>>
        /\ tasks[t].status # "absent" =>
              Current(log[t], tasks[t].status, tasks[t].validation, tasks[t].lv, tasks[t].worker)
        /\ Chained(log[t])
        /\ OutcomeRow(log[t], tasks[t])

LEMMA HistoryStep ==
    ASSUME TypeOK, LeaseIffLive, HistoryInv, [Next]_vars
    PROVE  HistoryInv'
  <1> SUFFICES ASSUME NEW t \in TaskIds
               PROVE  /\ tasks'[t].status = "absent" => log'[t] = <<>>
                      /\ tasks'[t].status # "absent" =>
                            Current(log'[t], tasks'[t].status, tasks'[t].validation,
                                    tasks'[t].lv, tasks'[t].worker)
                      /\ Chained(log'[t])
                      /\ OutcomeRow(log'[t], tasks'[t])
    BY DEF HistoryInv
  <1> DEFINE r == tasks[t]
             q == tasks'[t]
             s == log[t]
  <1>1. /\ s \in Seq(TaskEvent) /\ r \in TaskRecord /\ LeaseRow(r)
        /\ r.status = "absent" => s = <<>>
        /\ r.status # "absent" => Current(s, r.status, r.validation, r.lv, r.worker)
        /\ Chained(s)
        /\ OutcomeRow(s, r)
    BY DEF TypeOK, HistoryInv, LeaseIffLive, LeaseRow
  <1>2. r.status \notin Terminal => r.outcome = "none"
    BY <1>1 DEF OutcomeRow, TaskRecord
  <1>3. CASE log'[t] = log[t] /\ Quiet(t)
    BY <1>1, <1>3 DEF Quiet, OutcomeKept, OutcomeRow
  <1>4. CASE Creates(t)
    <2>1. PICK e \in TaskEvent : log'[t] = Append(s, e) /\ e.kind = "created" /\ e.from = "pending"
      BY <1>4 DEF Creates
    <2>2. q.status = "pending" /\ s = <<>> /\ q.outcome = "none"
      BY <1>1, <1>4 DEF Creates
    <2>3. Current(log'[t], q.status, q.validation, q.lv, q.worker)
      <3>1. e.kind \notin Notes /\ StatusAfter(e.kind) = q.status /\ q.status # "validating"
        BY <2>1, <2>2 DEF Notes, StatusAfter
      <3> QED
        BY <1>1, <2>1, <3>1, CurrentEvent
    <2>4. DOMAIN log'[t] = {1} /\ log'[t][1] = e
      BY <2>1, <2>2
    <2>5. Chained(log'[t])
      BY <2>1, <2>4 DEF Chained
    <2> QED
      BY <2>2, <2>3, <2>5 DEF OutcomeRow
  <1>5. ASSUME NEW e \in TaskEvent, log'[t] = Append(s, e), r.status # "absent",
               e.from = r.status, e.lv = q.lv,
               Takes(t, e) \/ Stops(t, e) \/ Cancels(t, e) \/ Validates(t, e) \/ Annotates(t, e)
        PROVE  /\ q.status # "absent"
               /\ Current(log'[t], q.status, q.validation, q.lv, q.worker)
               /\ Chained(log'[t])
               /\ OutcomeRow(log'[t], q)
    <2>1. e.kind = "completed" =>
            r.status = "validating" /\ r.validation = "passed" /\ e.lv = r.lv /\ e.by = r.worker
      <3> SUFFICES ASSUME e.kind = "completed"
                   PROVE  /\ r.status = "validating" /\ r.validation = "passed"
                          /\ e.lv = r.lv /\ e.by = r.worker
        OBVIOUS
      <3>1. Stops(t, e)
        BY <1>5 DEF Takes, Cancels, Validates, Annotates, Notes, transition_event_kind
      <3>2. /\ r.status = "validating" /\ r.validation = "passed" /\ r.status \in Live
            /\ e.lv = r.lv /\ r.worker \in {NoWorker, e.by}
        BY <1>5, <3>1 DEF Stops
      <3>3. r.worker # NoWorker
        BY <1>1, <3>2, Zenon DEF LeaseRow
      <3> QED
        BY <3>2, <3>3
    <2>2. Chained(log'[t])
      BY <1>1, <1>5, <2>1, ChainedAppend
    <2>3. /\ Len(s) + 1 \in DOMAIN log'[t] /\ log'[t][Len(s) + 1] = e
          /\ \A i \in DOMAIN s : i \in DOMAIN log'[t] /\ log'[t][i] = s[i]
      BY <1>1, <1>5, LastAppend
    <2>4. CASE Annotates(t, e)
      <3>1. /\ q.status = r.status /\ q.validation = r.validation /\ q.lv = r.lv
            /\ q.worker = r.worker /\ q.outcome = r.outcome /\ q.evidence = r.evidence
            /\ e.kind \in Notes
        BY <2>4 DEF Annotates, Quiet, OutcomeKept
      <3>2. Current(log'[t], r.status, r.validation, r.lv, r.worker)
        BY <1>1, <1>5, <3>1, CurrentNote
      <3> QED
        BY <1>1, <1>5, <2>2, <2>3, <3>1, <3>2 DEF OutcomeRow
    <2>5. CASE Takes(t, e)
      <3>1. /\ e.kind \in {"started", "resumed"} /\ q.status = "running"
            /\ q.outcome = "none"
        BY <1>2, <2>5 DEF Takes, OutcomeKept, transition_event_kind, Live, Terminal
      <3>2. e.kind \notin Notes /\ StatusAfter(e.kind) = q.status
        BY <3>1 DEF Notes, StatusAfter
      <3>3. Current(log'[t], q.status, q.validation, q.lv, q.worker)
        BY <1>1, <1>5, <3>1, <3>2, CurrentEvent
      <3> QED
        BY <2>2, <3>1, <3>3 DEF OutcomeRow
    <2>6. CASE Stops(t, e)
      <3>1. e.kind \in {"paused", "completed", "failed"} /\ q.status = e.kind
        BY <2>6 DEF Stops
      <3>2. e.kind \notin Notes /\ StatusAfter(e.kind) = q.status
        BY <3>1 DEF Notes, StatusAfter
      <3>3. Current(log'[t], q.status, q.validation, q.lv, q.worker)
        BY <1>1, <1>5, <3>1, <3>2, CurrentEvent
      <3>4. r.outcome = "none"
        BY <1>2, <2>6 DEF Stops, Live, Terminal
      <3>5. OutcomeRow(log'[t], q)
        BY <2>3, <2>6, <3>1, <3>4 DEF Stops, OutcomeKept, OutcomeRow
      <3> QED
        BY <2>2, <3>1, <3>3, <3>5
    <2>7. CASE Cancels(t, e)
      <3>1. e.kind = "cancelled" /\ q.status = "cancelled" /\ q.outcome \in {"none", "cancelled"}
        BY <1>2, <2>7 DEF Cancels
      <3>2. e.kind \notin Notes /\ StatusAfter(e.kind) = q.status
        BY <3>1 DEF Notes, StatusAfter
      <3>3. Current(log'[t], q.status, q.validation, q.lv, q.worker)
        BY <1>1, <1>5, <3>1, <3>2, CurrentEvent
      <3> QED
        BY <2>2, <3>1, <3>3 DEF OutcomeRow
    <2>8. CASE Validates(t, e)
      <3>1. /\ e.kind \in {"validation_started", "validation_passed", "validation_failed"}
            /\ q.status = StatusAfter(e.kind) /\ q.status \in Live
            /\ q.validation = "passed" => e.kind = "validation_passed"
        BY <2>8 DEF Validates, StatusAfter, Live
      <3>2. q.outcome = "none"
        BY <1>2, <2>8 DEF Validates, OutcomeKept, Live, Terminal
      <3>3. r.worker # NoWorker
        BY <1>1, <2>8, Zenon DEF Validates, LeaseRow
      <3>4. e.by = q.worker
        BY <2>8, <3>3 DEF Validates
      <3>5. e.kind \notin Notes
        BY <3>1 DEF Notes
      <3>6. Current(log'[t], q.status, q.validation, q.lv, q.worker)
        BY <1>1, <1>5, <3>1, <3>4, <3>5, CurrentEvent
      <3> QED
        BY <2>2, <3>1, <3>2, <3>6 DEF OutcomeRow, Live
    <2> QED
      BY <1>5, <2>4, <2>5, <2>6, <2>7, <2>8
  <1> QED
    BY <1>3, <1>4, <1>5, NextEffect DEF Effect

LEMMA HistoryInvariant == Spec => []HistoryInv
  <1>1. Init => HistoryInv
    <2> SUFFICES ASSUME Init, NEW t \in TaskIds
                 PROVE  /\ tasks[t].status = "absent" /\ log[t] = <<>>
                        /\ Chained(log[t]) /\ OutcomeRow(log[t], tasks[t])
      BY DEF HistoryInv
    <2>1. log[t] = <<>> /\ tasks[t] = AbsentTask
      BY DEF Init
    <2> QED
      BY <2>1 DEF AbsentTask, Chained, OutcomeRow
  <1> QED
    BY <1>1, HistoryStep, TypeCorrect, LeaseCorrect, PTL DEF Spec

\* The completion gate, for every number of workers and every interleaving: a
\* completion follows a pass that the same worker recorded under the same
\* lease, and no lifecycle event lies between (complete_task).
THEOREM CompletionCorrect == Spec => []CompletionFollowsPass
  <1>1. HistoryInv => CompletionFollowsPass
    BY DEF HistoryInv, Chained, Gated, Last, CompletionFollowsPass, LastLifecycle
  <1> QED
    BY <1>1, HistoryInvariant, PTL

\* Row and event are written together: the log always explains the status of
\* the row, the from_status of every event and the evidence of an outcome.
THEOREM HistoryCorrect == Spec => []HistoryMatchesState
  <1>1. HistoryInv => HistoryMatchesState
    <2> SUFFICES ASSUME HistoryInv, NEW t \in TaskIds
                 PROVE  /\ tasks[t].status = "absent" <=> log[t] = <<>>
                        /\ tasks[t].status # "absent" =>
                              \E i \in DOMAIN log[t] :
                                  /\ LastLifecycle(t, i, Len(log[t]) + 1)
                                  /\ StatusAfter(log[t][i].kind) = tasks[t].status
                        /\ \A n \in DOMAIN log[t] : n > 1 =>
                              \E i \in 1..(n - 1) :
                                  LastLifecycle(t, i, n) /\ StatusAfter(log[t][i].kind) = log[t][n].from
                        /\ OutcomeRow(log[t], tasks[t])
      BY DEF HistoryMatchesState, OutcomeRow
    <2>1. tasks[t].status # "absent" =>
            \E i \in DOMAIN log[t] :
                /\ LastLifecycle(t, i, Len(log[t]) + 1)
                /\ StatusAfter(log[t][i].kind) = tasks[t].status
      BY DEF HistoryInv, Current, Last, LastLifecycle
    <2>2. tasks[t].status # "absent" => log[t] # <<>>
      BY <2>1
    <2>3. \A n \in DOMAIN log[t] : n > 1 =>
            \E i \in 1..(n - 1) :
                LastLifecycle(t, i, n) /\ StatusAfter(log[t][i].kind) = log[t][n].from
      BY DEF HistoryInv, Chained, Explained, Last, LastLifecycle
    <2> QED
      BY <2>1, <2>2, <2>3 DEF HistoryInv
  <1> QED
    BY <1>1, HistoryInvariant, PTL

\* A mutation of a terminal task is outcome evidence, if anything.
LEMMA TerminalMutation ==
    ASSUME TypeOK, LeaseIffLive, NEW t \in TaskIds, NEW c \in Ctx(t), Mutation(c, t),
           tasks[t].status \in Terminal
    PROVE  \E key \in Keys \cup {NoKey} : record_task_outcome(c, t, key)
  <1>1. tasks[t].status \notin Live \cup {"pending", "paused", "running", "validating"}
    BY DEF Terminal, Live
  <1>2. tasks[t].worker = NoWorker
    BY <1>1, Zenon DEF LeaseIffLive
  <1>3. c.worker # NoWorker
    BY CtxType, ConstantsAssumption DEF TaskMutationCtx
  <1>4. ~ heartbeat_task_lease(c, t)
    BY <1>2, <1>3 DEF heartbeat_task_lease
  <1> QED
    BY <1>1, <1>4 DEF Mutation, start_task, pause_task, resume_task, is_stale,
         start_task_validation, record_task_validation, complete_task, fail_task, cancel_task,
         create_task_checkpoint, set_task_skill_refs, task_transition_allowed, Terminal

\* A terminal task is frozen, whatever stale contexts calls carry: its row and
\* its checkpoints stay, its history only grows by outcome evidence.
THEOREM TerminalCorrect == Spec => TerminalFrozen
  <1> DEFINE Frozen(t) ==
        /\ tasks'[t] = tasks[t]
        /\ checkpoints'[t] = checkpoints[t]
        /\ Len(log'[t]) >= Len(log[t])
        /\ \A i \in DOMAIN log'[t] :
              IF i \in DOMAIN log[t] THEN log'[t][i] = log[t][i]
                                     ELSE log'[t][i].kind = "outcome"
  <1>1. ASSUME TypeOK, LeaseIffLive, [Next]_vars, NEW t \in TaskIds,
               tasks[t].status \in Terminal
        PROVE  Frozen(t)
    <2>1. log[t] \in Seq(TaskEvent)
      BY <1>1 DEF TypeOK
    <2>2. ASSUME tasks'[t] = tasks[t], checkpoints'[t] = checkpoints[t], log'[t] = log[t]
          PROVE  Frozen(t)
      BY <2>1, <2>2
    <2>3. ASSUME NEW o \in TaskIds, NEW c \in Ctx(o), Mutation(c, o) PROVE Frozen(t)
      <3>1. CASE o # t
        BY <1>1, <2>2, <2>3, <3>1, MutationElsewhere
      <3>2. CASE o = t
        <4>1. PICK key \in Keys \cup {NoKey} : record_task_outcome(c, t, key)
          BY <1>1, <2>3, <3>2, TerminalMutation
        <4> DEFINE e == [Event("outcome", c, tasks[t], tasks[t].status) EXCEPT !.key = key]
        <4>2. e.kind = "outcome"
          BY DEF Event
        <4>3. /\ tasks' = tasks /\ checkpoints' = checkpoints
              /\ log' = [log EXCEPT ![t] = Append(@, e)]
          BY <4>1 DEF record_task_outcome, record_event_in_tx
        <4> HIDE DEF e
        <4>4. log'[t] = Append(log[t], e)
          BY <1>1, <4>3 DEF TypeOK
        <4> QED
          BY <2>1, <4>2, <4>3, <4>4
      <3> QED
        BY <3>1, <3>2
    <2>4. ASSUME NEW w \in Workers, NEW o \in TaskIds, NEW key \in Keys \cup {NoKey},
                 create_task(w, o, key)
          PROVE  Frozen(t)
      <3>1. o # t
        BY <1>1, <2>4 DEF create_task, Terminal
      <3> QED
        BY <1>1, <2>2, <2>4, <3>1 DEF create_task, TypeOK
    <2>5. ASSUME NEW o \in TaskIds, open_session(o) PROVE Frozen(t)
      BY <2>2, <2>5 DEF open_session
    <2>6. ASSUME NEW o \in DOMAIN sessions, close_session(o) PROVE Frozen(t)
      BY <2>2, <2>6 DEF close_session
    <2>7. CASE Tick \/ UNCHANGED vars
      BY <2>2, <2>7 DEF Tick, vars
    <2> HIDE DEF Frozen
    <2> QED
      BY <1>1, <2>3, <2>4, <2>5, <2>6, <2>7 DEF Next
  <1>2. TypeOK /\ LeaseIffLive /\ [Next]_vars =>
          [\A t \in TaskIds : tasks[t].status \in Terminal => Frozen(t)]_vars
    BY <1>1
  <1> QED
    BY <1>2, TypeCorrect, LeaseCorrect, PTL DEF Spec, TerminalFrozen

----------------------------------------------------------------------------
(* The lease contract *)

\* The lease of one row.
Phase(status) == IF status \in Terminal THEN "over" ELSE "open"

ViewOf(r) ==
    [phase |-> Phase(r.status), owner |-> r.worker, fence |-> r.lv, until |-> r.expires]

\* A task that does not exist yet was never leased.
UnbornFree == \A t \in TaskIds : tasks[t].status = "absent" => tasks[t].lv = 0

LEMMA UnbornStep ==
    ASSUME TypeOK, UnbornFree, [Next]_vars
    PROVE  UnbornFree'
  <1> SUFFICES ASSUME NEW t \in TaskIds, tasks'[t].status = "absent" PROVE tasks'[t].lv = 0
    BY DEF UnbornFree
  <1>1. ASSUME Quiet(t) PROVE tasks'[t].lv = 0
    BY <1>1 DEF Quiet, UnbornFree
  <1>2. ~ Creates(t)
    BY DEF Creates
  <1>3. ASSUME NEW e \in TaskEvent, Takes(t, e) \/ Stops(t, e) \/ Cancels(t, e) \/ Validates(t, e)
        PROVE  FALSE
    BY <1>3 DEF Takes, Stops, Cancels, Validates, StatusAfter
  <1> QED
    BY <1>1, <1>2, <1>3, NextEffect DEF Effect, Annotates

\* What a step does to one lease is said by the two rows.
LEMMA ViewChange ==
    ASSUME NEW t \in TaskIds, \A o \in TaskIds \ {t} : tasks'[o] = tasks[o]
    PROVE  /\ LeaseView[t] = ViewOf(tasks[t])
           /\ LeaseView' = [LeaseView EXCEPT ![t] = ViewOf(tasks'[t])]
  <1>1. LeaseView = [o \in TaskIds |-> ViewOf(tasks[o])]
    BY DEF LeaseView, ViewOf, Phase
  <1>2. LeaseView' = [o \in TaskIds |-> ViewOf(tasks'[o])]
    BY DEF LeaseView, ViewOf, Phase
  <1> HIDE DEF ViewOf
  <1> QED
    BY <1>1, <1>2

\* A lease, and the edits TaskLease makes to one.
LeaseRec(p, o, f, u) == [phase |-> p, owner |-> o, fence |-> f, until |-> u]

LEMMA LeaseRecFields ==
    ASSUME NEW p, NEW o, NEW f, NEW u
    PROVE  /\ LeaseRec(p, o, f, u).phase = p /\ LeaseRec(p, o, f, u).owner = o
           /\ LeaseRec(p, o, f, u).fence = f /\ LeaseRec(p, o, f, u).until = u
  BY DEF LeaseRec

LEMMA LeaseRecRenew ==
    ASSUME NEW p, NEW o, NEW f, NEW u, NEW x
    PROVE  [LeaseRec(p, o, f, u) EXCEPT !.until = x] = LeaseRec(p, o, f, x)
  BY DEF LeaseRec

LEMMA ViewRec ==
    ASSUME NEW r
    PROVE  ViewOf(r) = LeaseRec(Phase(r.status), r.worker, r.lv, r.expires)
  BY DEF ViewOf, LeaseRec

LEMMA LeaseStepImplemented ==
    ASSUME TypeOK, LeaseIffLive, UnbornFree, NEW t \in TaskIds, Effect(t) \/ Creates(t),
           \A o \in TaskIds \ {t} : tasks'[o] = tasks[o], clock' = clock
    PROVE  [Lease!Next]_(Lease!vars)
  <1> DEFINE r == tasks[t]
             q == tasks'[t]
             p == Phase(r.status)
  <1>1. /\ LeaseView[t] = LeaseRec(p, r.worker, r.lv, r.expires)
        /\ LeaseView' = [LeaseView EXCEPT ![t] = LeaseRec(Phase(q.status), q.worker, q.lv, q.expires)]
    BY ViewChange, ViewRec
  <1>2. LeaseRow(r) /\ NoWorker \notin Workers
    BY ConstantsAssumption DEF LeaseIffLive, LeaseRow
  <1>3. /\ r.status \notin Terminal => p = "open"
        /\ q.status \notin Terminal => Phase(q.status) = "open"
        /\ q.status \in Terminal => Phase(q.status) = "over"
    BY DEF Phase
  <1>l. /\ LeaseView[t].phase = p /\ LeaseView[t].owner = r.worker
        /\ LeaseView[t].fence = r.lv /\ LeaseView[t].until = r.expires
    BY <1>1, LeaseRecFields
  <1> HIDE DEF p
  <1>4. ASSUME q.worker = r.worker, q.lv = r.lv, q.expires = r.expires, Phase(q.status) = p
        PROVE  [Lease!Next]_(Lease!vars)
    <2>1. LeaseView' = [LeaseView EXCEPT ![t] = LeaseView[t]]
      BY <1>1, <1>4
    <2>2. LeaseView' = LeaseView
      BY <2>1 DEF LeaseView
    <2> QED
      BY <2>2 DEF Lease!vars
  <1>5. CASE Creates(t)
    <2>1. r.status = "absent" /\ r.status \notin Live /\ r.status \notin Terminal
      BY <1>5 DEF Creates, Live, Terminal
    <2>2. r.lv = 0 /\ r.worker = NoWorker /\ r.expires = NoTime
      BY <1>2, <2>1, Zenon DEF UnbornFree, LeaseRow
    <2>3. q.status \notin Terminal
      BY <1>5 DEF Creates, Terminal
    <2> QED
      BY <1>3, <1>4, <1>5, <2>1, <2>2, <2>3 DEF Creates
  <1>6. ASSUME Quiet(t) PROVE [Lease!Next]_(Lease!vars)
    <2>1. q.worker = r.worker /\ q.lv = r.lv /\ Phase(q.status) = p
      BY <1>6 DEF Quiet, p
    <2>2. CASE q.expires = r.expires
      BY <1>4, <2>1, <2>2
    <2>3. CASE r.worker # NoWorker /\ Granted(q.expires)
      <3>1. [LeaseView[t] EXCEPT !.until = q.expires] = LeaseRec(p, q.worker, q.lv, q.expires)
        BY <1>1, <2>1, LeaseRecRenew
      <3>2. LeaseView' = [LeaseView EXCEPT ![t].until = q.expires]
        BY <1>1, <2>1, <3>1
      <3>3. Lease!Renew(t)
        BY <1>l, <2>3, <3>2 DEF Lease!Renew, Lease!Deadlines, Granted
      <3> QED
        BY <3>3 DEF Lease!Next
    <2> QED
      BY <1>6, <2>2, <2>3 DEF Quiet
  <1>7. ASSUME NEW e \in TaskEvent, Takes(t, e) PROVE [Lease!Next]_(Lease!vars)
    <2>1. e.by \in Workers
      BY DEF TaskEvent
    <2>2. r.status \notin Terminal /\ q.status \notin Terminal
      BY <1>7 DEF Takes, Live, Terminal
    <2>3. r.worker \in {NoWorker, e.by} \/ clock >= r.expires
      BY <1>2, <1>7, Zenon DEF Takes, LeaseRow
    <2>4. /\ q.worker = e.by /\ Granted(q.expires)
          /\ q.lv = IF r.worker = e.by THEN r.lv ELSE r.lv + 1
      BY <1>7 DEF Takes
    <2>5. Phase(q.status) = "open" /\ p = "open"
      BY <1>3, <2>2
    <2>6. LeaseRec("open", q.worker, q.lv, q.expires) =
          Lease!Owned(e.by, IF LeaseView[t].owner = e.by THEN LeaseView[t].fence
                            ELSE LeaseView[t].fence + 1, q.expires)
      BY <1>l, <2>4 DEF LeaseRec, Lease!Owned
    <2>7. LeaseView' = [LeaseView EXCEPT ![t] =
             Lease!Owned(e.by, IF LeaseView[t].owner = e.by THEN LeaseView[t].fence
                               ELSE LeaseView[t].fence + 1, q.expires)]
      BY <1>1, <2>5, <2>6
    <2>8. Lease!Take(t, e.by)
      BY <1>l, <2>3, <2>4, <2>5, <2>7 DEF Lease!Take, Lease!Deadlines, Granted
    <2> QED
      BY <2>1, <2>8 DEF Lease!Next
  <1>8. ASSUME NEW e \in TaskEvent, Stops(t, e) \/ Cancels(t, e)
        PROVE  [Lease!Next]_(Lease!vars)
    <2>1. /\ q.worker = NoWorker /\ q.expires = NoTime /\ q.lv = r.lv
          /\ r.status \notin Terminal
      BY <1>8 DEF Stops, Cancels, Live, Terminal
    <2>2. CASE q.status \in Terminal
      <3>1. LeaseRec(Phase(q.status), q.worker, q.lv, q.expires) =
            Lease!Unowned("over", LeaseView[t].fence)
        BY <1>l, <1>3, <2>1, <2>2 DEF LeaseRec, Lease!Unowned
      <3>2. LeaseView' = [LeaseView EXCEPT ![t] = Lease!Unowned("over", LeaseView[t].fence)]
        BY <1>1, <3>1
      <3>3. Lease!Finish(t)
        BY <1>l, <1>3, <2>1, <3>2 DEF Lease!Finish
      <3> QED
        BY <3>3 DEF Lease!Next
    <2>3. CASE q.status \notin Terminal
      <3>1. r.status \in Live
        BY <1>8, <2>3 DEF Stops, Cancels, Terminal
      <3>2. r.worker # NoWorker
        BY <1>2, <3>1, Zenon DEF LeaseRow
      <3>3. LeaseRec(Phase(q.status), q.worker, q.lv, q.expires) =
            Lease!Unowned("open", LeaseView[t].fence)
        BY <1>l, <1>3, <2>1, <2>3 DEF LeaseRec, Lease!Unowned
      <3>4. LeaseView' = [LeaseView EXCEPT ![t] = Lease!Unowned("open", LeaseView[t].fence)]
        BY <1>1, <3>3
      <3>5. Lease!Give(t)
        BY <1>l, <3>2, <3>4 DEF Lease!Give
      <3> QED
        BY <3>5 DEF Lease!Next
    <2> QED
      BY <2>2, <2>3
  <1>9. ASSUME NEW e \in TaskEvent, Validates(t, e) PROVE [Lease!Next]_(Lease!vars)
    <2>1. r.status \notin Terminal /\ q.status \notin Terminal
      BY <1>9 DEF Validates, Live, Terminal, StatusAfter
    <2>2. q.worker = r.worker /\ q.lv = r.lv /\ q.expires = r.expires
      BY <1>9 DEF Validates
    <2> QED
      BY <1>3, <1>4, <2>1, <2>2
  <1> QED
    BY <1>5, <1>6, <1>7, <1>8, <1>9 DEF Effect, Annotates

\* The task runtime implements the lease contract, for every number of tasks
\* and workers, every lease length and every delay of a call.
THEOREM LeaseImplemented == Spec => ImplementsLease
  <1>1. Init => Lease!Init /\ UnbornFree
    <2> SUFFICES ASSUME Init PROVE Lease!Init /\ UnbornFree
      OBVIOUS
    <2>1. \A t \in TaskIds : tasks[t] = AbsentTask
      BY DEF Init
    <2>2. UnbornFree
      BY <2>1 DEF UnbornFree, AbsentTask
    <2>3. LeaseView = [t \in TaskIds |-> Lease!Unowned("open", 0)]
      BY <2>1 DEF LeaseView, Lease!Unowned, AbsentTask, Terminal
    <2> QED
      BY <2>2, <2>3 DEF Init, Lease!Init
  <1>2. TypeOK /\ LeaseIffLive /\ UnbornFree /\ [Next]_vars => [Lease!Next]_(Lease!vars)
    <2> SUFFICES ASSUME TypeOK, LeaseIffLive, UnbornFree, [Next]_vars
                 PROVE  [Lease!Next]_(Lease!vars)
      OBVIOUS
    <2>1. ASSUME NEW t \in TaskIds, NEW c \in Ctx(t), Mutation(c, t)
          PROVE  [Lease!Next]_(Lease!vars)
      <3>1. clock' = clock
        BY <2>1 DEF Mutation, start_task, pause_task, resume_task, start_task_validation,
                    record_task_validation, complete_task, fail_task, cancel_task,
                    record_task_outcome, create_task_checkpoint, heartbeat_task_lease,
                    set_task_skill_refs, Transition, Commit
      <3>2. \A o \in TaskIds \ {t} : tasks'[o] = tasks[o]
        BY <2>1, MutationElsewhere
      <3> QED
        BY <2>1, <3>1, <3>2, MutationEffect, LeaseStepImplemented
    <2>2. ASSUME NEW w \in Workers, NEW t \in TaskIds, NEW key \in Keys \cup {NoKey},
                 create_task(w, t, key)
          PROVE  [Lease!Next]_(Lease!vars)
      <3>1. clock' = clock /\ \A o \in TaskIds \ {t} : tasks'[o] = tasks[o]
        BY <2>2 DEF create_task, TypeOK
      <3> QED
        BY <3>1, NextEffect, LeaseStepImplemented
    <2>3. ASSUME UNCHANGED <<clock, tasks>> PROVE [Lease!Next]_(Lease!vars)
      BY <2>3 DEF Lease!vars, LeaseView
    <2>4. ASSUME NEW t \in TaskIds, open_session(t) PROVE [Lease!Next]_(Lease!vars)
      BY <2>3, <2>4 DEF open_session
    <2>5. ASSUME NEW s \in DOMAIN sessions, close_session(s) PROVE [Lease!Next]_(Lease!vars)
      BY <2>3, <2>5 DEF close_session
    <2>6. CASE Tick
      BY <2>6 DEF Tick, Lease!Next, Lease!Pass, LeaseView
    <2>7. CASE UNCHANGED vars
      BY <2>3, <2>7 DEF vars
    <2> QED
      BY <2>1, <2>2, <2>4, <2>5, <2>6, <2>7 DEF Next
  <1> QED
    BY <1>1, <1>2, UnbornStep, TypeCorrect, LeaseCorrect, PTL
       DEF Spec, ImplementsLease, Lease!Spec
============================================================================
