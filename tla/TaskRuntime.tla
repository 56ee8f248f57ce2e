---------------------------- MODULE TaskRuntime ----------------------------
(***************************************************************************)
(* The durable task runtime (context-runtime/src/tasks.rs): task rows,     *)
(* immutable checkpoints, worker leases with a fencing version, and the    *)
(* history event every mutation writes in the same SQLite transaction.     *)
(*                                                                         *)
(* Several server processes share state.db.  A call carries a context: the *)
(* worker, the lease version and the row version it believes are current,  *)
(* the time it read and the session it ensured, each before its mutation   *)
(* began and so possibly stale.  Nothing makes a context current, so an    *)
(* operation takes any context; a refused call changes nothing.  The       *)
(* mutation itself is one atomic step: SQLite turns a snapshot into a      *)
(* write only when nothing was committed since, and refuses it otherwise.  *)
(*                                                                         *)
(* One instance is one workspace: load_task_for refuses every other one.   *)
(***************************************************************************)
EXTENDS Integers, Sequences

CONSTANTS
    TaskIds,      \* the ids mint_task_id can return
    Workers,      \* worker ids; one per server process
    Keys,         \* idempotency keys (create) and dedup keys (outcome)
    NoWorker,     \* lease_worker = NULL
    NoKey,        \* no key given
    TTL,          \* TASK_LEASE_TTL_SECS
    MaxDelay,     \* how long a call can wait for the store after reading the time
    MaxClock,     \* bound: the clock stops here
    MaxVersion,   \* bound: no mutation past this current_version
    MaxLog,       \* bound: history events per task
    MaxSessions   \* bound: sessions ever opened

ASSUME ConstantsAssumption ==
    /\ NoWorker \notin Workers
    /\ NoKey \notin Keys
    /\ TTL \in Nat \ {0}
    /\ {MaxDelay, MaxClock, MaxVersion, MaxLog, MaxSessions} \subseteq Nat

VARIABLES
    clock,       \* unix seconds
    tasks,       \* [TaskIds -> TaskRecord], table tasks
    checkpoints, \* [TaskIds -> Seq(checkpoint)], table task_checkpoints by version
    log,         \* [TaskIds -> Seq(event)], the task's rows of table events
    sessions     \* Seq(session), the task-bound rows of table sessions

vars == <<clock, tasks, checkpoints, log, sessions>>

----------------------------------------------------------------------------
(* Records *)

NoTime == -1
NoAnchor == -1

Terminal == {"completed", "failed", "cancelled"}
Live == {"running", "validating"}
TaskStatus == {"pending", "paused"} \cup Live \cup Terminal

\* A task id no row carries yet is the record AbsentTask.
AbsentTask ==
    [status |-> "absent", key |-> NoKey, version |-> 0, worker |-> NoWorker,
     expires |-> NoTime, lv |-> 0, validation |-> "none", checkpoint |-> 0,
     outcome |-> "none", evidence |-> 0]

\* lv is lease_version; checkpoint the version current_checkpoint_id points
\* to; evidence the position in the log of outcome.evidence_event_ids[0].
TaskRecord ==
    [status : TaskStatus \cup {"absent"}, key : Keys \cup {NoKey}, version : Nat,
     worker : Workers \cup {NoWorker}, expires : Int, lv : Nat,
     validation : {"none", "open", "passed", "failed"}, checkpoint : Nat,
     outcome : {"none"} \cup Terminal, evidence : Nat]

TaskCheckpoint == [state : TaskStatus, lv : Nat]

TransitionKinds ==
    {"created", "started", "resumed", "paused", "validation_started",
     "completed", "failed", "cancelled"}
Notes == {"checkpoint", "outcome"}
EventKinds == TransitionKinds \cup {"validation_passed", "validation_failed"} \cup Notes

\* from is the payload's from_status; by and lv (who wrote it, under which
\* lease version) are history the table does not keep.
TaskEvent ==
    [kind : EventKinds, from : TaskStatus, by : Workers, lv : Nat,
     session : Nat, key : Keys \cup {NoKey}]

SessionRecord == [task : TaskIds, active : BOOLEAN, count : Nat]

TaskMutationCtx ==
    [worker : Workers, lv : Nat, anchor : Nat \cup {NoAnchor}, now : Nat, session : Nat]

----------------------------------------------------------------------------
(* The rules of the state machine and of the lease *)

task_transition_allowed(from, to) ==
    \/ from = "pending"    /\ to \in {"running", "cancelled"}
    \/ from = "running"    /\ to \in {"paused", "validating", "failed", "cancelled"}
    \/ from = "paused"     /\ to \in {"running", "cancelled"}
    \/ from = "validating" /\ to \in {"running", "completed", "failed", "cancelled"}

is_stale(r, now) == r.status \in Live /\ (r.expires = NoTime \/ now >= r.expires)

\* A named owner keeps exclusive rights, expired or not.
enforce_lease(r, w, lv) == lv >= r.lv /\ r.worker \in {NoWorker, w}

check_stale(r, anchor) == anchor \in {NoAnchor, r.version}

lease_free_for(r, w, now) ==
    r.worker \in {NoWorker, w} \/ r.expires = NoTime \/ now >= r.expires

\* Mutant: a takeover keeps the lease version.
acquire_lease_unfenced(r, w, now) == [r EXCEPT !.worker = w, !.expires = now + TTL]

\* The same worker renews; anyone else fences the version forward.
acquire_lease(r, w, now) ==
    [r EXCEPT !.lv = IF r.worker = w THEN @ ELSE @ + 1,
              !.worker = w,
              !.expires = now + TTL]

\* Mutant: the owner is not cleared.
release_lease_keeps_owner(r) == [r EXCEPT !.expires = NoTime]

release_lease(r) == [r EXCEPT !.worker = NoWorker, !.expires = NoTime]

transition_event_kind(from, to) ==
    CASE to = "pending" -> "created"
      [] to = "running" -> IF from = "pending" THEN "started" ELSE "resumed"
      [] to = "validating" -> "validation_started"
      [] OTHER -> to

----------------------------------------------------------------------------
(* What the mutation transactions share *)

\* The contexts a call on task t may carry.  The lease version is only asked
\* whether it is behind the row's and the anchor whether it is equal, so one
\* of each stands for all (no anchor also for the one that is equal: it is
\* accepted like it); the session is one ensured for the task, or none when
\* that failed.
Ctx(t) ==
    [worker : Workers,
     lv : {tasks[t].lv - 1, tasks[t].lv} \cap Nat,
     anchor : ({tasks[t].version - 1} \cap Nat) \cup {NoAnchor},
     now : {n \in 0..clock : n + MaxDelay >= clock},
     session : {0} \cup {s \in DOMAIN sessions : sessions[s].task = t}]

Event(kind, c, r, from) ==
    [by |-> c.worker, key |-> NoKey, lv |-> r.lv,
     kind |-> kind, from |-> from, session |-> c.session]

\* The event row, and the event count of the session it is linked to; a
\* session closed since it was ensured still counts it.
record_event_in_tx(t, e) ==
    /\ Len(log[t]) < MaxLog
    /\ log' = [log EXCEPT ![t] = Append(@, e)]
    /\ sessions' = IF e.session = 0 THEN sessions
                   ELSE [sessions EXCEPT ![e.session].count = @ + 1]

Fresh(c, t) == tasks[t].status # "absent" /\ check_stale(tasks[t], c.anchor)

Holds(c, t) == enforce_lease(tasks[t], c.worker, c.lv)

\* One transaction: the row with its version bumped, and its event.
Commit(c, t, row, kind) ==
    /\ tasks[t].version < MaxVersion
    /\ tasks' = [tasks EXCEPT ![t] = [row EXCEPT !.version = @ + 1]]
    /\ record_event_in_tx(t, Event(kind, c, row, tasks[t].status))
    /\ UNCHANGED clock

Transition(c, t, row, to) ==
    /\ Commit(c, t, [row EXCEPT !.status = to], transition_event_kind(tasks[t].status, to))
    /\ UNCHANGED checkpoints

\* The event written first becomes the outcome's evidence.
WithOutcome(row, t, result) ==
    [row EXCEPT !.outcome = result, !.evidence = Len(log[t]) + 1]

----------------------------------------------------------------------------
(* The operations *)

\* A repeated (workspace, key) returns the existing task and writes nothing.
create_task(w, t, key) ==
    /\ tasks[t].status = "absent"
    /\ key = NoKey \/ \A o \in TaskIds : tasks[o].key # key
    /\ Len(log[t]) < MaxLog
    /\ tasks' = [tasks EXCEPT ![t] = [AbsentTask EXCEPT !.status = "pending", !.key = key]]
    /\ log' = [log EXCEPT ![t] = Append(@,
          [by |-> w, key |-> NoKey, lv |-> 0,
           kind |-> transition_event_kind("pending", "pending"), from |-> "pending",
           session |-> 0])]
    /\ UNCHANGED <<clock, checkpoints, sessions>>

start_task(c, t) ==
    /\ Fresh(c, t)
    /\ tasks[t].status = "pending"
    /\ lease_free_for(tasks[t], c.worker, c.now)
    /\ Transition(c, t, acquire_lease(tasks[t], c.worker, c.now), "running")

pause_task(c, t) ==
    /\ Fresh(c, t) /\ Holds(c, t)
    /\ task_transition_allowed(tasks[t].status, "paused")
    /\ Transition(c, t, release_lease(tasks[t]), "paused")

\* Mutant: a running task is taken over without looking at its lease.
resume_task_any_lease(c, t) ==
    /\ Fresh(c, t)
    /\ tasks[t].status \in {"paused"} \cup Live
    /\ Transition(c, t, acquire_lease(tasks[t], c.worker, c.now), "running")

resume_task(c, t) ==
    /\ Fresh(c, t)
    /\ tasks[t].status = "paused" \/ is_stale(tasks[t], c.now)
    /\ lease_free_for(tasks[t], c.worker, c.now)
    /\ Transition(c, t, acquire_lease(tasks[t], c.worker, c.now), "running")

\* Mutant: the result of an earlier validation is kept.
start_task_validation_keeps_result(c, t) ==
    /\ Fresh(c, t) /\ Holds(c, t)
    /\ tasks[t].status = "running"
    /\ Transition(c, t, tasks[t], "validating")

start_task_validation(c, t) ==
    /\ Fresh(c, t) /\ Holds(c, t)
    /\ tasks[t].status = "running"
    /\ Transition(c, t, [tasks[t] EXCEPT !.validation = "open"], "validating")

\* Mutant: a failed validation leaves the task validating.
record_task_validation_no_return(c, t, result) ==
    /\ Fresh(c, t) /\ Holds(c, t)
    /\ tasks[t].status = "validating"
    /\ Commit(c, t, [tasks[t] EXCEPT !.validation = result],
          IF result = "passed" THEN "validation_passed" ELSE "validation_failed")
    /\ UNCHANGED checkpoints

\* Passed arms the completion gate and stays validating; failed goes back.
record_task_validation(c, t, result) ==
    /\ Fresh(c, t) /\ Holds(c, t)
    /\ tasks[t].status = "validating"
    /\ Commit(c, t,
          [tasks[t] EXCEPT !.validation = result,
                           !.status = IF result = "passed" THEN @ ELSE "running"],
          IF result = "passed" THEN "validation_passed" ELSE "validation_failed")
    /\ UNCHANGED checkpoints

complete_task(c, t) ==
    /\ Fresh(c, t) /\ Holds(c, t)
    /\ tasks[t].status = "validating"
    /\ tasks[t].validation = "passed"
    /\ Transition(c, t, WithOutcome(release_lease(tasks[t]), t, "completed"), "completed")

fail_task(c, t) ==
    /\ Fresh(c, t) /\ Holds(c, t)
    /\ tasks[t].status \in Live
    /\ task_transition_allowed(tasks[t].status, "failed")
    /\ Transition(c, t, WithOutcome(release_lease(tasks[t]), t, "failed"), "failed")

\* Supervisory: needs no lease.  With a reason it records an outcome that
\* names no evidence.
cancel_task(c, t, reason) ==
    /\ Fresh(c, t)
    /\ task_transition_allowed(tasks[t].status, "cancelled")
    /\ Transition(c, t,
          IF reason THEN [release_lease(tasks[t]) EXCEPT !.outcome = "cancelled"]
                    ELSE release_lease(tasks[t]),
          "cancelled")

\* Appends evidence in any status; the row is untouched, a repeated key
\* writes nothing.
record_task_outcome(c, t, key) ==
    /\ tasks[t].status # "absent"
    /\ key = NoKey \/ \A i \in DOMAIN log[t] : log[t][i].key # key
    /\ record_event_in_tx(t,
          [Event("outcome", c, tasks[t], tasks[t].status) EXCEPT !.key = key])
    /\ UNCHANGED <<clock, tasks, checkpoints>>

\* The owner's checkpoint also renews its lease, whether or not it expired.
create_task_checkpoint(c, t) ==
    /\ Fresh(c, t) /\ Holds(c, t)
    /\ tasks[t].status \notin Terminal
    /\ checkpoints' = [checkpoints EXCEPT ![t] =
          Append(@, [lv |-> tasks[t].lv, state |-> tasks[t].status])]
    /\ Commit(c, t,
          [tasks[t] EXCEPT !.checkpoint = Len(checkpoints[t]) + 1,
                           !.expires = IF tasks[t].worker = c.worker THEN c.now + TTL ELSE @],
          "checkpoint")

\* No session, no event, no version bump.
heartbeat_task_lease(c, t) ==
    /\ Holds(c, t)
    /\ tasks[t].worker = c.worker
    /\ c.now < tasks[t].expires
    /\ tasks' = [tasks EXCEPT ![t].expires = c.now + TTL]
    /\ UNCHANGED <<clock, checkpoints, log, sessions>>

\* Mutant: terminal tasks accept skill references.
set_task_skill_refs_terminal(c, t) ==
    /\ Fresh(c, t)
    /\ tasks[t].version < MaxVersion
    /\ tasks' = [tasks EXCEPT ![t].version = @ + 1]
    /\ UNCHANGED <<clock, checkpoints, log, sessions>>

\* No lease check and no event; the references themselves are opaque.
set_task_skill_refs(c, t) ==
    /\ Fresh(c, t)
    /\ tasks[t].status \notin Terminal
    /\ tasks[t].version < MaxVersion
    /\ tasks' = [tasks EXCEPT ![t].version = @ + 1]
    /\ UNCHANGED <<clock, checkpoints, log, sessions>>

\* ensure_active_session, called before every mutation that writes an event
\* (task_session_id), looks for an active session in one transaction and opens
\* one here when it saw none.  Another process may have opened one meanwhile,
\* and the mutation may still be refused.
open_session(t) ==
    /\ tasks[t].status # "absent"
    /\ Len(sessions) < MaxSessions
    /\ sessions' = Append(sessions, [task |-> t, active |-> TRUE, count |-> 0])
    /\ UNCHANGED <<clock, tasks, checkpoints, log>>

\* Only an active session can be closed; any process may close it.
close_session(s) ==
    /\ sessions[s].active
    /\ sessions' = [sessions EXCEPT ![s].active = FALSE]
    /\ UNCHANGED <<clock, tasks, checkpoints, log>>

Tick ==
    /\ clock < MaxClock
    /\ clock' = clock + 1
    /\ UNCHANGED <<tasks, checkpoints, log, sessions>>

----------------------------------------------------------------------------
Init ==
    /\ clock = 0
    /\ tasks = [t \in TaskIds |-> AbsentTask]
    /\ checkpoints = [t \in TaskIds |-> <<>>]
    /\ log = [t \in TaskIds |-> <<>>]
    /\ sessions = <<>>

Mutation(c, t) ==
    \/ start_task(c, t)
    \/ pause_task(c, t)
    \/ resume_task(c, t)
    \/ start_task_validation(c, t)
    \/ \E result \in {"passed", "failed"} : record_task_validation(c, t, result)
    \/ complete_task(c, t)
    \/ fail_task(c, t)
    \/ \E reason \in BOOLEAN : cancel_task(c, t, reason)
    \/ \E key \in Keys \cup {NoKey} : record_task_outcome(c, t, key)
    \/ create_task_checkpoint(c, t)
    \/ heartbeat_task_lease(c, t)
    \/ set_task_skill_refs(c, t)

Next ==
    \/ \E t \in TaskIds : \E c \in Ctx(t) : Mutation(c, t)
    \/ \E w \in Workers, t \in TaskIds, key \in Keys \cup {NoKey} : create_task(w, t, key)
    \/ \E t \in TaskIds : open_session(t)
    \/ \E s \in DOMAIN sessions : close_session(s)
    \/ Tick

Spec == Init /\ [][Next]_vars

----------------------------------------------------------------------------
(* Properties *)

\* Type invariant: every table holds records of its schema.  Nothing in the
\* readers would notice if it did not: row_to_task takes an unknown status for
\* pending and row_to_checkpoint for running, so the writers have to see to it.
TypeOK ==
    /\ clock \in Nat
    /\ tasks \in [TaskIds -> TaskRecord]
    /\ checkpoints \in [TaskIds -> Seq(TaskCheckpoint)]
    /\ log \in [TaskIds -> Seq(TaskEvent)]
    /\ sessions \in Seq(SessionRecord)

\* A task names an owner, with an expiry and a fencing version past zero,
\* exactly while it is running or validating: start and resume take the lease,
\* pause and every terminal transition give it back in the same transaction.
LeaseIffLive ==
    \A t \in TaskIds :
        /\ (tasks[t].worker # NoWorker) <=> (tasks[t].status \in Live)
        /\ (tasks[t].worker # NoWorker) <=> (tasks[t].expires # NoTime)
        /\ tasks[t].worker # NoWorker => tasks[t].lv > 0

\* What only the owner may write: taking the lease, and every event of a live
\* task other than cancellation and outcome evidence, which need no lease.
OwnerWrite(e) ==
    \/ e.kind \in {"started", "resumed"}
    \/ e.from \in Live /\ e.kind \notin {"cancelled", "outcome"}

\* Fencing: all owner writes made under one lease version come from one
\* worker, and lease versions never go back along the history.  So a worker
\* that was taken over can never write into, or after, a newer owner's work,
\* whatever it read before (enforce_lease, acquire_lease_in_tx).
OneWriterPerLease ==
    \A t \in TaskIds : \A i, j \in DOMAIN log[t] :
        /\ i < j => log[t][i].lv <= log[t][j].lv
        /\ /\ log[t][i].lv = log[t][j].lv
           /\ OwnerWrite(log[t][i])
           /\ OwnerWrite(log[t][j])
           => log[t][i].by = log[t][j].by

\* Position i holds the task's last lifecycle event before position n.
LastLifecycle(t, i, n) ==
    /\ i \in DOMAIN log[t] /\ i < n
    /\ log[t][i].kind \notin Notes
    /\ \A j \in DOMAIN log[t] : i < j /\ j < n => log[t][j].kind \in Notes

\* Completion gate: the lifecycle event before a completion is a passed
\* validation recorded by the same worker under the same lease; no takeover,
\* failed result or restarted validation lies between (complete_task).
CompletionFollowsPass ==
    \A t \in TaskIds : \A n \in DOMAIN log[t] :
        log[t][n].kind = "completed" =>
            \E i \in 1..(n - 1) :
                /\ LastLifecycle(t, i, n)
                /\ log[t][i].kind = "validation_passed"
                /\ log[t][i].lv = log[t][n].lv
                /\ log[t][i].by = log[t][n].by

\* The status a lifecycle event leaves the task in.
StatusAfter(kind) ==
    CASE kind = "created" -> "pending"
      [] kind \in {"started", "resumed", "validation_failed"} -> "running"
      [] kind \in {"validation_started", "validation_passed"} -> "validating"
      [] OTHER -> kind

\* Atomicity of row and event: the status of the row is the one its last
\* lifecycle event leads to, the event before each event explains its
\* from_status, and the evidence of an outcome is the event that ended the task.
HistoryMatchesState ==
    \A t \in TaskIds :
        /\ tasks[t].status = "absent" <=> log[t] = <<>>
        /\ tasks[t].status # "absent" =>
              \E i \in DOMAIN log[t] :
                  /\ LastLifecycle(t, i, Len(log[t]) + 1)
                  /\ StatusAfter(log[t][i].kind) = tasks[t].status
        /\ \A n \in DOMAIN log[t] : n > 1 =>
              \E i \in 1..(n - 1) :
                  LastLifecycle(t, i, n) /\ StatusAfter(log[t][i].kind) = log[t][n].from
        /\ tasks[t].outcome # "none" => tasks[t].outcome = tasks[t].status
        /\ tasks[t].status \in {"completed", "failed"} =>
              /\ tasks[t].outcome = tasks[t].status
              /\ tasks[t].evidence \in DOMAIN log[t]
              /\ log[t][tasks[t].evidence].kind = tasks[t].outcome

\* A terminal task is frozen: its row and its checkpoints never change again
\* and its history only grows by outcome evidence.
TerminalFrozen ==
    [][\A t \in TaskIds : tasks[t].status \in Terminal =>
          /\ tasks'[t] = tasks[t]
          /\ checkpoints'[t] = checkpoints[t]
          /\ Len(log'[t]) >= Len(log[t])
          /\ \A i \in DOMAIN log'[t] :
                IF i \in DOMAIN log[t] THEN log'[t][i] = log[t][i]
                                       ELSE log'[t][i].kind = "outcome"]_vars

\* The lease of every task, as another process sees it.
LeaseView ==
    [t \in TaskIds |->
        [phase |-> IF tasks[t].status \in Terminal THEN "over" ELSE "open",
         owner |-> tasks[t].worker,
         fence |-> tasks[t].lv, until |-> tasks[t].expires]]

Lease == INSTANCE TaskLease WITH
    Tasks <- TaskIds, Nobody <- NoWorker, Never <- NoTime, now <- clock, lease <- LeaseView

\* The task runtime implements the lease contract: whatever stale contexts
\* calls carry, every step of every operation takes, renews, gives back or
\* ends a lease as TaskLease allows, or does not touch it; no live lease is
\* taken over, none outlives its length unless renewed, no takeover keeps the
\* fence (acquire_lease_in_tx, enforce_lease, transition_task_impl).
ImplementsLease == Lease!Spec
============================================================================
