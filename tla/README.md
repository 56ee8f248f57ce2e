# CodeBro: TLA+ models, checks and proofs

CodeBro is an MCP server (Rust, `src/crates/`) that gives coding agents durable
project context, tasks, learned preferences and skills, guarded file changes and
sandboxed verification. This directory holds TLA+ models of the parts whose
correctness depends on the order of events, the TLC configurations that check
them on small instances, and TLAPS proofs about the most important ones.

Paths below are relative to `src/crates/`. Run a model with
`tlc -workers 2 -config <cfg> <module>` and a proof with `tlapm <module>.tla`.
`PROJECT.json` maps every definition to its source lines.

## 1. Inventory

### How the parts hang together

One server process serves several workspaces; several processes may serve the
same user, and they share one SQLite file (`state.db`) and one skills directory.
Inside a process, tool handlers are async tasks. There are three kinds of
mutual exclusion and they cover different things:

| Mechanism | Scope | What it does not cover |
|---|---|---|
| SQLite transaction (`db.rs`) | one closure of one handler | two closures of the same handler; files |
| `mutation_lock` (`mcp-server/src/workspace_registry.rs:123`) | handlers of one workspace in one process | other workspaces (global rows are shared), other processes, editors |
| `journal_lock` (`workspace_registry.rs:133`) | recording handlers of one workspace in one process | readers of the journal, other processes |

Almost everything hard in this code sits in the gap between those scopes: a
handler that is a sequence of closures and system calls, with another handler,
a crash or an editor in between.

### Components

| Component | State | Operations | What is hard | What makes it correct |
|---|---|---|---|---|
| Task runtime `context-runtime/src/tasks.rs` | tasks, checkpoints, task events, task-bound sessions | create, start, pause, resume, validate, complete, fail, cancel, checkpoint, outcome, skill references | stale contexts of several processes, lease expiry and takeover | one owner per lease version, gated completion, history equal to state |
| Change engine `change-engine/src/coding/` | files, per-workspace recent edits and history | `apply_change`, `apply_changes`, verification, rollback | partial failure, outsiders, crashes | all or nothing, honest reports, isolation, termination |
| Patch engine `core/src/tools/patch.rs` | one file | diff, hunks, rebuild, exactness gate | index arithmetic on a changed file | only the declared target is written |
| Skill registry `context-runtime/src/skills.rs` | skills, versions, candidates, `SKILL.md` | approve, rollback, deprecate, publish | database and file system without a common transaction | one immutable chain, file equal to registry |
| Skill review `skills.rs`, `skill_approvals.rs` | candidates, approval requests | propose, evaluate, promote, request, answer, expire | status checked in one closure and written in another | invalid content stays out, requests are single-use |
| Learning `context-runtime/src/learning.rs`, `store.rs` | events, hypotheses, context records | detect, evaluate, confirm, reject, sweep, forget | cut-offs between record and row, global rows | no duplicate or stale inference, the user's word stands |
| Evidence journal `sandbox-runtime/src/sandbox/` | journal file, tree hash | record, retain, quarantine, assess, completion gate | concurrent recordings, limits, hash as identity | no lost evidence, no unbacked completion |
| Context database `context-runtime/src/db.rs` | `state.db`, its log, quarantined files, cached connections | open, retry, migrate, check, quarantine, rebuild | several processes recover one file without a common lock | only damage costs a database, no use before the schema is there, damage does not stay |
| Records and intent `store.rs`, `mcp/mod.rs` | context records | remember, supersede, complete, forget | check-then-insert over two statements, ids that end in a second | one successor per version, no fork without an overlap |
| Sessions and history `history.rs`, `history_capture.rs` | sessions, events, cached counts | capture, resume, open, close | a session closes under a capture, two closes race | counts equal events, nothing happens twice |
| Portability `portability.rs` | an import bundle, its plan, its id map | plan, then sessions, events, records one by one | failure after some rows, re-run, tool calls beside it | converges, repeats nothing, cites the right rows |
| Shell, pty, cancellation `core/src/tools/shell.rs`, `pty.rs`, `core/src/cancellation.rs` | child processes, pipe, reader thread, event channel | spawn, poll, interrupt, kill, drain, report | everyone may wait for everyone; exit, deadline and cancel at once | ends with one verdict, complete output, nobody left waiting |
| Workspace registry | fact cache, locks | get, refresh | staleness by modification time | cache planned; locks are in the modules that use them |
| Memory runtime, engineering memory | entries, tier index | insert, promote, retain, snapshot | two locks | planned |
| Project identity | canonical file, seven views | save | crash between files | planned |
| Skill evolution, reuse, validation, selection; impact engine; indexer cache | derived | detection passes, graph queries | pure functions over bounded input | planned as operators |

Not planned, with the reason: retrieval and recall (floating-point ranking over
full-text search), fact queries and fact store (immutable, rebuilt whole),
parsers (tree-sitter text processing), provenance and configuration (static),
briefs and packets (text assembly), consultant and providers (external models),
command line and doctor (input and output), `jev_shadow` (an observer).
`PROJECT.json` lists all 32 components with their status, and under `hazards`
the 40 places of the source where something can go wrong that a test would
hardly reach, each with the properties that would notice.

## 2. Modules

| Module | Models | Extended by |
|---|---|---|
| `TaskRuntime` | task rows, leases, checkpoints, events, sessions | `MCTaskRuntime`, `TaskRuntimeProofs` |
| `TaskLease` | the lease contract of the task runtime, abstractly | instantiated by `TaskRuntime` |
| `ChangeTransaction` | the change engine under `mutation_lock` | `MCChangeTransaction`, `ChangeEngineProofs` |
| `SnapshotTx` | an all-or-nothing transaction over files, abstractly | instantiated by `ChangeTransaction` |
| `PatchEngine` | diff, hunks and rebuild as operators, and the gate | `MCPatchEngine`, `ChangeEngineProofs` |
| `SkillPublication` | publication, rollback, deprecation | `MCSkillPublication`, `SkillPublicationProofs` |
| `SkillReview` | candidates and approval requests up to publication | `MCSkillReview`, `SkillReviewProofs` |
| `Learning` | one hypothesis, its records and its handlers | `MCLearning`, `LearningProofs` |
| `EvidenceJournal` | journal, tree hash, completion gate | `MCEvidenceJournal`, `SandboxProofs` |
| `StateDb` | opening, migrating and recovering `state.db` | `MCStateDb`, `StateDbProofs` |
| `Sessions` | sessions, events and the capture that ends a tool call | `Records` |
| `Records` | remember and forget, over `Sessions` | `ContextImport` |
| `ContextImport` | the import, composed with the calls of `Sessions` and `Records` | `MCContextImport`, `ContextImportProofs` |
| `CommandRun` | one command, its processes and the threads that run it | `MCCommandRun`, `SandboxProofs` |

Conventions. A step is the largest thing the code makes atomic: one SQLite
transaction, or one system call. A handler that spans several has a program
counter in `call` (or a list of closures still to run, in `SkillReview`). A
refused call changes nothing and is a guard that is false, unless the refusal
leaves something behind. "Cut off" is the step that ends a handler between two
of its own: a crash of the process or a failing database call. Operators whose
name ends in a suffix (`Lookup_skipped`, `TakeLock_busy`) are faulty variants of
the definition that follows them: they document which error each property
catches, and no specification uses them.

**TaskRuntime.** Contexts carry the worker, lease version, row version, time and
session a call believed in before its mutation; `Ctx(t)` lets all of them be
stale. The mutation is one step because SQLite only turns a read snapshot into a
write when nothing was committed in between. Left out: timestamps other than the
lease's expiry, free text, skill reference contents. Which evidence blocks a
completion is `EvidenceJournal`'s subject.

**TaskLease** is what the task runtime promises about ownership, with the status
machine, contexts, transactions and events taken away: a lease is taken when it
is free, has run out or is one's own, the fence rises when the owner changes, a
deadline is at most a TTL ahead, and a task that is over is never owned again.
`TaskRuntime` maps a row to `[phase, owner, fence, until]` (`LeaseView`; a task
that does not exist yet is an open, unowned one) and `ImplementsLease` says that
every step is then a step of `TaskLease` or leaves the lease alone.

**ChangeTransaction.** `Arrive`, `Acquire`, then one step per system call:
snapshot, conflict pass, staleness check, truncating write, verification,
restore. `Outsider` writes any file at any time, `Fault` lets one call of the
operating system fail, `Crash` ends a server (nothing about a transaction is
persisted). Symlink containment is a possible refusal; strict mode and plans are
never set by the server.

**SnapshotTx** is what the change engine promises to whoever looks at the files
between two calls, with passes, snapshots, system calls and restores taken away:
transactions take turns; one that ends has given every file it names the content
it wants (`Commit`), or has changed nothing but what it names as not put back and
one file whose write failed (`Undo`); a crash leaves in each named file the old
content, a wanted one or half of one (`Lose`); a file an outsider writes during a
turn is no longer covered (`touched`, `Race`). In the view of `ChangeTransaction`
the store is the disk without the work of the call in flight (`StoreView`: what
the call found when it took the lock, for every file no outsider has written
since), so nearly all its system calls are stutters, and a call takes effect in
its last step.

**PatchEngine.** Texts are sequences of lines `[sign, body]` with a final-newline
flag; `cr` is the set of the lines that end in CR LF. `str::lines` hides these from
the diff and the rebuild ends every line with LF, so the gate, which compares bytes,
refuses any target with one. The reference is the declared target itself: the rebuild
is compared with it over every snapshot, target and present content.

**SkillPublication and SkillReview.** The first has the reads, the temporary file, the
rename, and the closing transaction as separate steps over inodes, for two lineages
that share one name. The second has candidates and requests, with publication as a
gate and a transaction. A request's key is its candidate, its action and its
workspace, so several may be pending for one candidate; a request answered with a
modification ends `superseded`, here called `replaced` when it names a successor
request. Left out: import of skills, health counters, listings.
`expire_skill_candidates` is called by nothing but tests; it is an action of
`SkillReview` all the same.

**EvidenceJournal.** The tree hash is what `RepoState::capture` computes: tracked
names, the multiset of changes against HEAD (the bytes are sorted before they
are hashed) and the multiset of untracked contents; HEAD itself is not hashed.
The names of failed tests only label an answer (`summarize_prior`) and are left out.
Recording is load, quarantine, retention, append, rename. One server writes the
journal, as `workspace_registry.rs:133-136` says. Left out: `MAX_BYTES`, the
truncation of failed-test lists, redaction, the age shown to the user.

**Learning.** One hypothesis: counters of supporting and contradicting events, the
candidate row, the context records of its namespace with ids that end in a second.
Clustering, wording and the confidence arithmetic are a choice bounded by the counts.
The search for the active inference reads at most 50 active records of the kind and
filters by namespace afterwards; the other records are not there, so `Lookup` may miss
the inference, and `missed` counts how often. The TTL sweep of records has no caller
outside tests.

**StateDb.** Files and logs are indices, `path` and `log` the directory entries,
so that a connection can outlive the rename of its file. One step is one SQLite
statement or one system call of `open_with_recovery`; `Leave`, `Folded` and
`Checkpoint` are what SQLite does with the log as far as the code relies on it.
The migrations are one mark, because they run in one transaction and probe for
what is there. A verdict of corruption is about a damaged file (`FoundCorrupt`) or about
a sound one that a sibling is using or replacing (`FoundSpurious`: "a transient can mimic
corruption", `db.rs:143`); retries and gate are the same for both.

**Sessions, Records, ContextImport.** Three layers over one database. `Sessions` has
`record_event_in_tx`, the one transaction all history goes through, the capture
(`ensure_active_session`, then `record_history`) and the close of a session. `Records`
has `remember` with its lookup, id and insert as separate steps, `supersede_impl` and
`forget`. `ContextImport` adds the import, row by row in the dependency order of
`import_mirror`, with the plan made from rows read before the first write, and a
second run after a failure. An event or a record carries what it is about, so that a
citation can be compared with what it should name. The search for a clash may have
missed any of the active records (`seen`), since it reads 100 of the kind over all
namespaces. A session and a record are imported with the status, and a record with the
predecessor, they have in the bundle; captures and closes then meet the imported
session. The bundle is another device's and whole (`BundleAssumption`): its history
has nothing twice and no key twice, as `HappenedOnce` and the UNIQUE index on
`dedup_key` see to there, and its records cite its own events, as an export of all
tables has them. What happens to other bundles is under the disagreements of section
3. Redaction, integrity checks, skills in a bundle and the dry run are left out.

**CommandRun.** `mode` is `pipe` (`execute_child`) or `pty` (`spawn_pty`); both
share the waiter's program counter and differ where the code does (group signals
and graces, the mark before the terminal event, the bounded channel). The command
is a leader and at most one helper, each of which may ignore SIGINT and SIGHUP,
write, hold the stream open or leave the group. Chunks are counted, not stored. A
drain grace may end at any moment (`cut`), for a held stream or a slow reader alike. A
poll that fails because somebody else has reaped the leader is not modelled: nobody
else does.

## 3. Runs

Passing runs. Where the full product of the bounds is out of reach, the MC
module defines *slices*: an action constraint keeps TLC inside a union of
sub-spaces, each with its own bounds, so that each combination a property needs
is explored in full while unrelated ones are not multiplied.

| Run | Bounds | Shows |
|---|---|---|
| `task_runtime` | 2 workers, clock to 2 with TTL 1, calls up to 1 late; slice *Leases*: 1 task, every operation, steps up to a log of 5; slice *Completions*: 1 task that is validated, taken over or failed once and validated again, logs of 8; slice *Sessions*: 2 tasks, a key, a session | `LeaseIffLive`, `OneWriterPerLease`, `CompletionFollowsPass`, `HistoryMatchesState`, `TerminalFrozen`, and the refinement `ImplementsLease` |
| `change_transaction` | 2 files, 2 contents, 2 calls, 1 outside edit, 1 fault, 1 crash; one call of any shape beside an edit or a crash, or two calls on one file | `Isolation`, `AllOrNothing`, `RollbackOnlyApplied`, `CallsReturn`, and the refinement `ImplementsTransaction` |
| `patch_engine` | every triple of texts of up to 2 lines, plain and tag-like, with and without final newline and carriage returns | `RoundTripsUnmarked`, `AddedLinesKept` |
| `skill_publication` | 2 lineages, 3 contents, 2 calls out of 3 (one lock, or two processes), histories of 0 to 2 versions, 1 edit, 1 cut-off; in turn also two candidates anchored on the one published version | `LineageConsistent` always; `AnchorRespected` (a publication replaces the version its handler was told to replace, always; the one its candidate names, under one lock); `LiveMatchesRegistry` under one lock |
| `skill_review` | 3 contents (one invalid), 2 actions, 2 handlers, 2 workspaces, 2 processes, 2 requests, 2 versions; slices *Turns*, *Invalid*, *Time*, *Races* | `ValidOnly`, `SingleUse` always; `ConsumedMeansDone` under one lock |
| `evidence_journal` | 2 files, 2 contents, 2 handlers, 3 invocations, 3 observations over a limit of 2, ages over 1; slices *Gate*, *Ages*, *Corrupted*, *Trees* | `EvidenceKept`, `CompletionBacked`, `RerunUnblocks` |
| `learning` | 2 handlers, 2 workspaces, 2 events each way, 3 records, 2 seconds, 1 search that falls short; slices *Turns*, *Races* | `UserWordStands` always; `OneActiveInference`, `LinkedKnowledge`, `VerdictKept` for handlers that take turns |
| `state_db` | 2 processes, 2 attempts, 3 files, 1 caller's transaction, 1 mishap (damage, a failure, a death, or mimicry that lasts to the last attempt); the file absent, old, current or newer, sound or damaged, with a log left behind | `SchemaBeforeUse`, `QuarantineFollowsEvidence`, `DamagedReplaced` |
| `context_import` | 2 calls of any kind beside each other, or 1 beside an import of a session (active or completed), 2 events and 2 records, one in the place of the other; 1 import cut off, 2 seconds; any search may miss rows; the session and the records here already or not | `CountsMatch`, `HappenedOnce`, `OneSuccessor`, `CitationsFaithful`, `ForkNeedsOverlap`, `ImportConverges` |
| `command_run` | 3 chunks, a pipe of 1, a cap of 2, a channel of 2, a leader and a helper | `EndsOnce`, `CompleteOutput`, `SignalsOwnGroup`, `RunsEnd`, `WriterNotStuck` |

No run spends itself on types: they are a part of the inductive invariants and are
proved (section 4).

Why the bounds are enough for the questions asked: fencing, takeover and lost updates
are disagreements between two actors, so two workers, handlers or processes; a
takeover needs a lease to expire once and the new owner's to expire again, so a clock
of 2 with TTL 1; a completion that could rest on somebody else's pass has a pass, a
takeover or a failed result, and a second validation before it, so eight events; a
stale candidate meets the anchor check when two were proposed on one version, so three
contents; two requests for one candidate differ in action or workspace, so two of
each; retention is exercised by one record more than the limit; all-or-nothing needs
one file already written and one failing, so two files; a version race needs a current
version, a published one and a rollback target, so histories of up to two; a rebuild
goes wrong at the first line, the last line or past the end, so two lines; a lost
replacement of the database needs the damaged file, the first one's replacement and
the second's, so three files; an id collision needs two calls of one second and a
later one; a full channel in front of a full pipe needs one chunk more than either
holds. Symmetry is used for handlers, workers, workspaces, files and contents in runs
without liveness.

Deadlock is checked in `skill_review` and `learning`, whose handlers must always
find a next step. The others stop legitimately: a finite set of calls has
returned, the bounds of the clock and the logs are spent, or all tasks are
terminal and no request comes.

**Fairness.** Weak fairness only, of what the scheduler or the clock always
brings on:

- `change_transaction`: each call's own steps (no await inside a transaction, so
  a scheduled handler runs on) and `Acquire` (tokio's mutex is FIFO). Arrivals,
  outsiders, faults and crashes are not fair, and the slices of the run
  constrain unfair actions only.
- `state_db`: `Start` (calls keep coming to a server that has no connection) and
  the steps of an open that has begun. Writes, damage, failures and deaths are not.
- `context_import`: the steps of the import and its second run, which is what the
  operator does with an import that failed. Tool calls, cut-offs and time are not.
- `command_run`: the waiter and the reader thread, the consumer's receive, and
  the deadline. The processes of the command need not do anything at all, which
  is why `RunsEnd` rests on deadline, SIGKILL and the graces.

Violation runs: what a comment of the repository says, refuted by what the code
does.

| Run | Claim | Counterexample |
|---|---|---|
| `state_db_healthy` | `context-runtime/src/db.rs:175`, and the test at `:1853`: a healthy database is never quarantined | two processes have found the same file damaged; the first replaces it, the second's gate sees a file that stays still and renames the replacement aside |
| `skill_never_partial` | `context-runtime/src/skills.rs:998`: `SKILL.md` is fully written or absent | two workspaces publish a global skill through one temporary file name |

Further disagreements met while modelling, shown by TLC on variants of these
runs or read off the code, and not carried by a run of their own:

- tasks: a checkpoint renews a lease that has already expired (`tasks.rs:2323`),
  which `docs/evolution/P5_POST_IMPLEMENTATION_AUDIT.md:183` describes otherwise;
- changes: a write that fails has truncated its file, and that file is not among
  the ones rolled back (`transaction.rs:198`), although `:15` promises the exact
  earlier state; the staleness check and the write of one file are two system
  calls (`change_engine.rs:234`), so an editor's save in between is overwritten
  although `:200` says it never is; an unchanged line that begins with `-` or `+`
  is taken for a tag and the edit is refused for ever (`patch.rs:216`), although
  `:21` says that the rebuild reproduces the target byte for byte; for the same reason
  an edit whose target has a CR LF is refused for ever (`:67`), which makes every edit
  of a CRLF file fail unless it takes all carriage returns out;
- skills, two locks at once: the name check races (`skills.rs:2207`), a verdict
  may be overwritten (`:2442`) and the status matrix left (`:1664`); one lock: a
  call cut off after the file was published makes every retry refuse
  (`:2345`), a missing file can never be deprecated (`:2688`), candidates
  without an anchor are published over any version (`:2239`), and a modification
  cut off early leaves its parent open (`skill_approvals.rs:886`); with three
  calls, a candidate read without an anchor while its name was vacant, then
  withdrawn, proposed again with an anchor and published by another process, is
  published once more by the first (`:2239`): this is why the second half of
  `AnchorRespected` is about one lock;
- journal: a clean tree has one hash at every commit with the same names, because
  HEAD is not hashed (`repo_state.rs:155`), although
  `evidence_journal.rs:473` says that any edit changes the hash; two changed files
  that swap contents keep it (`repo_state.rs:149`), the tree is captured after the
  run (`sandbox/mod.rs:999`), commands and filters are clamped before they are
  compared (`evidence_journal.rs:213`);
- learning: a pass of another workspace that has read a global row writes its
  status over a user's rejection (`learning.rs:1645`), although `:1090` says that
  a "no" sticks; a pass cut off between `evaluating` and its verdict leaves a stale
  inference (`:1773`), a cut-off confirmation a second one (`:2070`), two
  workspaces insert two (`:1968`); the search for an inference reads 50 records of the
  kind before it looks at the namespace (`:2001`), so beyond them every pass may insert
  another, although `:1922` says that re-running converges; expired rows are not revived
  (`:2121`);
- records: two calls of one second mint the same id and `put_record` replaces the
  row of the other (`mcp/mod.rs:6203`, "collision-free"; `:2797`, "never
  overwritten"); `remember` looks and inserts in two statements (`:2725`), and the search
  reads 100 records of the kind over all namespaces (`:6236`), so beyond them a later
  call forks a namespace by itself, although `:2721` says that "history is never
  silently forked";
- sessions: two processes that close one session both write an ending, the later
  one wins (`history.rs:932`);
- import: a row changed by a tool call between the plan and its turn is
  overwritten, newer or not (`portability.rs:559`; `:31`, "No newer state
  overwritten"); after an import without `--map`, one with it fails for ever when a
  record cites an event that has a key of its own, because the event stays with
  the other workspace; status and predecessor are stored verbatim
  (`portability.rs:1047`, `store.rs:168`), so that the other device's successor of a
  shared record stands as a second active one beside a local successor, and a session
  exported while active stays active here, its ending imported later or not
  (`history.rs:846`); an import on the exporting device itself repeats events
  without a key; a cited id that is not in the bundle is kept and may then name an
  unrelated local event (`:803`);
- database: quarantine renames the log after the database, so the log of a
  replacement made in between is taken away (`db.rs:64`); corruption mimicked by a
  sibling up to the last attempt costs a healthy database, because in WAL mode the gate
  does not see the sibling's commits (`:183`);
- commands: the reader checks the mark, the waiter marks and sends, the reader
  sends, so output can follow the terminal event (`pty.rs:395`, "no `Output` ever
  follows the terminal event"); a helper that ignores SIGINT survives when the
  leader ends within the grace (`:246`, "terminates the whole tree"); `run_pty`
  holds the slave end until it returns, so that the reader never sees the end of
  the output and every run waits out the drain grace (`:205`); when the reading end
  cannot be cloned the child is neither killed nor reaped (`:241`);
  `CancellationToken::cancelled` can miss a notification between its check and
  its wait (`cancellation.rs:64`; no caller outside tests).

## 4. Proofs

Eight modules hold the proofs: one for each component, except that
`ChangeEngineProofs` is about the change engine and the patch engine and
`SandboxProofs` about commands and the evidence journal. Each is about every value
of the constants: any number of workers, calls, processes, files, lines, rows and
contents, any history to begin with, any bound. They rest on the named assumptions
of the modules they extend (`ConstantsAssumption` and the like: distinct sentinels,
bounds in `Nat`, well-formed tables of inputs), which TLC evaluates in every run; on
`BundleAssumption`, whose content section 2 explains; and `CompletionIsBacked` on
`MatchingSound`, below. Every safety property that a passing run checks, invariant or action
property, is a theorem, and so are the two refinements; the arguments:

**TaskRuntimeProofs.** `MutationEffect` sums up in one disjunction what any
operation may do to a row, and `NextEffect` carries it over to the whole step;
what follows is inductive over that summary.

- `TypeCorrect` (`TypeOK`): every edit of a row is a row, an appended event is an event.
- `LeaseCorrect` (`LeaseIffLive`), inductive together with `TypeOK`.
- `FencingCorrect` (`OneWriterPerLease`): nothing in the property relates the log
  to the row, so it is strengthened by `FencedLog`: no event has a higher lease
  version than the row, versions ascend along the log, owner writes of one version
  have one author, and those of the present version are the present owner's while
  there is one.
- `CompletionCorrect` (`CompletionFollowsPass`) and `HistoryCorrect`
  (`HistoryMatchesState`), from `HistoryInv`: the last lifecycle event of the log
  explains the row's status, and a row validated as passed ends in a pass of its
  present lease and owner (`Current`); every event starts where its predecessor
  ended (`Chained`); an outcome's evidence is the event it names (`OutcomeRow`).
- `TerminalCorrect` (`TerminalFrozen`), an action property, from the summary.
- `LeaseImplemented` (`ImplementsLease`): the refinement. Each case of the summary
  is mapped to an action of `TaskLease` or to a stutter under the view. It needs
  `LeaseIffLive`, because the contract's guard on taking is about the owner and the
  code's about the status, and `UnbornFree` (a task that does not exist has the row
  of a fresh one), because `create_task` is then a stutter.

**ChangeEngineProofs.** For `ChangeTransaction`,
`IInv == TypeOK /\ LockInv /\ CallInv`. `LockInv`: a call in flight holds the lock.
`CallInv` says how far a call is, by the pass it is in (`Progress`), and of every file
no outsider has written since the call took the lock what it holds (`Clean`): what was
there, the call's own work or a torn half of it; snapshots are what was there; a file
with nothing applied is untouched; what has been read back is what was prepared; what
the rollback has passed is restored or noted. One file may be named by several
changes, so each clause is about all changes of a file.

- `IsolationCorrect` (`Isolation`) is a consequence of `IInv`.
- `AllOrNothingCorrect` (`AllOrNothing`): every way to answer, and every failure of
  a system call before it, finds its clause of `Clean`.
- `RollbackCorrect` (`RollbackOnlyApplied`): a rollback is at or below `applied`.
- `TransactionImplemented` (`ImplementsTransaction`): the refinement. `StepEffect`
  sums up what a step of a handler may do (its request, its snapshot of the
  workspace and the disturbed files stay, it writes at most one file and has
  prepared a change of it, and when it returns it releases the lock and leaves the
  files alone); such a step is a stutter under the view, or `Race`. The step that
  returns is `Commit` or `Undo` (`ReturnImplements`, from the same lemmas as
  `AllOrNothingCorrect`), and `Clean` says what a crash leaves. The second
  invariant it needs is `AskedInv`: the changes are the ones requested, in their
  order, what is noted as not restored was requested, and a call that waits has
  been disturbed by nobody.

For `PatchEngine`, what diff, hunks and rebuild come to for texts of any length is
an induction over rows, which is made without an induction rule: of the rows at
which the claim fails there would be a least one (`LeastOf`, from the
well-foundedness of `Nat`), and one row more than a good prefix is good
(`RowMeans`). `RowsMean` is the claim: what the hunk lines of the first n rows
output is the first n lines of the new text, and as many of them are counted as old
lines as the old text has among its first n. The library's `FlattenSeq` is
tied to `\o` in the same way (`FlattenAppend`).

- `PatchRoundTrips` (`RoundTripsUnmarked`): the final newline and the trailing blank
  lines survive the rebuild (`ReconstructIsTarget`), so a patch refuses its own
  snapshot only over a line that looks like a tag or a carriage return in the target;
  and what is rebuilt has none, so nothing with one is written (`WrittenIsPlain`).
- `AddedLinesSurvive` (`AddedLinesKept`): the hunk of an edit covers the snapshot's
  lines at the most, so the rebuild ends with the file's own lines from there on, less
  blank ones at the end (`TailSurvives`).
- `PatchIsExact` (`ExactTarget`): success means the declared target, whatever the file
  has become. It rests on the comparison in `apply` alone, and is a theorem only.

**SkillReviewProofs.** A handler is a list of closures still to run, so the
invariant is about programs: which closure may stand where (`Grammar`: a write
follows its check, a transaction its gate, consuming a request its effect), and, under one
lock, what the first closure may count on (`Ready`), which rows no closure of the
program touches (`Spared`), and that consumed requests tell the truth (`Truthful`).

- `ValidCorrect` (`ValidOnly`), for every interleaving, inductive with `Grammar`.
- `ConsumedCorrect` (`ConsumedMeansDone`), under one lock, from `Truthful`: with several
  requests pending for one candidate, nothing that a second answer runs may leave the
  status a consumed one speaks of, and the parent is closed before the request is
  `replaced`.
- `SingleUseCorrect` (`SingleUse`), for every interleaving.

**SkillPublicationProofs.** Three layers. `RegistryInv` holds for every
interleaving: what a handler took from rows it read some closures ago is still a
lower bound of what they say (`Moving`). `TurnsInv`: under one lock the handler at
work finds the rows as it read them (`Turn`). `FileInv`: when nothing else has
touched the file and nobody was cut off between its two effects, file, temporary
file and descriptor are what the handler's program counter says.

- `LineageCorrect` (`LineageConsistent`), `AnchorCorrect` (`AnchorRespected`),
  `FileCorrect` (`LiveMatchesRegistry`), one from each layer.

**LearningProofs.** `Backlinks`: the record linked by an accepted row, by a row
some handler has read as accepted, or found by an evaluation in flight, is an
inference; it survives races because records are never dropped and never change
their authority. `TurnsInv`: under one lock at most one handler runs, there is at most one
active inference and one for each search that fell short, and, while none did and no
handler was cut off (`Clean`), what the handler has read about both still holds.

- `BacklinksCorrect`; `UserWordCorrect` (`UserWordStands`) for every interleaving,
  from `Backlinks`.
- `OneInferenceCorrect` (`OneActiveInference`), `LinkedCorrect`
  (`LinkedKnowledge`) and `VerdictCorrect` (`VerdictKept`), from `TurnsInv`.

**StateDbProofs.** `IInv`: a connection is to a file that nobody of a later build
wrote, and reads the schema from the migration on, from the file or from the log
it holds; a process about to rename has found its evidence (`RecordOK`); no log
brings in a later version; nobody is connected while a newer file is at the path.

- `SchemaCorrect` (`SchemaBeforeUse`) and `QuarantineCorrect`
  (`QuarantineFollowsEvidence`): the evidence is damage of the file the last attempt
  failed on, or all attempts and mimicry at the last of them.

**ContextImportProofs** covers `Sessions` and `Records` as well. The parts of
`IInv`, which holds for any calls beside any import, cut off and run again at any point:

- `Keyed`: an event has the key of a session's ending, or of an event of the
  bundle in this workspace, exactly when it is that happening. So the probe by key
  in `record_event_in_tx` finds precisely the happening, whichever of the capture,
  the close and the import stored it: `OnceCorrect` (`HappenedOnce`). It needs that
  a call's capture is its last act and its observation its first (`Unrecorded`).
- `Numbered` sessions (a new one is never confused with the bundle's) and events
  linked only to sessions that are there: `CountsCorrect` (`CountsMatch`), with
  lemmas on what an append and an import do to the number of linked events, also when
  captures resume the session the import has inserted.
- `Versions`: no two rows are of one version, and no active row is of a version that has
  a successor stored by a call: `SuccessorCorrect` (`OneSuccessor`). An import and an id
  collision replace rows, and drop successors with them; what an import brings as a
  successor is its own row, and the property excepts it.
- `Cited`, `ImportOK` (the translated ids of the events imported so far) and
  `CallOK` (an observation is the row its call noted): `CitationsCorrect`
  (`CitationsFaithful`).
- `CallOK` (when the search of a call had seen every active record, whatever is active
  now and was not then is younger than the look): `ForkCorrect` (`ForkNeedsOverlap`).

**SandboxProofs.** For `CommandRun`: `VerdictInv`, `GroupInv` (up to the last
signal the leader has not been reaped), `EndingInv` (the terminal event is the last
thing the worker sends) and `OutputInv` (what a reader has kept is what it has
read, up to the cap): `OwnGroupOnly` (`SignalsOwnGroup`), `EndsOnceCorrect`
(`EndsOnce`), `OutputComplete` (`CompleteOutput`).

For `EvidenceJournal`, `JournalInv` relates the file to `observed`, the log of
everything that was ever recorded. What is in the file, and in the copy that each
handler has read of it, is an end of that log (`Ends`) and, unless the file was
corrupted, lacks nothing that retention protects (`Protected`: the newest
`MaxRecords` that are not too old). It is inductive because recording handlers
hold `journal_lock`, so the copy one writes back is not behind the file, and because
the log is in the order of its times, so that the age limit cuts a prefix. A
handler that only reads has no lock: its copy is an end of the log as it was when it read.

- `JournalInvariant`; `EvidenceIsKept` (`EvidenceKept`).
- `RerunningUnblocks` (`RerunUnblocks`): the file is an end of the log, so if it
  has kept the failure it has kept the pass that came after it.
- `CompletionIsBacked` (`CompletionBacked`): every failure
  of the tree that retention protects is in the copy the gate has read, and the gate
  passes over one only for a later success there whose text covers it. That such a
  success really ran the failing tests is a fact about the commands in use and not
  about this code: `MatchingSound` states it, as a hypothesis of the theorem.
  `MCEvidenceJournal` assumes it (`MatchingHolds`), so TLC evaluates it for the
  invocations of the run, two different ones of which cover one another.

`TypeCorrect` is proved for every model but `Learning`, `CommandRun`,
`EvidenceJournal` and `PatchEngine`, where types are a conjunct of the invariant.

Only model-checked are the liveness properties `CallsReturn`, `DamagedReplaced`,
`ImportConverges`, `RunsEnd` and `WriterNotStuck`: fairness is out of the prover's
reach.

## 5. Not modelled, and the plan

The text of section 1 gives the reason for every component that is left out for
good. Of the rest, in this order:

1. `TaskServer`: `TaskRuntime` behind the gate of `EvidenceJournal`, so that a
   completion is justified by an owner *and* by evidence for the captured tree.
2. Skill evolution and validation, skills in an import bundle, project identity
   (crash between canonical file and views), the fact cache and its staleness, the
   memory runtime's two locks.
3. Pure functions as operators against a reference: impact reachability, skill
   selection, budget splitting of packets.

Theorems to add: abstract specifications of the same kind as `TaskLease` and
`SnapshotTx` for the skill registry (an append-only chain with one published file)
and for the import (an idempotent union of two histories), whose mappings `TurnsInv`
of `SkillPublicationProofs` and `Keyed` of `ContextImportProofs` already supply.

Coverage. The repository keeps whole copies of itself under `eval/results/`
(results of agent runs), and large parts of `src/crates/` are text processing,
tests and command-line output. The models follow the parts under `src/crates/`
that keep state; the copies are not modelled a second time.
