--------------------------- MODULE EvidenceJournal ---------------------------
(***************************************************************************)
(* The execution evidence journal and the completion gate of the MCP       *)
(* server.  sandbox_test and sandbox_build run a command in the workspace, *)
(* bind the outcome to the working-tree hash and append it to              *)
(* .codebro/execution_evidence.json; `task complete` (and `task outcome`   *)
(* with success) captures the hash again, reduces the journal to the       *)
(* evidence for that hash and refuses while a compile or test failure is   *)
(* unresolved.  One step is one system call on the journal or one look at  *)
(* the working tree; several handlers of one server run at once, only the  *)
(* recording ones under the workspace's journal_lock.  One server writes   *)
(* the journal: that is the documented single-writer assumption.  The      *)
(* history event a run also leaves (history_capture) and the root-cause    *)
(* answer kept in memory touch neither the journal nor the gate and are    *)
(* left out; what complete_task does behind the gate is in TaskRuntime.    *)
(***************************************************************************)
EXTENDS Integers, Sequences, FiniteSets, SequencesExt

CONSTANTS
  Files, Contents,   \* the files of the workspace, and what they may hold
  Absent, None,      \* a path with no file; nothing
  Invocations,       \* [command : Seq(token), filter : Seq(token)]
  Scope, Selects,    \* what an invocation exercises: packages and tests
  Mentions,          \* <<token, entry>>: the token contains the entry's text
  Handlers,          \* tool calls of one server that may run at once
  Outcomes,          \* classifications a command may end with
  MaxRecords, MaxAge,     \* MAX_RECORDS, MAX_AGE_SECS
  MaxTokens, MaxFilter,   \* MAX_COMMAND_LEN in tokens, MAX_FILTER_ENTRIES
  MaxObservations, MaxNow, MaxEdits, MaxCommits, MaxCorruptions  \* bounds

ASSUME JournalAssumption ==
  /\ {MaxRecords, MaxTokens, MaxFilter} \subseteq Nat \ {0}
  /\ {MaxAge, MaxObservations, MaxNow, MaxEdits, MaxCommits, MaxCorruptions} \subseteq Nat
  /\ Absent \notin Contents
  /\ None \notin Handlers

VARIABLES
  head, work,    \* the committed tree and the working tree
  file,          \* the journal file
  aside,         \* what has been moved aside as corrupt
  lock,          \* holder of journal_lock, or None
  now,           \* the clock
  call,          \* what each handler is doing
  observed,      \* every observation recorded so far, retention apart
  completions,   \* completions that passed the gate
  edits, commits, corruptions   \* spent bounds

journalVars == <<head, work, file, aside, lock, now, call, observed, completions,
                 edits, commits, corruptions>>
repo == <<head, work, edits, commits>>
journal == <<file, aside, observed>>

Tree == [Files -> Contents \cup {Absent}]
Classes == {"success", "test_failure", "compile_error", "timeout", "unknown_failure"}
Authoritative == {"compile_error", "test_failure"}

-----------------------------------------------------------------------------
(* The identity of a working tree (RepoState::capture).  Three texts are    *)
(* hashed: the tracked names, the diff against HEAD, and the untracked      *)
(* names with their contents; HEAD itself is not.  The bytes of each text   *)
(* are sorted before hashing, so which change belongs to which file is lost *)
(* and only how often each change occurs is left.                           *)

Counts(s, f) == [v \in {f[x] : x \in s} |-> Cardinality({x \in s : f[x] = v})]

WorkingTreeHash(h, w) ==
  LET tracked == {f \in Files : h[f] # Absent}
      changed == {f \in tracked : w[f] # h[f]}
      untracked == {f \in Files \ tracked : w[f] # Absent}
  IN  [tracked |-> tracked,
       changed |-> changed,
       diff |-> Counts(changed, [f \in Files |-> <<h[f], w[f]>>]),
       untracked |-> untracked,
       added |-> Counts(untracked, w)]

-----------------------------------------------------------------------------
(* Records and lookups.                                                     *)

Prefix(s, n) == SubSeq(s, 1, IF Len(s) < n THEN Len(s) ELSE n)

\* What the journal keeps of an observation; `invocation` is what really ran,
\* for the properties only.  The names of the failed tests label the answer to
\* the user (summarize_prior) and decide nothing.
RecordOf(c) ==
  [command |-> Prefix(c.invocation.command, MaxTokens),
   filter |-> Prefix(c.invocation.filter, MaxFilter),
   invocation |-> c.invocation, class |-> c.class,
   tree |-> c.tree, at |-> c.at]

Runner(r) == Head(r.command)

FilterEntryToken(token, filter) ==
  \E i \in DOMAIN filter : token = filter[i] \/ <<token, filter[i]>> \in Mentions

FilterExpressionToken(token, filter) ==
  token \in {"-k", "-run", "or"} \/ FilterEntryToken(token, filter)

FullRunCovers(success, failure) ==
  LET f == failure.command
  IN  /\ success.filter = <<>>
      /\ failure.filter # <<>>
      /\ Runner(success) = Runner(failure)
      /\ Len(success.command) < Len(f)
      /\ \E i \in DOMAIN f : \E j \in i..Len(f) :
           /\ \A k \in i..j : FilterExpressionToken(f[k], failure.filter)
           /\ \E k \in i..j : FilterEntryToken(f[k], failure.filter)
           /\ SubSeq(f, 1, i - 1) \o SubSeq(f, j + 1, Len(f)) = success.command

\* The text of a success covers that of a failure: the same command with the
\* same filter or none, or a full run of what was filtered.
Covers(success, failure) ==
  \/ success.command = failure.command /\ success.filter \in {failure.filter, <<>>}
  \/ FullRunCovers(success, failure)

\* Mutant: a pass recorded in the same second does not resolve.
Supersedes_strict(success, failure) ==
  success.class = "success" /\ success.at > failure.at /\ Covers(success, failure)

Supersedes(success, failure) ==
  success.class = "success" /\ success.at >= failure.at /\ Covers(success, failure)

\* Mutant: a pass resolves a failure of the same second that came after it.
Unresolved_unordered(records, tree, classes) ==
  {i \in DOMAIN records :
     /\ records[i].tree = tree
     /\ records[i].class \in classes
     /\ ~ \E j \in DOMAIN records :
            records[j].tree = tree /\ Supersedes(records[j], records[i])}

\* The failures of `classes` on one tree that no later record resolves.
Unresolved(records, tree, classes) ==
  {i \in DOMAIN records :
     /\ records[i].tree = tree
     /\ records[i].class \in classes
     /\ ~ \E j \in DOMAIN records :
            j > i /\ records[j].tree = tree /\ Supersedes(records[j], records[i])}

AssessForTree(records, tree) ==
  IF Unresolved(records, tree, Authoritative) # {} THEN "failed"
  ELSE IF /\ Unresolved(records, tree, Classes \ {"success"}) = {}
          /\ \E i \in DOMAIN records : records[i].tree = tree /\ records[i].class = "success"
       THEN "verified" ELSE "unverified"

\* The records that are not over-age, in their order.
Young(records, at) ==
  LET young[n \in 0..Len(records)] ==
        IF n = 0 THEN <<>>
        ELSE IF at - records[n].at <= MaxAge THEN Append(young[n - 1], records[n])
        ELSE young[n - 1]
  IN  young[Len(records)]

\* record: retention by age, append, retention by count.
Retained(records, r) ==
  LET all == Append(Young(records, r.at), r)
  IN  SubSeq(all, IF Len(all) > MaxRecords THEN Len(all) - MaxRecords + 1 ELSE 1, Len(all))

-----------------------------------------------------------------------------
(* The journal file and the handlers.                                       *)

AbsentFile == [records |-> <<>>, state |-> "absent"]
CorruptFile == [records |-> <<>>, state |-> "corrupt"]
ValidFile(records) == [records |-> records, state |-> "valid"]

Idle == [pc |-> "idle", stage |-> None, seen |-> <<>>, since |-> 0, upto |-> 0,
         invocation |-> None, class |-> None, at |-> 0, tree |-> None]

JournalInit ==
  /\ head \in Tree /\ work = head
  /\ file = AbsentFile /\ aside = {}
  /\ lock = None /\ now = 0
  /\ call = [c \in Handlers |-> Idle]
  /\ observed = <<>> /\ completions = {}
  /\ edits = 0 /\ commits = 0 /\ corruptions = 0

Verifying(c) == call[c].invocation # None

\* sandbox_test or sandbox_build: the command is resolved.
Verify(c) ==
  /\ call[c].pc = "idle"
  /\ Len(observed) + Cardinality({d \in Handlers : Verifying(d)}) < MaxObservations
  /\ \E inv \in Invocations :
       call' = [call EXCEPT ![c] = [Idle EXCEPT !.pc = "run", !.invocation = inv]]
  /\ UNCHANGED <<repo, journal, lock, now, completions, corruptions>>

\* The command runs; the tree may change before it is captured.
Execute(c) ==
  /\ call[c].pc = "run"
  /\ \E class \in Outcomes :
       call' = [call EXCEPT ![c].pc = "capture", ![c].class = class]
  /\ UNCHANGED <<repo, journal, lock, now, completions, corruptions>>

\* The sandbox policy refuses the command: nothing ran, nothing is recorded.
Denied(c) ==
  /\ call[c].pc = "run"
  /\ call' = [call EXCEPT ![c] = Idle]
  /\ UNCHANGED <<repo, journal, lock, now, completions, corruptions>>

\* enrich_with_provenance: the tree is captured after the command has run.
CaptureTree(c) ==
  /\ call[c].pc = "capture"
  /\ call' = [call EXCEPT ![c].pc = "lock",
                          ![c].tree = WorkingTreeHash(head, work)]
  /\ UNCHANGED <<repo, journal, lock, now, completions, corruptions>>

\* git gives no answer: the run is not recorded.
CaptureNothing(c) ==
  /\ call[c].pc = "capture"
  /\ call' = [call EXCEPT ![c] = Idle]
  /\ UNCHANGED <<repo, journal, lock, now, completions, corruptions>>

\* Mutant: journal_lock is not waited for.
TakeLock_busy(c) ==
  /\ call[c].pc = "lock"
  /\ lock' = c
  /\ call' = [call EXCEPT ![c].pc = "read", ![c].stage = "prior", ![c].at = now]
  /\ UNCHANGED <<repo, journal, now, completions, corruptions>>

TakeLock(c) ==
  /\ call[c].pc = "lock"
  /\ lock = None
  /\ lock' = c
  /\ call' = [call EXCEPT ![c].pc = "read", ![c].stage = "prior", ![c].at = now]
  /\ UNCHANGED <<repo, journal, now, completions, corruptions>>

\* load, first half: the file is read; only a corrupt one needs a second step.
Load(c) ==
  /\ call[c].pc = "read"
  /\ call' = [call EXCEPT ![c].pc = IF file.state = "corrupt" THEN "quarantine" ELSE "use",
                          ![c].seen = file.records, ![c].upto = Len(observed)]
  /\ UNCHANGED <<repo, journal, lock, now, completions, corruptions>>

\* load, second half: whatever is at the path by now is renamed, if it can be.
Quarantine(c) ==
  /\ call[c].pc = "quarantine"
  /\ call' = [call EXCEPT ![c].pc = "use"]
  /\ \/ /\ file' = AbsentFile
        /\ aside' = aside \cup ({file.state} \ {"absent"})
     \/ UNCHANGED <<file, aside>>
  /\ UNCHANGED <<repo, observed, lock, now, completions, corruptions>>

\* summarize_prior: an answer for the response, no state.
SummarizePrior(c) ==
  /\ call[c].pc = "use" /\ call[c].stage = "prior"
  /\ call' = [call EXCEPT ![c].pc = "read", ![c].stage = "record", ![c].seen = <<>>]
  /\ UNCHANGED <<repo, journal, lock, now, completions, corruptions>>

\* record: retention, append, and one atomic rename.
Record(c) ==
  /\ call[c].pc = "use" /\ call[c].stage = "record"
  /\ LET r == RecordOf(call[c])
     IN  /\ file' = ValidFile(Retained(call[c].seen, r))
         /\ observed' = Append(observed, r)
  /\ call' = [call EXCEPT ![c].pc = "read", ![c].stage = "assess", ![c].seen = <<>>]
  /\ UNCHANGED <<repo, aside, lock, now, completions, corruptions>>

\* write_atomic fails: a warning is logged and the handler goes on.
RecordFails(c) ==
  /\ call[c].pc = "use" /\ call[c].stage = "record"
  /\ call' = [call EXCEPT ![c].pc = "read", ![c].stage = "assess", ![c].seen = <<>>]
  /\ UNCHANGED <<repo, journal, lock, now, completions, corruptions>>

\* assess_for_tree for the response; the guard of the lock is dropped.
Report(c) ==
  /\ call[c].pc = "use" /\ call[c].stage = "assess"
  /\ lock' = None
  /\ call' = [call EXCEPT ![c] = Idle]
  /\ UNCHANGED <<repo, journal, now, completions, corruptions>>

\* task complete, or task outcome with success: assess captures the tree.
AskCompletion(c) ==
  /\ call[c].pc = "idle"
  /\ Cardinality(completions) = 0
  /\ call' = [call EXCEPT ![c] = [Idle EXCEPT !.pc = "read", !.stage = "gate",
                                  !.tree = WorkingTreeHash(head, work), !.since = Len(observed)]]
  /\ UNCHANGED <<repo, journal, lock, now, completions, corruptions>>

\* No tree identity: the state is unknown, which does not block.
CompleteUnknown(c) ==
  /\ call[c].pc = "idle"
  /\ Cardinality(completions) = 0
  /\ completions' = {[tree |-> None, at |-> now, since |-> Len(observed), upto |-> Len(observed)]}
  /\ UNCHANGED <<repo, journal, lock, now, call, corruptions>>

Refuse(c) ==
  /\ call[c].pc = "use" /\ call[c].stage = "gate"
  /\ AssessForTree(call[c].seen, call[c].tree) = "failed"
  /\ call' = [call EXCEPT ![c] = Idle]
  /\ UNCHANGED <<repo, journal, lock, now, completions, corruptions>>

\* The gate lets complete_task through.
Complete(c) ==
  /\ call[c].pc = "use" /\ call[c].stage = "gate"
  /\ AssessForTree(call[c].seen, call[c].tree) # "failed"
  /\ completions' = completions \cup
       {[tree |-> call[c].tree, at |-> now, since |-> call[c].since, upto |-> call[c].upto]}
  /\ call' = [call EXCEPT ![c] = Idle]
  /\ UNCHANGED <<repo, journal, lock, now, corruptions>>

-----------------------------------------------------------------------------
(* The surroundings: the agent and its tools, git, time.                    *)

Edit ==
  /\ edits < MaxEdits
  /\ \E f \in Files, v \in Contents \cup {Absent} :
       v # work[f] /\ work' = [work EXCEPT ![f] = v]
  /\ edits' = edits + 1
  /\ UNCHANGED <<head, commits, journal, lock, now, call, completions, corruptions>>

Commit ==
  /\ commits < MaxCommits
  /\ head # work
  /\ head' = work
  /\ commits' = commits + 1
  /\ UNCHANGED <<work, edits, journal, lock, now, call, completions, corruptions>>

\* A torn copy, or a file of another schema version, takes the journal's place.
Corrupt ==
  /\ corruptions < MaxCorruptions
  /\ file' = CorruptFile
  /\ corruptions' = corruptions + 1
  /\ UNCHANGED <<repo, aside, observed, lock, now, call, completions>>

Tick ==
  /\ now < MaxNow
  /\ now' = now + 1
  /\ UNCHANGED <<repo, journal, lock, call, completions, corruptions>>

JournalNext ==
  \/ \E c \in Handlers :
       \/ Verify(c) \/ Execute(c) \/ Denied(c) \/ CaptureTree(c) \/ CaptureNothing(c)
       \/ TakeLock(c) \/ Load(c) \/ Quarantine(c) \/ SummarizePrior(c)
       \/ Record(c) \/ RecordFails(c) \/ Report(c)
       \/ AskCompletion(c) \/ CompleteUnknown(c) \/ Refuse(c) \/ Complete(c)
  \/ Edit \/ Commit \/ Corrupt \/ Tick

JournalSpec == JournalInit /\ [][JournalNext]_journalVars

-----------------------------------------------------------------------------
(* Properties.                                                              *)

\* Concurrent recordings of one server lose nothing and invent nothing: the
\* file always holds the end of the observation log, also when a corrupt file
\* was moved aside under a handler's feet; and while nobody corrupts it,
\* everything among the last MAX_RECORDS observations that is not over-age is
\* in it (journal_lock around load, append and rename; retention in `record`).
EvidenceKept ==
  /\ IsSuffix(file.records, observed)
  /\ corruptions = 0 =>
       \A i \in DOMAIN observed :
         (i > Len(observed) - MaxRecords /\ now - observed[i].at <= MaxAge)
           => i > Len(observed) - Len(file.records)

\* What resolves a failure, said of the runs and not of the command texts: a
\* later pass on the same tree, in the same scope, of every test selected.
ReallyResolved(i, upto) ==
  \E j \in (i + 1)..upto :
    /\ observed[j].class = "success"
    /\ observed[j].tree = observed[i].tree
    /\ Scope[observed[j].invocation] = Scope[observed[i].invocation]
    /\ Selects[observed[i].invocation] \subseteq Selects[observed[j].invocation]

\* The command texts tell enough: when the text of one invocation, as the
\* journal keeps it, covers that of another, it runs in the same scope every
\* test that the other selects.
Clamped(i) == [command |-> Prefix(i.command, MaxTokens), filter |-> Prefix(i.filter, MaxFilter)]

MatchingSound ==
  \A i, j \in Invocations : Covers(Clamped(i), Clamped(j)) =>
    Scope[i] = Scope[j] /\ Selects[j] \subseteq Selects[i]

\* No completion passes the gate over a compile or test failure that was
\* recorded for the captured tree before the request, that retention still
\* protects, and that no later run, up to the moment the gate read the journal,
\* has really passed: the token matching of success_supersedes_same_tree never
\* lets too much through, and no concurrent recording hides a failure.
CompletionBacked ==
  \A done \in completions : (done.tree # None /\ corruptions = 0) =>
    \A i \in 1..done.since :
      /\ observed[i].tree = done.tree /\ observed[i].class \in Authoritative
      /\ i > done.upto - MaxRecords /\ done.at - observed[i].at <= MaxAge
      => ReallyResolved(i, done.upto)

\* "Re-run the same sandbox command successfully" always unblocks: when each
\* failing invocation on a tree has passed again after its last failure, the
\* tree is not assessed as failed, whatever retention has dropped since.
RerunUnblocks ==
  \A tree \in {observed[i].tree : i \in DOMAIN observed} :
    (\A i \in DOMAIN observed :
       (observed[i].tree = tree /\ observed[i].class \in Authoritative)
         => \E j \in DOMAIN observed :
              /\ j > i /\ observed[j].tree = tree /\ observed[j].class = "success"
              /\ observed[j].invocation = observed[i].invocation)
    => AssessForTree(file.records, tree) # "failed"

=============================================================================
