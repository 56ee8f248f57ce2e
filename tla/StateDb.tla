------------------------------ MODULE StateDb ------------------------------
(***************************************************************************)
(* Opening, migrating and recovering state.db (context-runtime/src/db.rs)  *)
(* by several server processes that share one state directory.             *)
(*                                                                         *)
(* ContextStore opens its connection at the first call and keeps it.  The  *)
(* open is retried; a file whose content is to blame is renamed aside and  *)
(* built anew.  No lock spans the checks, the quiescence gate and the      *)
(* renames, so every step here is one SQLite statement or one system call  *)
(* and the steps of the processes interleave.                              *)
(*                                                                         *)
(* A file is an index into db, the write-ahead log beside it an index into *)
(* logs; path and log say which of them state.db and state.db-wal name     *)
(* now.  state.db-shm is the index of the log, rebuilt from it, and moves  *)
(* with it.  Contents are the few marks that the code tells apart.  What   *)
(* SQLite does (attaching a log, folding it back, dropping a stale one)    *)
(* is modelled as far as the code here relies on it.                       *)
(***************************************************************************)
EXTENDS Naturals, Sequences

CONSTANTS
    Procs,       \* server processes of one CodeBro version
    Attempts,    \* OPEN_ATTEMPTS
    MaxFiles,    \* bound: database files ever made
    MaxWrites,   \* bound: transactions committed by callers
    MaxMishaps   \* bound: times the file is spoiled, a statement or system
                 \* call fails, contention mimics damage, or a process dies

ASSUME ConstantsAssumption ==
    /\ {MaxFiles, MaxWrites, MaxMishaps} \subseteq Nat
    /\ Attempts \in Nat \ {0}

VARIABLES
    db,       \* Seq of database files ever made: their contents
    logs,     \* Seq of logs ever made: what they add
    path,     \* the file state.db names, 0 if there is none
    log,      \* the log state.db-wal names, 0 if there is none
    proc,     \* [Procs -> the state of open_with_recovery and with_conn]
    writes,   \* transactions committed so far
    mishaps   \* failures of the environment so far

vars == <<db, logs, path, log, proc, writes, mishaps>>

----------------------------------------------------------------------------
(* Files and verdicts *)

\* schema: the tables and the version this build writes.  newer: those of a
\* later build.  row: what a caller committed.
Marks == {"schema", "newer", "row"}

\* touched counts the writes to the file itself, what mtime and length show.
File == [marks : SUBSET Marks, damaged : BOOLEAN, touched : Nat]

\* busy: SQLITE_BUSY or SQLITE_LOCKED, also as a line of quick_check.
\* corrupt: Corrupt, SQLITE_CORRUPT, SQLITE_NOTADB.  io: any other failure.
Verdicts == {"busy", "corrupt", "io"}

Opening == {"connect", "migrate", "verify", "gate", "settled", "rename", "rename_log"}

\* attempt counts open_checked calls of the loop; rebuilt says the loop is
\* over and this is the last open_checked; db and log are the files of the
\* connection; blamed is the file the verdict is about, spurious says that
\* contention brought that verdict on, seen is the fingerprint taken before the
\* pause.
ProcRecord ==
    [pc : {"closed", "open"} \cup Opening, attempt : Nat, rebuilt : BOOLEAN,
     db : Nat, log : Nat, blamed : Nat, spurious : BOOLEAN, seen : Nat \X Nat]

Closed ==
    [pc |-> "closed", attempt |-> 1, rebuilt |-> FALSE,
     db |-> 0, log |-> 0, blamed |-> 0, spurious |-> FALSE, seen |-> <<0, 0>>]

\* Mutant: whatever keeps the database from opening is held against it.
should_quarantine_any(e) == e \in Verdicts

\* Only a verdict on the content.
should_quarantine(e) == e = "corrupt"

is_transient(e) == should_quarantine(e) \/ e = "busy"

\* (mtime, length) of the file at the path; two files never share both.  A
\* commit that stays in the log does not touch it.
file_fingerprint ==
    IF path = 0 THEN <<0, 0>> ELSE <<path, db[path].touched>>

\* What a connection to file f through log l reads.
Reads(f, l) == db[f].marks \cup logs[l]

IsNewer == path # 0 /\ "newer" \in db[path].marks

----------------------------------------------------------------------------
(* SQLite *)

\* The log l is folded into the file f.
Folded(f, l) ==
    IF logs[l] \subseteq db[f].marks THEN db
    ELSE [db EXCEPT ![f].marks = @ \cup logs[l], ![f].touched = @ + 1]

\* What a removed log said is gone; its place in logs is free if it is last.
Dropped(l) == IF l = Len(logs) THEN SubSeq(logs, 1, l - 1) ELSE logs

\* The last connection to leave an unmoved database folds the log and
\* removes it.
LastOut(p) ==
    /\ proc[p].log # 0
    /\ proc[p].db = path
    /\ proc[p].log = log
    /\ \A q \in Procs \ {p} : proc[q].log # log

\* p's connection is closed; its record becomes r.
Leave(p, r) ==
    /\ proc' = [proc EXCEPT ![p] = [r EXCEPT !.db = 0, !.log = 0]]
    /\ IF LastOut(p)
       THEN db' = Folded(path, log) /\ log' = 0 /\ logs' = Dropped(log)
       ELSE UNCHANGED <<db, log, logs>>
    /\ UNCHANGED path

Mishap == mishaps < MaxMishaps /\ mishaps' = mishaps + 1

----------------------------------------------------------------------------
(* open_with_recovery *)

\* Mutant: the last attempt returns its error whatever it is.
AfterFailure_gives_up(p, e, file) ==
    LET r == proc[p]
    IN  IF ~r.rebuilt /\ is_transient(e) /\ r.attempt < Attempts
        THEN [r EXCEPT !.pc = "connect", !.attempt = @ + 1]
        ELSE Closed

\* open_checked failed with e: give up, try again, or turn to recovery.  The
\* last open_checked of a recovery has no second chance.
AfterFailure(p, e, file) ==
    LET r == proc[p]
    IN  IF r.rebuilt THEN Closed
        ELSE IF is_transient(e) /\ r.attempt < Attempts
        THEN [r EXCEPT !.pc = "connect", !.attempt = @ + 1]
        ELSE IF should_quarantine(e)
        THEN [r EXCEPT !.pc = "gate", !.blamed = file]
        ELSE Closed

\* A call finds no connection and starts to open one.
Start(p) ==
    /\ proc[p].pc = "closed"
    /\ proc' = [proc EXCEPT ![p] = [Closed EXCEPT !.pc = "connect"]]
    /\ UNCHANGED <<db, logs, path, log, writes, mishaps>>

\* Connection::open makes an empty file where there is none, and drops the
\* log it finds beside an empty file.
ConnectFresh(p) ==
    /\ proc[p].pc = "connect"
    /\ path = 0
    /\ Len(db) < MaxFiles
    /\ db' = Append(db, [marks |-> {}, damaged |-> FALSE, touched |-> 0])
    /\ logs' = Append(logs, {})
    /\ path' = Len(db')
    /\ log' = Len(logs')
    /\ proc' = [proc EXCEPT ![p] = [@ EXCEPT !.pc = "migrate", !.db = path', !.log = log']]
    /\ UNCHANGED <<writes, mishaps>>

\* Mutant: a file with any content at all counts as migrated.
Connect_unmigrated(p) ==
    /\ proc[p].pc = "connect"
    /\ path # 0
    /\ ~IsNewer
    /\ IF log = 0 THEN logs' = Append(logs, {}) /\ log' = Len(logs')
                  ELSE UNCHANGED <<logs, log>>
    /\ proc' = [proc EXCEPT ![p] = [@ EXCEPT !.pc = "verify", !.db = path, !.log = log']]
    /\ UNCHANGED <<db, path, writes, mishaps>>

\* An existing file: the pragmas attach its log, or make one; then the
\* version is read.
Connect(p) ==
    /\ proc[p].pc = "connect"
    /\ path # 0
    /\ ~IsNewer
    /\ IF log = 0 THEN logs' = Append(logs, {}) /\ log' = Len(logs')
                  ELSE UNCHANGED <<logs, log>>
    /\ LET next == IF "schema" \in db[path].marks \cup logs'[log'] THEN "verify" ELSE "migrate"
       IN  proc' = [proc EXCEPT ![p] = [@ EXCEPT !.pc = next, !.db = path, !.log = log']]
    /\ UNCHANGED <<db, path, writes, mishaps>>

\* A newer version is refused at once.  Nobody else is connected to it, so
\* that closing folds a log it was found with.
RefuseNewer(p) ==
    /\ proc[p].pc = "connect"
    /\ IsNewer
    /\ proc' = [proc EXCEPT ![p] = Closed]
    /\ db' = IF log = 0 THEN db ELSE Folded(path, log)
    /\ log' = 0
    /\ logs' = IF log = 0 THEN logs ELSE Dropped(log)
    /\ UNCHANGED <<path, writes, mishaps>>

\* All steps up to the current version, in one transaction.  The steps probe
\* for what is already there, so that a second migration changes nothing.
migrate(p) ==
    /\ proc[p].pc = "migrate"
    /\ logs' = [logs EXCEPT ![proc[p].log] = @ \cup {"schema"}]
    /\ proc' = [proc EXCEPT ![p].pc = "verify"]
    /\ UNCHANGED <<db, path, log, writes, mishaps>>

\* quick_check finds nothing and the connection is handed out.
verify_integrity(p) ==
    /\ proc[p].pc = "verify"
    /\ ~db[proc[p].db].damaged
    /\ proc' = [proc EXCEPT ![p] = [Closed EXCEPT !.pc = "open", !.db = proc[p].db, !.log = proc[p].log]]
    /\ UNCHANGED <<db, logs, path, log, writes, mishaps>>

\* A damaged file is found out by quick_check, or by a statement before it.
\* Before the connection is attached the file is the one at the path.
FoundCorrupt(p) ==
    /\ proc[p].pc \in {"connect", "migrate", "verify"}
    /\ LET f == IF proc[p].db = 0 THEN path ELSE proc[p].db
       IN  /\ f # 0
           /\ db[f].damaged
           /\ Leave(p, AfterFailure(p, "corrupt", f))
    /\ UNCHANGED <<writes, mishaps>>

\* "A transient can mimic corruption": a healthy file that a sibling writes,
\* or whose predecessor it is moving aside, may look damaged too.  It is a
\* mishap when that lasts to the last attempt.
FoundSpurious(p) ==
    /\ proc[p].pc \in {"connect", "migrate", "verify"}
    /\ LET f == IF proc[p].db = 0 THEN path ELSE proc[p].db
           next == AfterFailure(p, "corrupt", f)
       IN  /\ f # 0
           /\ ~db[f].damaged
           /\ \E q \in Procs \ {p} : proc[q].db = f \/ proc[q].pc = "rename_log"
           /\ Leave(p, [next EXCEPT !.spurious = next.pc = "gate"])
           /\ IF next.pc = "gate" THEN Mishap ELSE UNCHANGED mishaps
    /\ UNCHANGED writes

\* Contention with a sibling that is connected, or a failure of the
\* environment.
FailedOtherwise(p, e) ==
    /\ proc[p].pc \in {"connect", "migrate", "verify"}
    /\ e = "busy" => \E q \in Procs \ {p} : proc[q].db # 0 /\ proc[q].db = path
    /\ Leave(p, AfterFailure(p, e, path))
    /\ Mishap
    /\ UNCHANGED writes

\* The pause of the quiescence gate lies between these two.
Gate(p) ==
    /\ proc[p].pc = "gate"
    /\ proc' = [proc EXCEPT ![p] = [@ EXCEPT !.pc = "settled", !.seen = file_fingerprint]]
    /\ UNCHANGED <<db, logs, path, log, writes, mishaps>>

\* The last open_checked, on whatever is at the path by then.
Rebuild(r) ==
    [r EXCEPT !.pc = "connect", !.rebuilt = TRUE, !.blamed = 0, !.spurious = FALSE]

\* A file that has changed is left alone; one that is gone is not renamed.
Settled(p) ==
    /\ proc[p].pc = "settled"
    /\ proc' = [proc EXCEPT ![p] =
                  IF file_fingerprint # @.seen THEN Closed
                  ELSE IF path # 0 THEN [@ EXCEPT !.pc = "rename", !.seen = <<0, 0>>]
                  ELSE Rebuild(@)]
    /\ UNCHANGED <<db, logs, path, log, writes, mishaps>>

\* quarantine moves state.db aside, if it is still there ...
quarantine(p) ==
    /\ proc[p].pc = "rename"
    /\ path' = 0
    /\ proc' = [proc EXCEPT ![p].pc = "rename_log"]
    /\ UNCHANGED <<db, logs, log, writes, mishaps>>

\* ... and then the files beside it, whosever they are by now.
quarantine_sidecars(p) ==
    /\ proc[p].pc = "rename_log"
    /\ log' = 0
    /\ proc' = [proc EXCEPT ![p] = Rebuild(@)]
    /\ UNCHANGED <<db, logs, path, writes, mishaps>>

\* A rename fails: the file vanished after exists(), or the system refuses.
QuarantineFails(p) ==
    /\ \/ proc[p].pc = "rename" /\ path = 0 /\ UNCHANGED mishaps
       \/ proc[p].pc \in {"rename", "rename_log"} /\ Mishap
    /\ proc' = [proc EXCEPT ![p] = Closed]
    /\ UNCHANGED <<db, logs, path, log, writes>>

----------------------------------------------------------------------------
(* The connection in use, and the environment *)

\* A caller's transaction is committed to the log of the cached connection.
Write(p) ==
    /\ proc[p].pc = "open"
    /\ logs' = [logs EXCEPT ![proc[p].log] = @ \cup {"row"}]
    /\ writes < MaxWrites
    /\ writes' = writes + 1
    /\ UNCHANGED <<db, path, log, proc, mishaps>>

\* SQLite folds the log when it has grown.  Two live logs over one file
\* overwrite each other's pages, which may spoil it.
Checkpoint(p) ==
    LET r == proc[p]
        rivals == \E q \in Procs : proc[q].db = r.db /\ proc[q].log # r.log
    IN  /\ r.pc = "open"
        /\ ~ logs[r.log] \subseteq db[r.db].marks
        /\ \E spoilt \in IF rivals THEN BOOLEAN ELSE {FALSE} :
              db' = [Folded(r.db, r.log) EXCEPT ![r.db].damaged = @ \/ spoilt]
        /\ UNCHANGED <<logs, path, log, proc, writes, mishaps>>

Damage ==
    /\ path # 0
    /\ ~db[path].damaged
    /\ db' = [db EXCEPT ![path].damaged = TRUE, ![path].touched = @ + 1]
    /\ Mishap
    /\ UNCHANGED <<logs, path, log, proc, writes>>

\* A process dies: nothing is folded, the renames it had begun stay begun.
Crash(p) ==
    /\ proc[p].pc # "closed"
    /\ proc' = [proc EXCEPT ![p] = Closed]
    /\ Mishap
    /\ UNCHANGED <<db, logs, path, log, writes>>

----------------------------------------------------------------------------
(* The specification *)

\* state.db when the first process comes: absent, or of any version, possibly
\* damaged, with the log a process that died left behind.
Init ==
    /\ writes = 0
    /\ mishaps = 0
    /\ proc = [p \in Procs |-> Closed]
    /\ \/ db = <<>> /\ path = 0
       \/ \E m \in {{"row"}, {"schema"}, {"schema", "newer"}}, d \in BOOLEAN :
            /\ db = <<[marks |-> m, damaged |-> d, touched |-> 0]>>
            /\ path = 1
    /\ IF path = 1 THEN logs = <<{"row"}>> /\ log = 1
                   ELSE logs = <<>> /\ log = 0

\* The steps of one call that opens the database.
OpenStep(p) ==
    \/ ConnectFresh(p)
    \/ Connect(p)
    \/ RefuseNewer(p)
    \/ migrate(p)
    \/ verify_integrity(p)
    \/ FoundCorrupt(p)
    \/ Gate(p)
    \/ Settled(p)
    \/ quarantine(p)
    \/ quarantine_sidecars(p)
    \/ QuarantineFails(p)

Next ==
    \/ \E p \in Procs :
        \/ Start(p)
        \/ OpenStep(p)
        \/ FoundSpurious(p)
        \/ \E e \in {"busy", "io"} : FailedOtherwise(p, e)
        \/ Write(p)
        \/ Checkpoint(p)
        \/ Crash(p)
    \/ Damage

\* Calls keep coming to a process without a connection, and a process that
\* is scheduled goes on with the call it is in.
Fairness == \A p \in Procs : WF_vars(Start(p)) /\ WF_vars(OpenStep(p))

Spec == Init /\ [][Next]_vars /\ Fairness

----------------------------------------------------------------------------
(* Properties *)

TypeOK ==
    /\ db \in Seq(File)
    /\ logs \in Seq(SUBSET Marks)
    /\ path \in 0 .. Len(db)
    /\ log \in 0 .. Len(logs)
    /\ proc \in [Procs -> ProcRecord]
    /\ writes \in 0 .. MaxWrites
    /\ mishaps \in 0 .. MaxMishaps

\* A connection is handed out only when what it reads has this build's
\* schema, whichever process migrated the file, and none of a later build.
SchemaBeforeUse ==
    \A p \in Procs : proc[p].pc = "open" =>
        /\ "schema" \in Reads(proc[p].db, proc[p].log)
        /\ "newer" \notin Reads(proc[p].db, proc[p].log)

\* What is renamed aside is a damaged file, or one that took the place of the
\* damaged file on which this process's last attempt failed.  Failures of the
\* environment and locks never cost a database, and contention that mimics
\* corruption does only when each of the attempts has failed and the mimicry
\* lasts to the last of them.
QuarantineFollowsEvidence ==
    [][\A p \in Procs :
          quarantine(p) /\ path # 0
            => \/ db[path].damaged
               \/ path # proc[p].blamed /\ db[proc[p].blamed].damaged
               \/ proc[p].spurious /\ proc[p].attempt >= Attempts]_vars

\* A damaged state.db of this build is replaced once some process has to open
\* it: the retries, the gate, siblings that write or die and failures on the
\* way do not keep it for ever.  One whose version still reads as newer is
\* refused instead, damaged or not.
DamagedReplaced ==
    \A p \in Procs :
        (path # 0 /\ db[path].damaged /\ ~IsNewer /\ proc[p].pc = "closed")
            ~> (path = 0 \/ ~db[path].damaged)

\* Contradicted by the code: a healthy database is never quarantined.
HealthyNeverQuarantined ==
    [][\A p \in Procs : quarantine(p) /\ path # 0 => db[path].damaged]_vars
=============================================================================
