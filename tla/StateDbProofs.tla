---------------------------- MODULE StateDbProofs ----------------------------
(***************************************************************************)
(* Proofs about StateDb, for every number of processes, retries, files and *)
(* mishaps and any interleaving of their steps.                            *)
(***************************************************************************)
EXTENDS StateDb, TLAPS, SequenceTheorems

----------------------------------------------------------------------------
(* The inductive invariant *)

\* A process in these steps has a connection.
Connected == {"migrate", "verify", "open"}

\* The evidence of a verdict: the file is damaged, or contention mimicked that
\* at the last of the attempts.
Founded(r, files) ==
    /\ r.blamed \in DOMAIN files
    /\ files[r.blamed].damaged \/ (r.spurious /\ r.attempt >= Attempts)

\* A connection is to a file that nobody of a later build wrote, and from the
\* migration on it reads the schema; a process without one holds no file; one
\* that is about to rename has found its evidence.
RecordOK(r, files, wals) ==
    /\ r.pc \in Connected =>
          /\ r.db \in DOMAIN files
          /\ r.log \in DOMAIN wals
          /\ "newer" \notin files[r.db].marks
    /\ r.pc \notin Connected => r.db = 0 /\ r.log = 0
    /\ r.pc \in {"verify", "open"} => "schema" \in files[r.db].marks \cup wals[r.log]
    /\ r.pc \in {"gate", "settled", "rename"} =>
          Founded(r, files)

\* No log brings in a later version.
LogsInv == \A l \in DOMAIN logs : "newer" \notin logs[l]

\* Nobody is connected while a later version is at the path.
RefusedInv == IsNewer => \A p \in Procs : proc[p].pc \notin Connected

IInv ==
    /\ TypeOK
    /\ \A p \in Procs : RecordOK(proc[p], db, logs)
    /\ LogsInv
    /\ RefusedInv

----------------------------------------------------------------------------
(* Files and logs *)

LEMMA EditedRecord ==
    ASSUME NEW r \in File, NEW m \in SUBSET Marks, NEW t \in Nat
    PROVE  /\ [r EXCEPT !.marks = m, !.touched = t] \in File
           /\ [r EXCEPT !.marks = m, !.touched = t].marks = m
           /\ [r EXCEPT !.marks = m, !.touched = t].damaged = r.damaged
  BY DEF File

LEMMA FoldedRecord ==
    ASSUME NEW r \in File, NEW m \in SUBSET Marks
    PROVE  LET new == [r EXCEPT !.marks = @ \cup m, !.touched = @ + 1]
           IN  /\ new \in File
               /\ new.marks = r.marks \cup m
               /\ new.damaged = r.damaged
  <1>1. r.marks \cup m \in SUBSET Marks /\ r.touched + 1 \in Nat
    BY DEF File
  <1>2. [r EXCEPT !.marks = @ \cup m, !.touched = @ + 1]
          = [r EXCEPT !.marks = r.marks \cup m, !.touched = r.touched + 1]
    BY DEF File
  <1> QED
    BY <1>1, <1>2, EditedRecord, ZenonT(40)

LEMMA FoldedFacts ==
    ASSUME NEW f \in DOMAIN db, NEW l \in DOMAIN logs,
           db \in Seq(File), logs \in Seq(SUBSET Marks)
    PROVE  /\ Folded(f, l) \in Seq(File)
           /\ Len(Folded(f, l)) = Len(db)
           /\ \A g \in DOMAIN db :
                /\ db[g].marks \subseteq Folded(f, l)[g].marks
                /\ Folded(f, l)[g].marks \subseteq db[g].marks \cup logs[l]
                /\ Folded(f, l)[g].damaged = db[g].damaged
  <1>0. db[f] \in File /\ logs[l] \in SUBSET Marks
    <2>1. f \in 1 .. Len(db) /\ l \in 1 .. Len(logs)
      BY LenProperties, Zenon
    <2>2. db[f] \in File
      BY <2>1, ElementOfSeq, Zenon
    <2>3. logs[l] \in SUBSET Marks
      BY <2>1, ElementOfSeq, Zenon
    <2> QED
      BY <2>2, <2>3, Zenon
  <1>1. CASE logs[l] \subseteq db[f].marks
    BY <1>1 DEF Folded
  <1>2. CASE ~ (logs[l] \subseteq db[f].marks)
    <2> DEFINE new == [db[f] EXCEPT !.marks = @ \cup logs[l], !.touched = @ + 1]
    <2>2. /\ new \in File
          /\ new.marks = db[f].marks \cup logs[l]
          /\ new.damaged = db[f].damaged
      BY <1>0, FoldedRecord
    <2>3. Folded(f, l) = [db EXCEPT ![f] = new]
      BY <1>2 DEF Folded
    <2>4. /\ [db EXCEPT ![f] = new] \in Seq(File)
          /\ Len([db EXCEPT ![f] = new]) = Len(db)
      BY <2>2, ExceptSeq
    <2>5. \A g \in DOMAIN db : [db EXCEPT ![f] = new][g] = IF g = f THEN new ELSE db[g]
      OBVIOUS
    <2> HIDE DEF new
    <2> QED
      BY <2>2, <2>3, <2>4, <2>5
  <1> QED
    BY <1>1, <1>2

LEMMA DroppedFacts ==
    ASSUME NEW l \in DOMAIN logs, logs \in Seq(SUBSET Marks)
    PROVE  /\ Dropped(l) \in Seq(SUBSET Marks)
           /\ \A m \in DOMAIN logs : m # l => m \in DOMAIN Dropped(l)
           /\ \A m \in DOMAIN Dropped(l) : m \in DOMAIN logs /\ Dropped(l)[m] = logs[m]
  BY DEF Dropped

----------------------------------------------------------------------------
(* What every step leaves of the files *)

\* Files are never removed, content and damage only grow, and never towards a
\* later version.
FilesKept ==
    /\ db' \in Seq(File)
    /\ Len(db) <= Len(db')
    /\ \A f \in DOMAIN db :
          /\ db[f].marks \subseteq db'[f].marks
          /\ "newer" \in db'[f].marks => "newer" \in db[f].marks
          /\ db[f].damaged => db'[f].damaged

\* So does the log of a process that does nothing.
LogKept(l) ==
    l \in DOMAIN logs => l \in DOMAIN logs' /\ logs[l] \subseteq logs'[l]

LEMMA RecordKept ==
    ASSUME NEW r, db \in Seq(File), FilesKept, LogKept(r.log), RecordOK(r, db, logs)
    PROVE  RecordOK(r, db', logs')
  <1>1. DOMAIN db \subseteq DOMAIN db'
    BY DEF FilesKept
  <1>2. r.pc \in Connected =>
          /\ r.db \in DOMAIN db'
          /\ r.log \in DOMAIN logs'
          /\ "newer" \notin db'[r.db].marks
    BY <1>1 DEF RecordOK, FilesKept, LogKept
  <1>3. r.pc \in {"verify", "open"} => "schema" \in db'[r.db].marks \cup logs'[r.log]
    BY DEF RecordOK, FilesKept, LogKept, Connected
  <1>4. r.pc \in {"gate", "settled", "rename"} => Founded(r, db')
    BY <1>1 DEF RecordOK, FilesKept, Founded
  <1> QED
    BY <1>2, <1>3, <1>4, Zenon DEF RecordOK

LEMMA NoStep ==
    ASSUME IInv, UNCHANGED vars
    PROVE  IInv'
  BY DEF vars, IInv, TypeOK, RecordOK, Founded, LogsInv, RefusedInv, IsNewer

\* The state.db that is named after a step is the one before, none, or one
\* without a later version.
PathKept == path' = path \/ path' = 0 \/ "newer" \notin db'[path'].marks

FilesTyped ==
    /\ logs' \in Seq(SUBSET Marks)
    /\ path' \in 0 .. Len(db')
    /\ log' \in 0 .. Len(logs')
    /\ writes' \in 0 .. MaxWrites
    /\ mishaps' \in 0 .. MaxMishaps

LEMMA NewerKept ==
    ASSUME TypeOK, FilesKept, PathKept, IsNewer'
    PROVE  IsNewer
  BY DEF TypeOK, FilesKept, PathKept, IsNewer

\* A step of one process.
LEMMA OneProcess ==
    ASSUME IInv, NEW p \in Procs, NEW r \in ProcRecord, proc' = [proc EXCEPT ![p] = r],
           RecordOK(r, db', logs'), LogsInv',
           r.pc \in Connected => proc[p].pc \in Connected \/ ~ IsNewer,
           FilesKept, FilesTyped, PathKept,
           \A q \in Procs \ {p} : LogKept(proc[q].log)
    PROVE  IInv'
  <1>1. proc' \in [Procs -> ProcRecord]
    BY DEF IInv, TypeOK
  <1>2. ASSUME NEW q \in Procs PROVE RecordOK(proc'[q], db', logs')
    <2>1. CASE q = p
      BY <2>1 DEF IInv, TypeOK, RecordOK
    <2>2. CASE q # p
      <3>1. proc'[q] = proc[q]
        BY <2>2 DEF IInv, TypeOK
      <3>2. RecordOK(proc[q], db, logs)
        BY DEF IInv
      <3> QED
        BY <2>2, <3>1, <3>2, RecordKept DEF IInv, TypeOK, RecordOK
    <2> QED
      BY <2>1, <2>2
  <1>3. RefusedInv'
    <2> SUFFICES ASSUME IsNewer', NEW q \in Procs PROVE proc'[q].pc \notin Connected
      BY DEF RefusedInv
    <2>1. IsNewer
      BY NewerKept DEF IInv
    <2>2. proc[q].pc \notin Connected /\ proc[p].pc \notin Connected
      BY <2>1 DEF IInv, RefusedInv
    <2>3. proc'[q] = IF q = p THEN r ELSE proc[q]
      BY DEF IInv, TypeOK
    <2> QED
      BY <2>1, <2>2, <2>3
  <1> QED
    BY <1>1, <1>2, <1>3 DEF IInv, TypeOK, FilesKept, FilesTyped

LEMMA FilesUnchanged ==
    ASSUME IInv, UNCHANGED <<db, logs>>
    PROVE  /\ FilesKept /\ LogsInv'
           /\ \A q \in Procs : LogKept(proc[q].log)
           /\ \A r : RecordOK(r, db, logs) => RecordOK(r, db', logs')
  <1>1. FilesKept
    BY DEF IInv, TypeOK, FilesKept
  <1>2. LogsInv' /\ \A q \in Procs : LogKept(proc[q].log)
    BY DEF IInv, TypeOK, LogsInv, LogKept
  <1>3. \A r : RecordOK(r, db, logs) => RecordOK(r, db', logs')
    BY DEF RecordOK
  <1> QED
    BY <1>1, <1>2, <1>3

\* A step that only changes the content of files.
LEMMA FilesOnly ==
    ASSUME IInv, FilesKept, Len(db') = Len(db),
           UNCHANGED <<logs, path, log, proc, writes>>, mishaps' = mishaps \/ Mishap
    PROVE  IInv'
  <1>1. TypeOK'
    BY ConstantsAssumption DEF IInv, TypeOK, FilesKept, Mishap
  <1>2. ASSUME NEW q \in Procs PROVE RecordOK(proc'[q], db', logs')
    <2>1. LogKept(proc[q].log) /\ RecordOK(proc[q], db, logs)
      BY DEF LogKept, IInv
    <2> QED
      BY <2>1, RecordKept DEF IInv, TypeOK
  <1>3. RefusedInv'
    BY NewerKept DEF PathKept, RefusedInv, IInv
  <1> QED
    BY <1>1, <1>2, <1>3 DEF IInv, LogsInv

----------------------------------------------------------------------------
(* The records of the processes *)

Pcs == {"closed", "open"} \cup Opening

LEMMA ClosedRecord ==
    /\ Closed \in ProcRecord
    /\ Closed.pc = "closed" /\ Closed.db = 0 /\ Closed.log = 0
  BY DEF Closed, ProcRecord

LEMMA PcRecord ==
    ASSUME NEW r \in ProcRecord, NEW pc \in Pcs
    PROVE  /\ [r EXCEPT !.pc = pc] \in ProcRecord
           /\ [r EXCEPT !.pc = pc].pc = pc
           /\ [r EXCEPT !.pc = pc].db = r.db
           /\ [r EXCEPT !.pc = pc].log = r.log
           /\ [r EXCEPT !.pc = pc].blamed = r.blamed
           /\ [r EXCEPT !.pc = pc].spurious = r.spurious
           /\ [r EXCEPT !.pc = pc].attempt = r.attempt
  BY DEF ProcRecord, Pcs

LEMMA OpenRecord ==
    ASSUME NEW f \in Nat, NEW l \in Nat
    PROVE  LET new == [Closed EXCEPT !.pc = "open", !.db = f, !.log = l]
           IN  new \in ProcRecord /\ new.pc = "open" /\ new.db = f /\ new.log = l
  <1>1. Closed \in ProcRecord
    BY ClosedRecord
  <1> QED
    BY <1>1 DEF ProcRecord

LEMMA DetachedRecord ==
    ASSUME NEW r \in ProcRecord
    PROVE  LET new == [r EXCEPT !.db = 0, !.log = 0]
           IN  /\ new \in ProcRecord /\ new.db = 0 /\ new.log = 0
               /\ new.pc = r.pc /\ new.blamed = r.blamed
               /\ new.spurious = r.spurious /\ new.attempt = r.attempt
  BY DEF ProcRecord

LEMMA RetryRecord ==
    ASSUME NEW r \in ProcRecord
    PROVE  LET new == [r EXCEPT !.pc = "connect", !.attempt = @ + 1]
           IN  new \in ProcRecord /\ new.pc = "connect"
  <1>1. r.attempt + 1 \in Nat
    BY DEF ProcRecord
  <1>2. [r EXCEPT !.pc = "connect", !.attempt = @ + 1]
          = [r EXCEPT !.pc = "connect", !.attempt = r.attempt + 1]
    BY DEF ProcRecord
  <1>3. ASSUME NEW a \in Nat
        PROVE  LET new == [r EXCEPT !.pc = "connect", !.attempt = a]
               IN  new \in ProcRecord /\ new.pc = "connect"
    BY DEF ProcRecord, Opening
  <1> QED
    BY <1>1, <1>2, <1>3

LEMMA BlamingRecord ==
    ASSUME NEW r \in ProcRecord, NEW f \in Nat
    PROVE  LET new == [r EXCEPT !.pc = "gate", !.blamed = f]
           IN  /\ new \in ProcRecord /\ new.pc = "gate" /\ new.blamed = f
               /\ new.attempt = r.attempt
  BY DEF ProcRecord, Opening

LEMMA SpuriousRecord ==
    ASSUME NEW r \in ProcRecord, NEW b \in BOOLEAN
    PROVE  LET new == [r EXCEPT !.spurious = b]
           IN  /\ new \in ProcRecord /\ new.pc = r.pc /\ new.blamed = r.blamed
               /\ new.spurious = b /\ new.attempt = r.attempt
  BY DEF ProcRecord

LEMMA SettlingRecord ==
    ASSUME NEW r \in ProcRecord, NEW seen \in Nat \X Nat
    PROVE  LET new == [r EXCEPT !.pc = "settled", !.seen = seen]
           IN  /\ new \in ProcRecord /\ new.pc = "settled"
               /\ new.db = r.db /\ new.log = r.log /\ new.blamed = r.blamed
               /\ new.spurious = r.spurious /\ new.attempt = r.attempt
  BY DEF ProcRecord, Opening

LEMMA RenamingRecord ==
    ASSUME NEW r \in ProcRecord
    PROVE  LET new == [r EXCEPT !.pc = "rename", !.seen = <<0, 0>>]
           IN  /\ new \in ProcRecord /\ new.pc = "rename"
               /\ new.db = r.db /\ new.log = r.log /\ new.blamed = r.blamed
               /\ new.spurious = r.spurious /\ new.attempt = r.attempt
  BY DEF ProcRecord, Opening

LEMMA RebuildRecord ==
    ASSUME NEW r \in ProcRecord
    PROVE  LET new == Rebuild(r)
           IN  /\ new \in ProcRecord /\ new.pc = "connect"
               /\ new.db = r.db /\ new.log = r.log
  BY DEF ProcRecord, Opening, Rebuild

\* A record without a connection or evidence has nothing to keep.
LEMMA IdleRecord ==
    ASSUME NEW r, r.pc \in {"closed", "connect", "rename_log"}, r.db = 0, r.log = 0
    PROVE  \A files, wals : RecordOK(r, files, wals)
  BY DEF RecordOK, Connected
----------------------------------------------------------------------------
(* The actions of open_with_recovery *)

\* The steps that leave the files alone.
LEMMA QuietStep ==
    ASSUME IInv, NEW p \in Procs, NEW r \in ProcRecord, proc' = [proc EXCEPT ![p] = r],
           RecordOK(r, db', logs'),
           r.pc \in Connected => proc[p].pc \in Connected,
           UNCHANGED <<db, logs, writes>>, path' \in {path, 0}, log' \in {log, 0},
           mishaps' = mishaps \/ Mishap
    PROVE  IInv'
  <1>1. FilesTyped /\ PathKept
    BY ConstantsAssumption DEF IInv, TypeOK, FilesTyped, PathKept, Mishap
  <1> QED
    BY <1>1, FilesUnchanged, OneProcess

LEMMA TypedRecord ==
    ASSUME IInv, NEW p \in Procs
    PROVE  /\ proc[p] \in ProcRecord /\ RecordOK(proc[p], db, logs)
           /\ proc[p].db \in Nat /\ proc[p].log \in Nat
  <1>1. proc[p] \in ProcRecord /\ RecordOK(proc[p], db, logs)
    BY DEF IInv, TypeOK
  <1> QED
    BY <1>1 DEF ProcRecord

LEMMA StartPreserves ==
    ASSUME IInv, NEW p \in Procs, Start(p)
    PROVE  IInv'
  <1> DEFINE r == [Closed EXCEPT !.pc = "connect"]
  <1>1. r \in ProcRecord /\ r.pc = "connect" /\ r.db = 0 /\ r.log = 0
    BY ClosedRecord, PcRecord DEF Pcs, Opening
  <1> HIDE DEF r
  <1>2. RecordOK(r, db', logs')
    BY <1>1, IdleRecord
  <1> QED
    BY <1>1, <1>2, QuietStep DEF Start, Connected, r

LEMMA CrashPreserves ==
    ASSUME IInv, NEW p \in Procs, Crash(p) \/ QuarantineFails(p)
    PROVE  IInv'
  <1>1. RecordOK(Closed, db', logs')
    BY ClosedRecord, IdleRecord
  <1> QED
    BY <1>1, ClosedRecord, QuietStep DEF Crash, QuarantineFails, Connected

LEMMA VerifyPreserves ==
    ASSUME IInv, NEW p \in Procs, verify_integrity(p)
    PROVE  IInv'
  <1> DEFINE r == [Closed EXCEPT !.pc = "open", !.db = proc[p].db, !.log = proc[p].log]
  <1>1. r \in ProcRecord /\ r.pc = "open" /\ r.db = proc[p].db /\ r.log = proc[p].log
    BY OpenRecord, TypedRecord
  <1>2. RecordOK(r, db, logs)
    BY <1>1, TypedRecord DEF RecordOK, Connected, verify_integrity
  <1>3. RecordOK(r, db', logs')
    BY <1>2, FilesUnchanged DEF verify_integrity
  <1>4. proc[p].pc \in Connected
    BY DEF verify_integrity, Connected
  <1> HIDE DEF r
  <1> QED
    BY <1>1, <1>3, <1>4, QuietStep DEF verify_integrity, r

LEMMA GatePreserves ==
    ASSUME IInv, NEW p \in Procs, Gate(p)
    PROVE  IInv'
  <1> DEFINE r == [proc[p] EXCEPT !.pc = "settled", !.seen = file_fingerprint]
  <1>1. file_fingerprint \in Nat \X Nat
    <2>1. CASE path = 0
      BY <2>1 DEF file_fingerprint
    <2>2. CASE path # 0
      <3>1. path \in DOMAIN db /\ db[path] \in File
        BY <2>2, ElementOfSeq DEF IInv, TypeOK
      <3>2. path \in Nat /\ db[path].touched \in Nat
        BY <3>1 DEF IInv, TypeOK, File
      <3> QED
        BY <2>2, <3>2 DEF file_fingerprint
    <2> QED
      BY <2>1, <2>2
  <1>2. /\ r \in ProcRecord /\ r.pc = "settled"
        /\ r.db = proc[p].db /\ r.log = proc[p].log /\ r.blamed = proc[p].blamed
        /\ r.spurious = proc[p].spurious /\ r.attempt = proc[p].attempt
    BY <1>1, SettlingRecord, TypedRecord
  <1>3. RecordOK(r, db, logs)
    BY <1>2, TypedRecord DEF RecordOK, Founded, Connected, Gate
  <1>4. RecordOK(r, db', logs')
    BY <1>3, FilesUnchanged DEF Gate
  <1>5. proc' = [proc EXCEPT ![p] = r]
    BY DEF Gate
  <1> HIDE DEF r
  <1> QED
    BY <1>2, <1>4, <1>5, QuietStep DEF Gate, Connected

LEMMA SettledPreserves ==
    ASSUME IInv, NEW p \in Procs, Settled(p)
    PROVE  IInv'
  <1> DEFINE renaming == [proc[p] EXCEPT !.pc = "rename", !.seen = <<0, 0>>]
             rebuilding == Rebuild(proc[p])
             r == IF file_fingerprint # proc[p].seen THEN Closed
                  ELSE IF path # 0 THEN renaming ELSE rebuilding
  <1>1. proc' = [proc EXCEPT ![p] = r]
    BY DEF Settled
  <1>2. proc[p].db = 0 /\ proc[p].log = 0
    BY TypedRecord DEF Settled, RecordOK, Connected
  <1>3. renaming \in ProcRecord /\ renaming.pc = "rename" /\ RecordOK(renaming, db, logs)
    <2>1. /\ renaming \in ProcRecord /\ renaming.pc = "rename"
          /\ renaming.db = 0 /\ renaming.log = 0 /\ renaming.blamed = proc[p].blamed
          /\ renaming.spurious = proc[p].spurious /\ renaming.attempt = proc[p].attempt
      BY <1>2, RenamingRecord, TypedRecord
    <2> HIDE DEF renaming
    <2> QED
      BY <2>1, TypedRecord DEF RecordOK, Founded, Connected, Settled
  <1>4. rebuilding \in ProcRecord /\ rebuilding.pc = "connect" /\ RecordOK(rebuilding, db, logs)
    <2>1. /\ rebuilding \in ProcRecord /\ rebuilding.pc = "connect"
          /\ rebuilding.db = 0 /\ rebuilding.log = 0
      BY <1>2, RebuildRecord, TypedRecord
    <2> HIDE DEF rebuilding
    <2> QED
      BY <2>1, IdleRecord
  <1>5. RecordOK(Closed, db, logs)
    BY ClosedRecord, IdleRecord
  <1> HIDE DEF renaming, rebuilding
  <1>6. r \in ProcRecord /\ RecordOK(r, db, logs) /\ r.pc \notin Connected
    BY <1>3, <1>4, <1>5, ClosedRecord DEF Connected
  <1> HIDE DEF r
  <1>7. RecordOK(r, db', logs')
    BY <1>6, FilesUnchanged DEF Settled
  <1> QED
    BY <1>1, <1>6, <1>7, QuietStep DEF Settled

LEMMA QuarantinePreserves ==
    ASSUME IInv, NEW p \in Procs, quarantine(p)
    PROVE  IInv'
  <1> DEFINE r == [proc[p] EXCEPT !.pc = "rename_log"]
  <1>1. proc' = [proc EXCEPT ![p] = r]
    BY DEF quarantine
  <1>2. proc[p].db = 0 /\ proc[p].log = 0
    BY TypedRecord DEF quarantine, RecordOK, Connected
  <1>3. r \in ProcRecord /\ r.pc = "rename_log" /\ r.db = 0 /\ r.log = 0
    BY <1>2, PcRecord, TypedRecord DEF Pcs, Opening
  <1> HIDE DEF r
  <1>4. RecordOK(r, db', logs')
    BY <1>3, IdleRecord
  <1> QED
    BY <1>1, <1>3, <1>4, QuietStep DEF quarantine, Connected

LEMMA SidecarsPreserve ==
    ASSUME IInv, NEW p \in Procs, quarantine_sidecars(p)
    PROVE  IInv'
  <1> DEFINE r == Rebuild(proc[p])
  <1>1. proc' = [proc EXCEPT ![p] = r]
    BY DEF quarantine_sidecars
  <1>2. proc[p].db = 0 /\ proc[p].log = 0
    BY TypedRecord DEF quarantine_sidecars, RecordOK, Connected
  <1>3. r \in ProcRecord /\ r.pc = "connect" /\ r.db = 0 /\ r.log = 0
    BY <1>2, RebuildRecord, TypedRecord
  <1> HIDE DEF r
  <1>4. RecordOK(r, db', logs')
    BY <1>3, IdleRecord
  <1> QED
    BY <1>1, <1>3, <1>4, QuietStep DEF quarantine_sidecars, Connected
----------------------------------------------------------------------------
(* The steps that change logs or files *)

LEMMA LogAppended ==
    ASSUME IInv, logs' = Append(logs, {})
    PROVE  /\ logs' \in Seq(SUBSET Marks) /\ Len(logs') = Len(logs) + 1
           /\ LogsInv'
           /\ \A l : LogKept(l)
  <1>1. /\ logs' \in Seq(SUBSET Marks) /\ Len(logs') = Len(logs) + 1
        /\ \A l \in DOMAIN logs : l \in DOMAIN logs' /\ logs'[l] = logs[l]
        /\ \A l \in DOMAIN logs' : l \in DOMAIN logs \/ logs'[l] = {}
    BY DEF IInv, TypeOK
  <1> QED
    BY <1>1 DEF IInv, LogsInv, LogKept

LEMMA LogGrown ==
    ASSUME IInv, NEW l \in DOMAIN logs, NEW m \in {"schema", "row"},
           logs' = [logs EXCEPT ![l] = @ \cup {m}]
    PROVE  /\ logs' \in Seq(SUBSET Marks) /\ Len(logs') = Len(logs)
           /\ LogsInv'
           /\ \A k : LogKept(k)
           /\ m \in logs'[l]
  <1>1. l \in 1 .. Len(logs) /\ logs[l] \in SUBSET Marks
    BY ElementOfSeq, LenProperties DEF IInv, TypeOK
  <1>2. logs[l] \cup {m} \in SUBSET Marks
    BY <1>1 DEF Marks
  <1>3. /\ logs' \in Seq(SUBSET Marks) /\ Len(logs') = Len(logs)
        /\ DOMAIN logs' = DOMAIN logs
        /\ \A k \in DOMAIN logs : logs'[k] = IF k = l THEN logs[l] \cup {m} ELSE logs[k]
    BY <1>1, <1>2, ExceptSeq DEF IInv, TypeOK
  <1> QED
    BY <1>3 DEF IInv, LogsInv, LogKept

LEMMA FoldKeepsFiles ==
    ASSUME IInv, NEW f \in DOMAIN db, NEW l \in DOMAIN logs, db' = Folded(f, l)
    PROVE  FilesKept /\ Len(db') = Len(db)
  <1>1. "newer" \notin logs[l]
    BY DEF IInv, LogsInv
  <1>2. db \in Seq(File) /\ logs \in Seq(SUBSET Marks)
    BY DEF IInv, TypeOK
  <1>3. db' \in Seq(File) /\ Len(db') = Len(db)
    BY <1>2, FoldedFacts
  <1>4. ASSUME NEW g \in DOMAIN db
        PROVE  /\ db[g].marks \subseteq db'[g].marks
               /\ "newer" \in db'[g].marks => "newer" \in db[g].marks
               /\ db[g].damaged => db'[g].damaged
    <2>1. /\ db[g].marks \subseteq db'[g].marks
          /\ db'[g].marks \subseteq db[g].marks \cup logs[l]
          /\ db'[g].damaged = db[g].damaged
      BY <1>2, FoldedFacts
    <2> QED
      BY <1>1, <2>1
  <1> QED
    BY <1>2, <1>3, <1>4 DEF FilesKept

LEMMA LogDropped ==
    ASSUME IInv, NEW l \in DOMAIN logs, logs' = Dropped(l)
    PROVE  /\ logs' \in Seq(SUBSET Marks) /\ Len(logs') \in Nat
           /\ LogsInv'
           /\ \A k : k # l => LogKept(k)
  <1>1. /\ logs' \in Seq(SUBSET Marks)
        /\ \A m \in DOMAIN logs : m # l => m \in DOMAIN logs'
        /\ \A m \in DOMAIN logs' : m \in DOMAIN logs /\ logs'[m] = logs[m]
    BY DroppedFacts DEF IInv, TypeOK
  <1>2. Len(logs') \in Nat
    BY <1>1, LenProperties
  <1> QED
    BY <1>1, <1>2 DEF IInv, LogsInv, LogKept

LEMMA LeavePreserves ==
    ASSUME IInv, NEW p \in Procs, NEW r \in ProcRecord, Leave(p, r),
           r.pc \notin Connected,
           r.pc \in {"gate", "settled", "rename"} => Founded(r, db),
           writes' = writes, mishaps' = mishaps \/ Mishap
    PROVE  IInv'
  <1> DEFINE new == [r EXCEPT !.db = 0, !.log = 0]
  <1>1. /\ new \in ProcRecord /\ new.db = 0 /\ new.log = 0
        /\ new.pc = r.pc /\ new.blamed = r.blamed
        /\ new.spurious = r.spurious /\ new.attempt = r.attempt
    BY DetachedRecord
  <1>2. proc' = [proc EXCEPT ![p] = new]
    BY DEF Leave
  <1> HIDE DEF new
  <1>3. RecordOK(new, db, logs)
    BY <1>1 DEF RecordOK, Founded, Connected
  <1>4. mishaps' \in 0 .. MaxMishaps /\ writes' \in 0 .. MaxWrites /\ path' = path
    BY ConstantsAssumption DEF IInv, TypeOK, Mishap, Leave
  <1>5. CASE LastOut(p)
    <2>1. proc[p].pc \in Connected
      BY <1>5, TypedRecord DEF LastOut, RecordOK
    <2>2. path \in DOMAIN db /\ log \in DOMAIN logs
      BY <1>5, <2>1, TypedRecord DEF LastOut, RecordOK
    <2>3. db' = Folded(path, log) /\ log' = 0 /\ logs' = Dropped(log)
      BY <1>5 DEF Leave
    <2>4. FilesKept /\ Len(db') = Len(db)
      BY <2>2, <2>3, FoldKeepsFiles
    <2>5. /\ logs' \in Seq(SUBSET Marks) /\ Len(logs') \in Nat
          /\ LogsInv'
          /\ \A k : k # log => LogKept(k)
      BY <2>2, <2>3, LogDropped
    <2>6. \A q \in Procs \ {p} : LogKept(proc[q].log)
      BY <1>5, <2>5 DEF LastOut
    <2>7. FilesTyped
      BY <1>4, <2>3, <2>4, <2>5 DEF FilesTyped, IInv, TypeOK
    <2>8. RecordOK(new, db', logs')
      <3>1. LogKept(new.log)
        BY <1>1 DEF LogKept, IInv, TypeOK
      <3> QED
        BY <1>3, <2>4, <3>1, RecordKept DEF IInv, TypeOK
    <2> QED
      BY <1>1, <1>2, <1>4, <2>4, <2>5, <2>6, <2>7, <2>8, OneProcess DEF PathKept
  <1>6. CASE ~ LastOut(p)
    <2>1. UNCHANGED <<db, logs, path, log>>
      BY <1>6 DEF Leave
    <2>2. RecordOK(new, db', logs')
      BY <1>3, <2>1, FilesUnchanged
    <2> QED
      BY <1>1, <1>2, <2>1, <2>2, QuietStep
  <1> QED
    BY <1>5, <1>6

LEMMA AfterFailureRecord ==
    ASSUME IInv, NEW p \in Procs, NEW e, NEW f \in Nat
    PROVE  /\ AfterFailure(p, e, f) \in ProcRecord
           /\ AfterFailure(p, e, f).pc \in {"closed", "connect", "gate"}
           /\ AfterFailure(p, e, f).pc = "gate" =>
                 /\ e = "corrupt" /\ AfterFailure(p, e, f).blamed = f
                 /\ AfterFailure(p, e, f).attempt >= Attempts
  <1> DEFINE retry == [proc[p] EXCEPT !.pc = "connect", !.attempt = @ + 1]
             blame == [proc[p] EXCEPT !.pc = "gate", !.blamed = f]
  <1>1. retry \in ProcRecord /\ retry.pc = "connect"
    BY TypedRecord, RetryRecord
  <1>2. /\ blame \in ProcRecord /\ blame.pc = "gate" /\ blame.blamed = f
        /\ blame.attempt = proc[p].attempt
    BY TypedRecord, BlamingRecord
  <1>3. proc[p].attempt \in Nat /\ Attempts \in Nat
    BY TypedRecord, ConstantsAssumption DEF ProcRecord
  <1>4. \/ AfterFailure(p, e, f) = Closed
        \/ AfterFailure(p, e, f) = retry
        \/ AfterFailure(p, e, f) = blame /\ e = "corrupt" /\ proc[p].attempt >= Attempts
    BY <1>3 DEF AfterFailure, should_quarantine, is_transient
  <1> HIDE DEF retry, blame
  <1> QED
    BY <1>1, <1>2, <1>4, ClosedRecord

LEMMA FoundCorruptPreserves ==
    ASSUME IInv, NEW p \in Procs, FoundCorrupt(p)
    PROVE  IInv'
  <1> DEFINE f == IF proc[p].db = 0 THEN path ELSE proc[p].db
             r == AfterFailure(p, "corrupt", f)
  <1>1. f # 0 /\ db[f].damaged /\ Leave(p, r)
    BY DEF FoundCorrupt
  <1>2. f \in DOMAIN db /\ f \in Nat
    BY <1>1, TypedRecord DEF IInv, TypeOK, RecordOK
  <1> HIDE DEF f
  <1>3. r \in ProcRecord /\ r.pc \in {"closed", "connect", "gate"} /\ (r.pc = "gate" => r.blamed = f)
    BY <1>2, AfterFailureRecord
  <1> HIDE DEF r
  <1> QED
    BY <1>1, <1>2, <1>3, LeavePreserves DEF FoundCorrupt, Founded, Connected

\* Mimicry that turns to recovery has lasted to the last attempt.
LEMMA FoundSpuriousPreserves ==
    ASSUME IInv, NEW p \in Procs, FoundSpurious(p)
    PROVE  IInv'
  <1> DEFINE f == IF proc[p].db = 0 THEN path ELSE proc[p].db
             next == AfterFailure(p, "corrupt", f)
             b == next.pc = "gate"
             r == [next EXCEPT !.spurious = b]
  <1>1. f # 0 /\ Leave(p, r) /\ writes' = writes /\ (mishaps' = mishaps \/ Mishap)
    BY DEF FoundSpurious
  <1>2. f \in DOMAIN db /\ f \in Nat
    BY <1>1, TypedRecord DEF IInv, TypeOK, RecordOK
  <1> HIDE DEF f
  <1>3. /\ next \in ProcRecord /\ next.pc \in {"closed", "connect", "gate"}
        /\ next.pc = "gate" => next.blamed = f /\ next.attempt >= Attempts
    BY <1>2, AfterFailureRecord
  <1>4. b \in BOOLEAN /\ (b <=> next.pc = "gate")
    OBVIOUS
  <1> HIDE DEF next, b
  <1>5. /\ r \in ProcRecord /\ r.pc = next.pc /\ r.blamed = next.blamed
        /\ r.spurious = b /\ r.attempt = next.attempt
    BY <1>3, <1>4, SpuriousRecord
  <1> HIDE DEF r
  <1> QED
    BY <1>1, <1>2, <1>3, <1>4, <1>5, LeavePreserves DEF Founded, Connected

LEMMA FailedOtherwisePreserves ==
    ASSUME IInv, NEW p \in Procs, NEW e \in {"busy", "io"}, FailedOtherwise(p, e)
    PROVE  IInv'
  <1> DEFINE r == AfterFailure(p, e, path)
  <1>1. path \in Nat
    BY DEF IInv, TypeOK
  <1>2. r \in ProcRecord /\ r.pc \in {"closed", "connect"}
    BY <1>1, AfterFailureRecord
  <1>3. Leave(p, r) /\ Mishap /\ writes' = writes
    BY DEF FailedOtherwise
  <1> HIDE DEF r
  <1> QED
    BY <1>2, <1>3, LeavePreserves DEF Connected
\* A file whose damage is set.
LEMMA SpoiltRecord ==
    ASSUME NEW r \in File, NEW d \in BOOLEAN
    PROVE  /\ [r EXCEPT !.damaged = d] \in File
           /\ [r EXCEPT !.damaged = d].marks = r.marks
           /\ [r EXCEPT !.damaged = d].damaged = d
  BY DEF File

LEMMA TouchedRecord ==
    ASSUME NEW r \in File
    PROVE  LET new == [r EXCEPT !.damaged = TRUE, !.touched = @ + 1]
           IN  new \in File /\ new.marks = r.marks /\ new.damaged
  <1>1. r.touched + 1 \in Nat
    BY DEF File
  <1>2. [r EXCEPT !.damaged = TRUE, !.touched = @ + 1]
          = [r EXCEPT !.damaged = TRUE, !.touched = r.touched + 1]
    BY DEF File
  <1>3. ASSUME NEW t \in Nat
        PROVE  LET new == [r EXCEPT !.damaged = TRUE, !.touched = t]
               IN  new \in File /\ new.marks = r.marks /\ new.damaged = TRUE
    BY DEF File
  <1> QED
    BY <1>1, <1>2, <1>3

\* One file is replaced by one with the same marks and no less damage.
LEMMA DamageKeepsFiles ==
    ASSUME NEW files \in Seq(File), NEW f \in DOMAIN files, NEW new \in File,
           new.marks = files[f].marks, files[f].damaged => new.damaged
    PROVE  LET after == [files EXCEPT ![f] = new]
           IN  /\ after \in Seq(File) /\ Len(after) = Len(files)
               /\ \A g \in DOMAIN files :
                     /\ after[g].marks = files[g].marks
                     /\ files[g].damaged => after[g].damaged
  <1>1. f \in 1 .. Len(files)
    BY LenProperties
  <1>2. /\ [files EXCEPT ![f] = new] \in Seq(File)
        /\ Len([files EXCEPT ![f] = new]) = Len(files)
    BY <1>1, ExceptSeq
  <1>3. \A g \in DOMAIN files :
          [files EXCEPT ![f] = new][g] = IF g = f THEN new ELSE files[g]
    OBVIOUS
  <1> QED
    BY <1>2, <1>3

LEMMA DamagePreserves ==
    ASSUME IInv, Damage
    PROVE  IInv'
  <1> DEFINE new == [db[path] EXCEPT !.damaged = TRUE, !.touched = @ + 1]
  <1>1. path \in DOMAIN db /\ db \in Seq(File)
    BY DEF IInv, TypeOK, Damage
  <1>2. db[path] \in File
    BY <1>1, ElementOfSeq, LenProperties
  <1>3. new \in File /\ new.marks = db[path].marks /\ new.damaged
    BY <1>2, TouchedRecord
  <1>4. db' = [db EXCEPT ![path] = new]
    BY DEF Damage
  <1> HIDE DEF new
  <1>5. /\ db' \in Seq(File) /\ Len(db') = Len(db)
        /\ \A g \in DOMAIN db : db'[g].marks = db[g].marks /\ (db[g].damaged => db'[g].damaged)
    BY <1>1, <1>3, <1>4, DamageKeepsFiles
  <1>6. FilesKept
    BY <1>1, <1>5 DEF FilesKept
  <1> QED
    BY <1>5, <1>6, FilesOnly DEF Damage

LEMMA CheckpointPreserves ==
    ASSUME IInv, NEW p \in Procs, Checkpoint(p)
    PROVE  IInv'
  <1> DEFINE f == proc[p].db
             l == proc[p].log
             folded == Folded(f, l)
  <1>1. f \in DOMAIN db /\ l \in DOMAIN logs /\ db \in Seq(File) /\ logs \in Seq(SUBSET Marks)
    BY TypedRecord DEF Checkpoint, RecordOK, Connected, IInv, TypeOK
  <1>2. "newer" \notin logs[l]
    BY <1>1 DEF IInv, LogsInv
  <1>3. PICK spoilt \in BOOLEAN : db' = [folded EXCEPT ![f].damaged = @ \/ spoilt]
    BY DEF Checkpoint
  <1>4. /\ folded \in Seq(File) /\ Len(folded) = Len(db)
        /\ \A g \in DOMAIN db :
              /\ db[g].marks \subseteq folded[g].marks
              /\ folded[g].marks \subseteq db[g].marks \cup logs[l]
              /\ folded[g].damaged = db[g].damaged
    BY <1>1, FoldedFacts
  <1> HIDE DEF folded, f, l
  <1>5. f \in DOMAIN folded /\ DOMAIN folded = DOMAIN db /\ folded[f] \in File
    BY <1>1, <1>4, ElementOfSeq, LenProperties
  <1> DEFINE d == folded[f].damaged \/ spoilt
             new == [folded[f] EXCEPT !.damaged = d]
  <1>6. new \in File /\ new.marks = folded[f].marks /\ (folded[f].damaged => new.damaged)
    <2>1. d \in BOOLEAN /\ (folded[f].damaged => d)
      OBVIOUS
    <2> HIDE DEF d
    <2>2. new \in File /\ new.marks = folded[f].marks /\ new.damaged = d
      BY <1>5, <2>1, SpoiltRecord
    <2> QED
      BY <2>1, <2>2
  <1>7. db' = [folded EXCEPT ![f] = new]
    BY <1>3
  <1> HIDE DEF new
  <1>8. /\ db' \in Seq(File) /\ Len(db') = Len(folded)
        /\ \A g \in DOMAIN folded :
              db'[g].marks = folded[g].marks /\ (folded[g].damaged => db'[g].damaged)
    BY <1>4, <1>5, <1>6, <1>7, DamageKeepsFiles
  <1>9. FilesKept /\ Len(db') = Len(db)
    <2>1. Len(db') = Len(db) /\ Len(db) \in Nat
      BY <1>1, <1>4, <1>8, LenProperties
    <2>2. ASSUME NEW g \in DOMAIN db
          PROVE  /\ db[g].marks \subseteq db'[g].marks
                 /\ "newer" \in db'[g].marks => "newer" \in db[g].marks
                 /\ db[g].damaged => db'[g].damaged
      BY <1>2, <1>4, <1>5, <1>8
    <2> QED
      BY <1>8, <2>1, <2>2 DEF FilesKept
  <1> QED
    BY <1>9, FilesOnly DEF Checkpoint

LEMMA WritePreserves ==
    ASSUME IInv, NEW p \in Procs, Write(p)
    PROVE  IInv'
  <1>1. proc[p].log \in DOMAIN logs
    BY TypedRecord DEF Write, RecordOK, Connected
  <1>2. /\ logs' \in Seq(SUBSET Marks) /\ Len(logs') = Len(logs)
        /\ LogsInv' /\ \A k : LogKept(k)
    BY <1>1, LogGrown DEF Write
  <1>3. FilesKept
    BY DEF Write, IInv, TypeOK, FilesKept
  <1>4. \A q \in Procs : RecordOK(proc'[q], db', logs')
    <2> SUFFICES ASSUME NEW q \in Procs PROVE RecordOK(proc[q], db', logs')
      BY DEF Write
    <2> QED
      BY <1>2, <1>3, TypedRecord, RecordKept DEF IInv, TypeOK
  <1>5. TypeOK'
    BY <1>2, ConstantsAssumption DEF Write, IInv, TypeOK
  <1> QED
    BY <1>2, <1>4, <1>5 DEF Write, IInv, RefusedInv, IsNewer

LEMMA MigratePreserves ==
    ASSUME IInv, NEW p \in Procs, migrate(p)
    PROVE  IInv'
  <1> DEFINE r == [proc[p] EXCEPT !.pc = "verify"]
  <1>1. proc[p].pc \in Connected /\ proc[p].log \in DOMAIN logs /\ proc[p].db \in DOMAIN db
    BY TypedRecord DEF migrate, RecordOK, Connected
  <1>2. /\ logs' \in Seq(SUBSET Marks) /\ Len(logs') = Len(logs)
        /\ LogsInv' /\ (\A k : LogKept(k)) /\ "schema" \in logs'[proc[p].log]
    BY <1>1, LogGrown DEF migrate
  <1>3. r \in ProcRecord /\ r.pc = "verify" /\ r.db = proc[p].db /\ r.log = proc[p].log
    BY PcRecord, TypedRecord DEF Pcs, Opening
  <1>4. proc' = [proc EXCEPT ![p] = r]
    BY DEF migrate
  <1> HIDE DEF r
  <1>5. FilesKept
    BY DEF migrate, IInv, TypeOK, FilesKept
  <1>6. RecordOK(r, db', logs')
    <2>1. r.db \in DOMAIN db' /\ r.log \in DOMAIN logs' /\ "newer" \notin db'[r.db].marks
      BY <1>1, <1>2, <1>3, TypedRecord DEF RecordOK, migrate, LogKept
    <2> QED
      BY <1>2, <1>3, <2>1 DEF RecordOK, Connected
  <1>7. FilesTyped /\ PathKept
    BY <1>2 DEF migrate, IInv, TypeOK, FilesTyped, PathKept
  <1> QED
    BY <1>1, <1>2, <1>3, <1>4, <1>5, <1>6, <1>7, OneProcess
LEMMA ConnectFreshPreserves ==
    ASSUME IInv, NEW p \in Procs, ConnectFresh(p)
    PROVE  IInv'
  <1> DEFINE file == [marks |-> {}, damaged |-> FALSE, touched |-> 0]
             r == [proc[p] EXCEPT !.pc = "migrate", !.db = path', !.log = log']
  <1>1. file \in File /\ file.marks = {}
    BY DEF File
  <1>2. db' = Append(db, file) /\ db \in Seq(File)
    BY DEF ConnectFresh, IInv, TypeOK
  <1> HIDE DEF file
  <1>3. /\ db' \in Seq(File) /\ Len(db') = Len(db) + 1 /\ Len(db) \in Nat
        /\ \A f \in DOMAIN db : f \in DOMAIN db' /\ db'[f] = db[f]
        /\ Len(db') \in DOMAIN db' /\ db'[Len(db')] = file
    BY <1>1, <1>2, AppendProperties, LenProperties
  <1>4. FilesKept
    BY <1>2, <1>3 DEF FilesKept
  <1>5. /\ logs' \in Seq(SUBSET Marks) /\ Len(logs') = Len(logs) + 1
        /\ LogsInv' /\ \A l : LogKept(l)
    BY LogAppended DEF ConnectFresh
  <1>6. path' = Len(db') /\ log' = Len(logs') /\ path' \in Nat /\ log' \in Nat /\ log' \in DOMAIN logs'
    BY <1>3, <1>5 DEF ConnectFresh, IInv, TypeOK
  <1>7. r \in ProcRecord /\ r.pc = "migrate" /\ r.db = path' /\ r.log = log'
    <2>1. "migrate" \in Pcs
      BY DEF Pcs, Opening
    <2>2. proc[p] \in ProcRecord
      BY TypedRecord
    <2> QED
      BY <1>6, <2>1, <2>2 DEF ProcRecord, Pcs
  <1>8. proc' = [proc EXCEPT ![p] = r]
    BY DEF ConnectFresh
  <1> HIDE DEF r
  <1>9. RecordOK(r, db', logs')
    BY <1>1, <1>3, <1>6, <1>7 DEF RecordOK, Connected
  <1>10. PathKept /\ FilesTyped
    BY <1>1, <1>3, <1>5, <1>6 DEF PathKept, FilesTyped, ConnectFresh, IInv, TypeOK
  <1>11. ~ IsNewer
    BY DEF ConnectFresh, IsNewer
  <1> QED
    BY <1>4, <1>5, <1>7, <1>8, <1>9, <1>10, <1>11, OneProcess

LEMMA ConnectPreserves ==
    ASSUME IInv, NEW p \in Procs, Connect(p)
    PROVE  IInv'
  <1> DEFINE next == IF "schema" \in db[path].marks \cup logs'[log'] THEN "verify" ELSE "migrate"
             r == [proc[p] EXCEPT !.pc = next, !.db = path, !.log = log']
  <1>1. path \in DOMAIN db /\ path \in Nat /\ "newer" \notin db[path].marks
    BY DEF Connect, IsNewer, IInv, TypeOK
  <1>2. FilesKept /\ db' = db /\ path' = path
    BY DEF Connect, IInv, TypeOK, FilesKept
  <1>3. /\ logs' \in Seq(SUBSET Marks) /\ LogsInv' /\ (\A l : LogKept(l))
        /\ log' \in DOMAIN logs' /\ log' \in Nat /\ log' \in 0 .. Len(logs')
    <2>1. CASE log = 0
      BY <2>1, LogAppended DEF Connect, IInv, TypeOK
    <2>2. CASE log # 0
      BY <2>2 DEF Connect, IInv, TypeOK, LogsInv, LogKept
    <2> QED
      BY <2>1, <2>2
  <1>4. next \in {"verify", "migrate"} /\ (next = "verify" => "schema" \in db[path].marks \cup logs'[log'])
    OBVIOUS
  <1>5. proc' = [proc EXCEPT ![p] = r]
    BY DEF Connect
  <1> HIDE DEF next
  <1>6. r \in ProcRecord /\ r.pc = next /\ r.db = path /\ r.log = log'
    <2>1. next \in Pcs
      BY <1>4 DEF Pcs, Opening
    <2>2. proc[p] \in ProcRecord
      BY TypedRecord
    <2> QED
      BY <1>1, <1>3, <2>1, <2>2 DEF ProcRecord, Pcs
  <1> HIDE DEF r
  <1>7. RecordOK(r, db', logs')
    BY <1>1, <1>2, <1>3, <1>4, <1>6 DEF RecordOK, Connected
  <1>8. PathKept /\ FilesTyped
    BY <1>2, <1>3 DEF PathKept, FilesTyped, Connect, IInv, TypeOK
  <1> QED
    BY <1>2, <1>3, <1>5, <1>6, <1>7, <1>8, OneProcess DEF Connect

LEMMA RefuseNewerPreserves ==
    ASSUME IInv, NEW p \in Procs, RefuseNewer(p)
    PROVE  IInv'
  <1>1. path \in DOMAIN db /\ path' = path
    BY DEF RefuseNewer, IsNewer, IInv, TypeOK
  <1>2. \A q \in Procs : proc[q].log = 0
    BY TypedRecord DEF RefuseNewer, IInv, RefusedInv, RecordOK
  <1>3. \A q \in Procs : LogKept(proc[q].log)
    BY <1>2 DEF LogKept, IInv, TypeOK
  <1>4. FilesKept /\ Len(db') = Len(db) /\ LogsInv' /\ logs' \in Seq(SUBSET Marks) /\ Len(logs') \in Nat
    <2>1. CASE log = 0
      BY <2>1, FilesUnchanged DEF RefuseNewer, IInv, TypeOK
    <2>2. CASE log # 0
      <3>1. log \in DOMAIN logs
        BY <2>2 DEF IInv, TypeOK
      <3>2. db' = Folded(path, log) /\ logs' = Dropped(log)
        BY <2>2 DEF RefuseNewer
      <3> QED
        BY <1>1, <3>1, <3>2, FoldKeepsFiles, LogDropped
    <2> QED
      BY <2>1, <2>2
  <1>5. PathKept /\ FilesTyped
    BY <1>1, <1>4 DEF PathKept, FilesTyped, RefuseNewer, IInv, TypeOK
  <1>6. RecordOK(Closed, db', logs')
    BY ClosedRecord, IdleRecord
  <1> QED
    BY <1>3, <1>4, <1>5, <1>6, ClosedRecord, OneProcess DEF RefuseNewer, Connected

----------------------------------------------------------------------------
(* The invariant *)

LEMMA InitIInv == Init => IInv
  <1> SUFFICES ASSUME Init PROVE IInv
    OBVIOUS
  <1>1. \A p \in Procs : proc[p] = Closed
    BY DEF Init
  <1>2. /\ proc \in [Procs -> ProcRecord]
        /\ \A p \in Procs : RecordOK(proc[p], db, logs)
    BY <1>1, ClosedRecord, IdleRecord DEF Init
  <1>3. /\ db \in Seq(File) /\ path \in 0 .. Len(db)
        /\ path # 0 => path = 1
    <2>1. CASE db = <<>> /\ path = 0
      BY <2>1
    <2>2. ASSUME NEW m \in {{"row"}, {"schema"}, {"schema", "newer"}}, NEW d \in BOOLEAN,
                 db = <<[marks |-> m, damaged |-> d, touched |-> 0]>>, path = 1
          PROVE  db \in Seq(File) /\ path \in 0 .. Len(db)
      <3>1. [marks |-> m, damaged |-> d, touched |-> 0] \in File
        BY DEF File, Marks
      <3> QED
        BY <2>2, <3>1
    <2> QED
      BY <2>1, <2>2 DEF Init
  <1>4. logs \in Seq(SUBSET Marks) /\ log \in 0 .. Len(logs) /\ LogsInv
    <2>1. {"row"} \in SUBSET Marks
      BY DEF Marks
    <2>2. CASE path = 1
      <3>1. logs = <<{"row"}>> /\ log = 1
        BY <2>2 DEF Init
      <3> QED
        BY <2>1, <3>1 DEF LogsInv
    <2>3. CASE path # 1
      BY <2>3 DEF Init, LogsInv
    <2> QED
      BY <2>2, <2>3
  <1>5. RefusedInv
    BY <1>1, ClosedRecord DEF RefusedInv, Connected
  <1> QED
    BY <1>2, <1>3, <1>4, <1>5, ConstantsAssumption DEF IInv, TypeOK, Init

LEMMA NextIInv == IInv /\ [Next]_vars => IInv'
  <1> SUFFICES ASSUME IInv, [Next]_vars PROVE IInv'
    OBVIOUS
  <1>1. CASE UNCHANGED vars
    BY <1>1, NoStep
  <1>2. CASE Damage
    BY <1>2, DamagePreserves
  <1>3. ASSUME NEW p \in Procs, OpenStep(p)
        PROVE  IInv'
    BY <1>3, ConnectFreshPreserves, ConnectPreserves, RefuseNewerPreserves, MigratePreserves,
       VerifyPreserves, FoundCorruptPreserves, GatePreserves, SettledPreserves,
       QuarantinePreserves, SidecarsPreserve, CrashPreserves DEF OpenStep
  <1>4. ASSUME NEW p \in Procs,
               \/ Start(p) \/ FoundSpurious(p)
               \/ \E e \in {"busy", "io"} : FailedOtherwise(p, e)
               \/ Write(p) \/ Checkpoint(p) \/ Crash(p)
        PROVE  IInv'
    BY <1>4, StartPreserves, FoundSpuriousPreserves, FailedOtherwisePreserves, WritePreserves, CheckpointPreserves,
       CrashPreserves
  <1> QED
    BY <1>1, <1>2, <1>3, <1>4 DEF Next

LEMMA IInvInvariant == Spec => []IInv
  BY InitIInv, NextIInv, PTL DEF Spec

----------------------------------------------------------------------------
(* The theorems *)

(***************************************************************************)
(* The files, the logs and the connections stay what they are: no index of *)
(* a connection ever outlives its file, though logs are dropped and their  *)
(* places used again.                                                      *)
(***************************************************************************)
THEOREM TypeCorrect == Spec => []TypeOK
  BY IInvInvariant, PTL DEF IInv

(***************************************************************************)
(* open_with_recovery hands out a connection only to this build's schema,  *)
(* whoever migrated, renamed or rebuilt the file meanwhile, and never to   *)
(* one of a later build.                                                   *)
(***************************************************************************)
THEOREM SchemaCorrect == Spec => []SchemaBeforeUse
  <1>1. IInv => SchemaBeforeUse
    <2> SUFFICES ASSUME IInv, NEW p \in Procs, proc[p].pc = "open"
                 PROVE  /\ "schema" \in Reads(proc[p].db, proc[p].log)
                        /\ "newer" \notin Reads(proc[p].db, proc[p].log)
      BY DEF SchemaBeforeUse
    <2> QED
      BY TypedRecord DEF RecordOK, Connected, Reads, IInv, LogsInv
  <1> QED
    BY <1>1, IInvInvariant, PTL

(***************************************************************************)
(* quarantine renames only on evidence: the process has found a damaged    *)
(* file, and what it moves aside is that file or the one that took its     *)
(* place; or each of its attempts has failed, and contention mimicked      *)
(* corruption at the last one.  Locks, I/O errors and crashes never get a  *)
(* process there, nor does mimicry that clears before.                     *)
(***************************************************************************)
THEOREM QuarantineCorrect == Spec => QuarantineFollowsEvidence
  <1>1. IInv => \A p \in Procs :
          quarantine(p) /\ path # 0
            => \/ db[path].damaged
               \/ path # proc[p].blamed /\ db[proc[p].blamed].damaged
               \/ proc[p].spurious /\ proc[p].attempt >= Attempts
    <2> SUFFICES ASSUME IInv, NEW p \in Procs, quarantine(p), path # 0
                 PROVE  \/ db[path].damaged
                        \/ path # proc[p].blamed /\ db[proc[p].blamed].damaged
                        \/ proc[p].spurious /\ proc[p].attempt >= Attempts
      OBVIOUS
    <2>1. \/ db[proc[p].blamed].damaged
          \/ proc[p].spurious /\ proc[p].attempt >= Attempts
      BY TypedRecord DEF quarantine, RecordOK, Founded
    <2> QED
      BY <2>1
  <1> QED
    BY <1>1, IInvInvariant, PTL DEF QuarantineFollowsEvidence
=============================================================================
