----------------------- MODULE SkillPublicationProofs -----------------------
(***************************************************************************)
(* Proofs about SkillPublication, for every number of calls, processes,    *)
(* workspaces, lineages and contents, every history and any interleaving.  *)
(***************************************************************************)
EXTENDS SkillPublication, TLAPS, SequenceTheorems, FiniteSetTheorems

----------------------------------------------------------------------------
(* The inductive invariant of every interleaving *)

Publishing == {"disk", "check", "create", "write", "rename", "commit"}

\* What a handler took from rows it read some closures ago is still a lower
\* bound of what the rows say by now: the number it will insert is at most one
\* past the end of the chain, and a number past the first has a parent, so that
\* the version it follows gives way.  sk and vs are the tables.
Moving(k, n) ==
    /\ k.op = "approve" => k.content \in Contents /\ k.anchor <= n
    /\ k.pc \in {"name", "lineage", "vacant"} => k.op = "approve"
    /\ k.pc = "vacant" => k.number = 1 /\ k.anchor = 0
    /\ k.pc = "versions" => k.op = "rollback" /\ n > 0
    /\ k.pc = "active" =>
          /\ n > 0 /\ k.content \in Contents
          /\ \/ /\ k.op = "approve" /\ k.number > 1 /\ k.number <= n + 1
                /\ k.anchor \in {0, k.number - 1}
             \/ k.op = "rollback" /\ k.parent > 0
    /\ k.pc \in Publishing =>
          /\ k.op \in {"approve", "rollback"} /\ k.content \in Contents
          /\ k.number > 0 /\ k.number <= n + 1
          /\ k.number = 1 \/ k.parent > 0
          /\ k.op = "approve" => k.anchor \in {0, k.number - 1}
          /\ k.op = "rollback" => k.number > 1
    /\ k.pc \in {"remove", "retire"} => k.op = "deprecate" /\ n > 0

Reported(k, rows) ==
    /\ k.number \in DOMAIN rows
    /\ rows[k.number].source = k.content
    /\ k.anchor \in {0, k.number - 1}

CallOK(k, sk, vs) ==
    /\ k.at # "idle" => k.pc = "dead"
    /\ k.pc \in Steps \cup {"done"} => k.lineage \in Lineages
    /\ k.pc \in Steps => Moving(k, sk[k.lineage].current_version)
    /\ k.pc = "done" /\ k.op = "approve" => Reported(k, vs[k.lineage])

\* No candidate is anchored past the end of its lineage, and the candidate a
\* version came from stays active.
Anchors ==
    /\ \A k \in Candidates : candidate[k].based_on_version <= skill[k[1]].current_version
    /\ \A l \in Lineages : \A n \in DOMAIN version[l] :
          version[l][n].source # None => candidate[<<l, version[l][n].source>>].status = "active"

RegistryInv ==
    /\ TypeOK
    /\ LineageConsistent
    /\ Anchors
    /\ \A c \in Calls : CallOK(call[c], skill, version)

----------------------------------------------------------------------------
(* What handlers that take turns on one mutation_lock leave and find *)

\* The one handler at work finds the rows as it read them.  sk and ca are the
\* tables.
Turn(k, sk, ca) ==
    /\ k.op = "approve" => ca[<<k.lineage, k.content>>].based_on_version = k.anchor
    /\ k.op # "approve" => sk[k.lineage].status = "active"
    /\ k.op = "approve" /\ k.pc # "name" =>
          \A l \in Lineages : sk[l].status # "none" => l = k.lineage
    /\ k.pc \in Publishing \cup {"vacant"} \/ (k.pc = "active" /\ k.op = "approve") =>
          k.number = sk[k.lineage].current_version + 1

TurnsInv ==
    OneLock =>
        /\ \A c, d \in Calls : Running(c) /\ Running(d) => c = d
        /\ \A l, m \in Lineages : Exists(l) /\ Exists(m) => l = m
        /\ \A c \in Calls : Running(c) => Turn(call[c], skill, candidate)
        /\ \A l \in Lineages : \A n \in DOMAIN version[l] :
              LET k == <<l, version[l][n].source>>
              IN  (version[l][n].source # None /\ candidate[k].based_on_version > 0)
                     => n = candidate[k].based_on_version + 1

\* Nobody but handlers in turn, none of them cut off between its two effects.
Undisturbed ==
    OneLock /\ edits = 0 /\ \A c \in Calls : call[c].at \notin {"commit", "retire"}

\* The file is what the active lineage says.
Matching ==
    /\ \A l \in Lineages :
          skill[l].status = "active" => OnDisk = version[l][skill[l].current_version].content
    /\ Live = {} => file = None

\* A call that has created no inode of its own yet.
Early == {"never", "idle"} \cup (Steps \ {"write", "rename", "commit"})

FileInv ==
    Undisturbed =>
        /\ tmp # None => tmp # file
        /\ \A c \in Calls : call[c].pc \in Early => c # file /\ c # tmp
        /\ \A c \in Calls : call[c].pc = "write" =>
              call[c].fd = tmp /\ tmp # None /\ data[tmp] = Empty
        /\ \A c \in Calls : call[c].pc = "rename" => tmp # None /\ data[tmp] = call[c].content
        /\ \A c \in Calls : call[c].pc = "commit" => file # None /\ data[file] = call[c].content
        /\ \A c \in Calls : call[c].pc = "retire" => file = None
        /\ (\A c \in Calls : call[c].pc \notin {"commit", "retire"}) => Matching

----------------------------------------------------------------------------
(* Type correctness of the edits the handlers make to their locals *)

Pcs == {"never", "idle", "done", "refused", "dead"} \cup Steps
Whys == {"none", "gate", "name", "stale", "unowned", "drift", "missing", "conflict", "fs",
         "slot", "target"}

LEMMA CallRecordShape ==
    CallRecord =
        [pc : Pcs, at : Steps \cup {"idle"}, op : {"approve", "rollback", "deprecate"},
         lineage : Lineages \cup {None}, content : Contents \cup {None}, anchor : Nat,
         number : Nat, parent : Nat, expected : Contents \cup {None},
         fd : Inodes \cup {None}, why : Whys]
  BY DEF CallRecord, Pcs, Whys

LEMMA FreshType == Fresh \in CallRecord
  BY DEF Fresh, CallRecord

LEMMA FreshFields ==
    /\ Fresh.pc = "idle" /\ Fresh.at = "idle" /\ Fresh.anchor = 0 /\ Fresh.number = 0
    /\ Fresh.parent = 0 /\ Fresh.content = None
  BY DEF Fresh

LEMMA PcFields ==
    ASSUME NEW k \in CallRecord, NEW pc \in Pcs
    PROVE  LET n == [k EXCEPT !.pc = pc]
           IN  /\ n \in CallRecord /\ n.pc = pc /\ n.at = k.at /\ n.op = k.op
               /\ n.lineage = k.lineage /\ n.content = k.content /\ n.anchor = k.anchor
               /\ n.number = k.number /\ n.parent = k.parent /\ n.fd = k.fd
  BY DEF CallRecord, Pcs

LEMMA RefuseFields ==
    ASSUME NEW k \in CallRecord, NEW why \in Whys
    PROVE  LET n == [k EXCEPT !.pc = "refused", !.why = why]
           IN  n \in CallRecord /\ n.pc = "refused" /\ n.at = k.at
  <1>1. "refused" \in Pcs
    BY DEF Pcs
  <1> QED
    BY <1>1, CallRecordShape

LEMMA DeadFields ==
    ASSUME NEW k \in CallRecord, k.pc \in Steps
    PROVE  LET n == [k EXCEPT !.pc = "dead", !.at = k.pc]
           IN  n \in CallRecord /\ n.pc = "dead" /\ n.at = k.pc
  BY DEF CallRecord

----------------------------------------------------------------------------
(* Steps that leave the registry alone *)

\* A handler moves to k.
LEMMA CallStep ==
    ASSUME RegistryInv, NEW c \in Calls, NEW k \in CallRecord,
           call' = [call EXCEPT ![c] = k], CallOK(k, skill, version), UNCHANGED registry,
           file' \in Inodes \cup {None}, tmp' \in Inodes \cup {None},
           data' \in [Inodes -> Contents \cup {Empty, Torn}],
           edits' = edits, failures' \in 0 .. MaxFailures
    PROVE  RegistryInv'
  <1>1. /\ skill' = skill /\ version' = version /\ candidate' = candidate
    BY DEF registry
  <1>2. TypeOK /\ LineageConsistent /\ Anchors /\ \A d \in Calls : CallOK(call[d], skill, version)
    BY DEF RegistryInv
  <1>3. call \in [Calls -> CallRecord]
    BY <1>2 DEF TypeOK
  <1>4. call' \in [Calls -> CallRecord] /\ call'[c] = k /\ \A d \in Calls : d # c => call'[d] = call[d]
    BY <1>3
  <1>5. TypeOK'
    BY <1>1, <1>2, <1>4 DEF TypeOK
  <1>6. LineageConsistent' /\ Anchors'
    BY <1>1, <1>2 DEF LineageConsistent, Exists, Anchors
  <1>7. \A d \in Calls : CallOK(call'[d], skill', version')
    BY <1>1, <1>2, <1>4
  <1> QED
    BY <1>5, <1>6, <1>7 DEF RegistryInv

LEMMA Facts ==
    ASSUME RegistryInv, NEW c \in Calls
    PROVE  /\ call[c] \in CallRecord /\ CallOK(call[c], skill, version)
           /\ call[c].pc # "dead" => call[c].at = "idle"
           /\ call[c].pc \in Steps =>
                 /\ call[c].lineage \in Lineages
                 /\ Moving(call[c], skill[call[c].lineage].current_version)
                 /\ skill[call[c].lineage] \in SkillRow
                 /\ skill[call[c].lineage].current_version \in Nat
  BY DEF RegistryInv, TypeOK, CallOK, SkillRow

LEMMA DiskFacts ==
    ASSUME RegistryInv
    PROVE  /\ file \in Inodes \cup {None} /\ tmp \in Inodes \cup {None}
           /\ data \in [Inodes -> Contents \cup {Empty, Torn}]
           /\ edits \in 0 .. MaxEdits /\ failures \in 0 .. MaxFailures
  BY DEF RegistryInv, TypeOK

LEMMA RefuseStep ==
    ASSUME RegistryInv, NEW c \in Calls, call[c].pc \in Steps, NEW why \in Whys,
           Refuse(c, why), UNCHANGED <<registry, disk, edits, failures>>
    PROVE  RegistryInv'
  <1> DEFINE k == [call[c] EXCEPT !.pc = "refused", !.why = why]
  <1>1. call' = [call EXCEPT ![c] = k]
    BY DEF Refuse
  <1>2. call[c] \in CallRecord /\ call[c].at = "idle"
    BY Facts DEF Steps
  <1>3. k \in CallRecord /\ k.pc = "refused" /\ k.at = "idle"
    BY <1>2, RefuseFields
  <1> HIDE DEF k
  <1>4. CallOK(k, skill, version)
    BY <1>3 DEF CallOK, Steps
  <1> QED
    BY <1>1, <1>3, <1>4, CallStep, DiskFacts DEF disk

\* The next step of a handler that keeps what it has read.
LEMMA GotoStep ==
    ASSUME RegistryInv, NEW c \in Calls, call[c].pc \in Steps, NEW pc \in Steps, Goto(c, pc),
           Moving([call[c] EXCEPT !.pc = pc], skill[call[c].lineage].current_version),
           UNCHANGED registry,
           file' \in Inodes \cup {None}, tmp' \in Inodes \cup {None},
           data' \in [Inodes -> Contents \cup {Empty, Torn}],
           edits' = edits, failures' = failures
    PROVE  RegistryInv'
  <1> DEFINE k == [call[c] EXCEPT !.pc = pc]
  <1>1. call' = [call EXCEPT ![c] = k]
    BY DEF Goto
  <1>2. call[c] \in CallRecord /\ call[c].at = "idle" /\ call[c].lineage \in Lineages
    BY Facts DEF Steps
  <1>3. k \in CallRecord /\ k.pc = pc /\ k.at = "idle" /\ k.lineage = call[c].lineage
    BY <1>2, PcFields DEF Pcs
  <1>4. Moving(k, skill[call[c].lineage].current_version)
    OBVIOUS
  <1> HIDE DEF k
  <1>5. k.pc # "done"
    BY <1>3 DEF Steps
  <1>6. CallOK(k, skill, version)
    BY <1>2, <1>3, <1>4, <1>5 DEF CallOK
  <1> QED
    BY <1>1, <1>3, <1>6, CallStep, DiskFacts

\* The calls arrive.
LEMMA ApproveInv ==
    ASSUME RegistryInv, NEW c \in Calls, NEW q \in Candidates, Approve(c, q)
    PROVE  RegistryInv'
  <1>1. /\ q[1] \in Lineages /\ q[2] \in Contents /\ candidate[q] \in CandidateRow
        /\ candidate[q].based_on_version <= skill[q[1]].current_version
    BY DEF RegistryInv, TypeOK, Anchors, Candidates
  <1>2. candidate[q].based_on_version \in Nat
    BY <1>1 DEF CandidateRow
  <1>3. PICK pc \in {"name", "refused"}, why \in {"none", "gate"} :
           call' = [call EXCEPT ![c] =
              [Fresh EXCEPT !.pc = pc, !.why = why, !.op = "approve", !.lineage = q[1],
                            !.content = q[2], !.anchor = candidate[q].based_on_version]]
    BY DEF Approve
  <1> DEFINE a == candidate[q].based_on_version
             k == [Fresh EXCEPT !.pc = pc, !.why = why, !.op = "approve", !.lineage = q[1],
                                !.content = q[2], !.anchor = a]
  <1>4. pc \in Pcs /\ why \in Whys
    BY DEF Pcs, Whys, Steps
  <1>5. call' = [call EXCEPT ![c] = k] /\ UNCHANGED <<registry, disk, edits, failures>>
    BY <1>3 DEF Approve
  <1>6. a \in Nat /\ a <= skill[q[1]].current_version
    BY <1>1, <1>2
  <1> HIDE DEF a
  <1>7. /\ k \in CallRecord /\ k.pc = pc /\ k.at = "idle" /\ k.op = "approve"
        /\ k.lineage = q[1] /\ k.content = q[2] /\ k.anchor = a
    <2>1. k \in CallRecord
      BY <1>1, <1>4, <1>6, FreshType, CallRecordShape
    <2> QED
      BY <2>1, <1>4, FreshType, FreshFields, CallRecordShape
  <1> HIDE DEF k
  <1>8. Moving(k, skill[k.lineage].current_version)
    BY <1>1, <1>3, <1>6, <1>7 DEF Moving, Publishing
  <1>9. CallOK(k, skill, version)
    BY <1>1, <1>7, <1>8 DEF CallOK
  <1> QED
    BY <1>5, <1>7, <1>9, CallStep, DiskFacts DEF disk

LEMMA OpenInv ==
    ASSUME RegistryInv, NEW c \in Calls, NEW l \in Lineages, Rollback(c, l) \/ Deprecate(c, l)
    PROVE  RegistryInv'
  <1>1. skill[l].current_version > 0
    BY DEF Rollback, Deprecate, RegistryInv, LineageConsistent
  <1>2. PICK pc \in {"versions", "remove", "refused"}, why \in {"none", "gate"},
             op \in {"rollback", "deprecate"} :
           /\ call' = [call EXCEPT ![c] =
                 [Fresh EXCEPT !.pc = pc, !.why = why, !.op = op, !.lineage = l]]
           /\ pc = "versions" => op = "rollback"
           /\ pc = "remove" => op = "deprecate"
    BY DEF Rollback, Deprecate
  <1> DEFINE k == [Fresh EXCEPT !.pc = pc, !.why = why, !.op = op, !.lineage = l]
  <1>3. pc \in Pcs /\ why \in Whys /\ op \in {"approve", "rollback", "deprecate"}
    BY DEF Pcs, Whys, Steps
  <1>4. call' = [call EXCEPT ![c] = k] /\ UNCHANGED <<registry, disk, edits, failures>>
    BY <1>2 DEF Rollback, Deprecate
  <1>5. k \in CallRecord /\ k.pc = pc /\ k.at = "idle" /\ k.op = op /\ k.lineage = l
    <2>1. k \in CallRecord
      BY <1>3, FreshType, CallRecordShape
    <2> QED
      BY <2>1, <1>3, FreshType, FreshFields, CallRecordShape
  <1> HIDE DEF k
  <1>6. Moving(k, skill[k.lineage].current_version)
    BY <1>1, <1>2, <1>5 DEF Moving, Publishing
  <1>7. CallOK(k, skill, version)
    BY <1>2, <1>5, <1>6 DEF CallOK
  <1> QED
    BY <1>4, <1>5, <1>7, CallStep, DiskFacts DEF disk

\* A check passes and the handler goes on, or it returns.
LEMMA CheckInv ==
    ASSUME RegistryInv, NEW c \in Calls, call[c].pc \in Steps, NEW ok, NEW why \in Whys,
           NEW pc \in Steps, Check(c, ok, why, pc),
           ok => Moving([call[c] EXCEPT !.pc = pc], skill[call[c].lineage].current_version),
           UNCHANGED <<registry, disk, edits, failures>>
    PROVE  RegistryInv'
  <1>1. CASE ok
    <2>1. Goto(c, pc)
      BY <1>1 DEF Check
    <2> QED
      BY <1>1, <2>1, GotoStep, DiskFacts DEF disk
  <1>2. CASE ~ok
    <2>1. Refuse(c, why)
      BY <1>2 DEF Check
    <2> QED
      BY <2>1, RefuseStep
  <1> QED
    BY <1>1, <1>2

LEMMA NameInv ==
    ASSUME RegistryInv, NEW c \in Calls, ReadName(c)
    PROVE  RegistryInv'
  <1>1. /\ call[c].pc = "name" /\ UNCHANGED <<registry, disk, edits, failures>>
        /\ "name" \in Steps /\ "lineage" \in Steps /\ "name" \in Whys /\ "lineage" \in Pcs
    BY DEF ReadName, Steps, Whys, Pcs
  <1> DEFINE k == [call[c] EXCEPT !.pc = "lineage"]
             n == skill[call[c].lineage].current_version
  <1>2. call[c] \in CallRecord /\ Moving(call[c], n)
    BY <1>1, Facts
  <1>3. /\ k.pc = "lineage" /\ k.op = call[c].op /\ k.content = call[c].content
        /\ k.anchor = call[c].anchor
    BY <1>1, <1>2, PcFields
  <1> HIDE DEF k, n
  <1>4. Moving(k, n)
    BY <1>1, <1>2, <1>3 DEF Moving, Publishing
  <1>5. CASE Goto(c, "lineage")
    BY <1>1, <1>4, <1>5, GotoStep, DiskFacts DEF k, n, disk
  <1>6. ASSUME NEW l \in Lineages,
               Check(c, l = call[c].lineage /\ skill[l].status # "deprecated", "name", "lineage")
        PROVE  RegistryInv'
    BY <1>1, <1>4, <1>6, CheckInv DEF k, n
  <1> QED
    BY <1>5, <1>6 DEF ReadName

LEMMA LineageInv ==
    ASSUME RegistryInv, NEW c \in Calls, ReadLineage(c)
    PROVE  RegistryInv'
  <1> DEFINE l == call[c].lineage
             row == skill[l]
             n == row.current_version
  <1>1. /\ call[c].pc = "lineage" /\ UNCHANGED <<registry, disk, edits, failures>>
        /\ "lineage" \in Steps /\ {"name", "stale"} \subseteq Whys
        /\ {"vacant", "active"} \subseteq Pcs
    BY DEF ReadLineage, Steps, Whys, Pcs
  <1>2. call[c] \in CallRecord /\ l \in Lineages /\ n \in Nat /\ Moving(call[c], n)
        /\ call[c].at = "idle"
    BY <1>1, Facts
  <1>3. Exists(l) <=> n > 0
    BY <1>2 DEF RegistryInv, LineageConsistent
  <1>4. row.status \in {"none", "active", "deprecated"}
    BY <1>1, Facts DEF SkillRow
  <1>5. \/ ~Exists(l) /\ call' = [call EXCEPT ![c].pc = "vacant", ![c].number = 1]
        \/ Refuse(c, "name")
        \/ Refuse(c, "stale")
        \/ /\ row.status = "active" /\ call[c].anchor \in {0, n}
           /\ call' = [call EXCEPT ![c].pc = "active", ![c].number = n + 1]
    BY <1>4 DEF ReadLineage, Exists
  <1> HIDE DEF n, row, l
  <1>6. /\ call[c].op = "approve" /\ call[c].content \in Contents
        /\ call[c].anchor \in Nat /\ call[c].anchor <= n
    BY <1>1, <1>2, CallRecordShape DEF Moving
  <1>7. ASSUME NEW pc \in {"vacant", "active"}, NEW m \in Nat,
               call' = [call EXCEPT ![c].pc = pc, ![c].number = m],
               pc = "vacant" => n = 0 /\ m = 1,
               pc = "active" => n > 0 /\ m = n + 1 /\ call[c].anchor \in {0, n}
        PROVE  RegistryInv'
    <2> DEFINE k == [call[c] EXCEPT !.pc = pc, !.number = m]
    <2>1. call' = [call EXCEPT ![c] = k]
      BY <1>7
    <2>2. k \in CallRecord
      BY <1>1, <1>2, CallRecordShape
    <2>3. /\ k.pc = pc /\ k.at = "idle" /\ k.op = "approve" /\ k.content = call[c].content
          /\ k.anchor = call[c].anchor /\ k.number = m /\ k.lineage = l
      BY <1>1, <1>2, <1>6, <2>2, CallRecordShape DEF l
    <2> HIDE DEF k
    <2>4. Moving(k, n)
      BY <1>2, <1>6, <1>7, <2>3 DEF Moving, Publishing
    <2>5. CallOK(k, skill, version)
      BY <1>2, <2>3, <2>4 DEF CallOK, n, row
    <2> QED
      BY <1>1, <2>1, <2>2, <2>5, CallStep, DiskFacts DEF disk
  <1>8. CASE ~Exists(l) /\ call' = [call EXCEPT ![c].pc = "vacant", ![c].number = 1]
    <2>1. n = 0 /\ 1 \in Nat
      BY <1>2, <1>3, <1>8
    <2> QED
      BY <1>7, <1>8, <2>1
  <1>9. CASE /\ row.status = "active" /\ call[c].anchor \in {0, n}
             /\ call' = [call EXCEPT ![c].pc = "active", ![c].number = n + 1]
    <2>1. n > 0 /\ n + 1 \in Nat
      BY <1>2, <1>3, <1>9 DEF Exists, row
    <2> QED
      BY <1>7, <1>9, <2>1
  <1> QED
    BY <1>1, <1>5, <1>8, <1>9, RefuseStep

LEMMA VacantInv ==
    ASSUME RegistryInv, NEW c \in Calls, ReadVacant(c)
    PROVE  RegistryInv'
  <1>1. /\ call[c].pc = "vacant" /\ UNCHANGED <<registry, disk, edits, failures>>
        /\ "vacant" \in Steps /\ "check" \in Steps /\ "unowned" \in Whys /\ "check" \in Pcs
        /\ Check(c, file = None, "unowned", "check")
    BY DEF ReadVacant, Steps, Whys, Pcs
  <1> DEFINE k == [call[c] EXCEPT !.pc = "check"]
             n == skill[call[c].lineage].current_version
  <1>2. call[c] \in CallRecord /\ n \in Nat /\ Moving(call[c], n)
    BY <1>1, Facts
  <1>3. /\ k.pc = "check" /\ k.op = call[c].op /\ k.content = call[c].content
        /\ k.anchor = call[c].anchor /\ k.number = call[c].number
    BY <1>1, <1>2, PcFields
  <1> HIDE DEF k, n
  <1>4. Moving(k, n)
    BY <1>1, <1>2, <1>3 DEF Moving, Publishing
  <1> QED
    BY <1>1, <1>4, CheckInv DEF k, n

LEMMA TargetInv ==
    ASSUME RegistryInv, NEW c \in Calls, ReadTarget(c)
    PROVE  RegistryInv'
  <1> DEFINE l == call[c].lineage
             n == skill[l].current_version
  <1>1. /\ call[c].pc = "versions" /\ UNCHANGED <<registry, disk, edits, failures>>
        /\ "versions" \in Steps /\ "target" \in Whys /\ "active" \in Pcs
    BY DEF ReadTarget, Steps, Whys, Pcs
  <1>2. /\ call[c] \in CallRecord /\ l \in Lineages /\ n \in Nat /\ Moving(call[c], n)
        /\ call[c].at = "idle"
    BY <1>1, Facts
  <1>3. ASSUME NEW t \in DOMAIN version[l],
               call' = [call EXCEPT ![c].pc = "active", ![c].parent = t,
                                    ![c].content = version[l][t].content]
        PROVE  RegistryInv'
    <2> DEFINE d == version[l][t].content
               k == [call[c] EXCEPT !.pc = "active", !.parent = t, !.content = d]
    <2>1. t \in Nat /\ t > 0 /\ d \in Contents
      <3>1. version[l][t] \in VersionRow /\ t \in Numbers
        BY <1>2, <1>3 DEF RegistryInv, TypeOK
      <3> QED
        BY <3>1 DEF VersionRow, Numbers
    <2>2. call' = [call EXCEPT ![c] = k]
      BY <1>3
    <2> HIDE DEF d
    <2>3. k \in CallRecord
      BY <1>1, <1>2, <2>1, CallRecordShape
    <2>4. /\ k.pc = "active" /\ k.at = "idle" /\ k.op = call[c].op /\ k.content = d
          /\ k.parent = t /\ k.lineage = l
      BY <1>1, <1>2, <2>1, <2>3, CallRecordShape
    <2> HIDE DEF k, n, l
    <2>5. Moving(k, n)
      BY <1>1, <1>2, <2>1, <2>4 DEF Moving, Publishing
    <2>6. CallOK(k, skill, version)
      BY <1>2, <2>4, <2>5 DEF CallOK, n
    <2> QED
      BY <1>1, <2>2, <2>3, <2>6, CallStep, DiskFacts DEF disk
  <1>4. CASE Refuse(c, "target")
    BY <1>1, <1>4, RefuseStep
  <1> QED
    BY <1>3, <1>4 DEF ReadTarget

\* get_active_skill_version finds the end of the chain.
LEMMA ActiveEnd ==
    ASSUME RegistryInv, NEW l \in Lineages
    PROVE  /\ ActiveNumber(l) = skill[l].current_version
           /\ skill[l].current_version \in Nat
           /\ DOMAIN version[l] = 1 .. skill[l].current_version
           /\ \A i \in DOMAIN version[l] : version[l][i] \in VersionRow
           /\ Exists(l) <=> skill[l].current_version > 0
  <1> DEFINE n == skill[l].current_version
             actives == {i \in DOMAIN version[l] : version[l][i].status = "active"}
  <1>1. n \in Nat /\ \A i \in DOMAIN version[l] : version[l][i] \in VersionRow
    BY DEF RegistryInv, TypeOK, SkillRow
  <1>2. /\ DOMAIN version[l] = 1 .. n /\ (Exists(l) <=> n > 0)
        /\ \A i \in 1 .. n : version[l][i].status = "active" <=> i = n
    BY DEF RegistryInv, LineageConsistent
  <1>3. ActiveNumber(l) = n
    <2>1. CASE n = 0
      <3>1. actives = {}
        BY <1>2, <2>1
      <3> QED
        BY <2>1, <3>1 DEF ActiveNumber
    <2>2. CASE n > 0
      <3>1. actives = {n}
        BY <1>1, <1>2, <2>2
      <3>2. ActiveNumber(l) = CHOOSE i \in {n} : \A m \in {n} : m <= i
        BY <3>1 DEF ActiveNumber
      <3>3. \E i \in {n} : \A m \in {n} : m <= i
        BY <1>1
      <3> HIDE DEF n
      <3> QED
        BY <3>2, <3>3
    <2> QED
      BY <1>1, <2>1, <2>2
  <1> QED
    BY <1>1, <1>2, <1>3

LEMMA ActiveInv ==
    ASSUME RegistryInv, NEW c \in Calls, ReadActive(c)
    PROVE  RegistryInv'
  <1> DEFINE l == call[c].lineage
             n == skill[l].current_version
             live == version[l][n].content
  <1>1. /\ call[c].pc = "active" /\ UNCHANGED <<registry, disk, edits, failures>>
        /\ "active" \in Steps /\ "target" \in Whys /\ "disk" \in Pcs
    BY DEF ReadActive, Steps, Whys, Pcs
  <1>2. /\ call[c] \in CallRecord /\ l \in Lineages /\ n \in Nat /\ Moving(call[c], n)
        /\ call[c].at = "idle"
    BY <1>1, Facts
  <1>3. ActiveNumber(l) = n
    BY <1>2, ActiveEnd
  <1>4. n > 0 /\ call[c].op \in {"approve", "rollback"} /\ call[c].content \in Contents
    BY <1>1, <1>2 DEF Moving
  <1>5. live \in Contents
    <2>1. version[l][n] \in VersionRow
      BY <1>2, <1>4, ActiveEnd, SMTT(40)
    <2> QED
      BY <2>1 DEF VersionRow
  <1>6. \/ /\ call[c].op = "approve"
           /\ call' = [call EXCEPT ![c].pc = "disk", ![c].parent = n, ![c].expected = live]
        \/ Refuse(c, "target")
        \/ /\ call[c].op = "rollback"
           /\ call' = [call EXCEPT ![c].pc = "disk", ![c].number = n + 1, ![c].expected = live]
    <2>0. n # 0
      BY <1>4
    <2>1. CASE call[c].op = "approve"
      BY <1>3, <2>0, <2>1 DEF ReadActive
    <2>2. CASE call[c].op = "rollback"
      BY <1>3, <2>0, <2>2 DEF ReadActive
    <2> QED
      BY <1>4, <2>1, <2>2
  <1> HIDE DEF live
  <1>7. CASE /\ call[c].op = "approve"
             /\ call' = [call EXCEPT ![c].pc = "disk", ![c].parent = n, ![c].expected = live]
    <2> DEFINE k == [call[c] EXCEPT !.pc = "disk", !.parent = n, !.expected = live]
    <2>1. call' = [call EXCEPT ![c] = k]
      BY <1>7
    <2> HIDE DEF n
    <2>2. k \in CallRecord
      BY <1>1, <1>2, <1>5, CallRecordShape
    <2>3. /\ k.pc = "disk" /\ k.at = "idle" /\ k.op = "approve" /\ k.content = call[c].content
          /\ k.parent = n /\ k.lineage = l /\ k.number = call[c].number
          /\ k.anchor = call[c].anchor
      BY <1>1, <1>2, <1>5, <1>7, <2>2, CallRecordShape
    <2> HIDE DEF k, l
    <2>4. Moving(k, n)
      <3>1. /\ call[c].number > 1 /\ call[c].number <= n + 1
            /\ call[c].anchor \in {0, call[c].number - 1} /\ call[c].anchor <= n
        BY <1>1, <1>2, <1>7 DEF Moving
      <3>2. call[c].number \in Nat
        BY <1>2, CallRecordShape
      <3> QED
        BY <1>4, <2>3, <3>1, <3>2 DEF Moving, Publishing
    <2>5. CallOK(k, skill, version)
      BY <1>2, <2>3, <2>4 DEF CallOK, n
    <2> QED
      BY <1>1, <2>1, <2>2, <2>5, CallStep, DiskFacts DEF disk
  <1>8. CASE /\ call[c].op = "rollback"
             /\ call' = [call EXCEPT ![c].pc = "disk", ![c].number = n + 1, ![c].expected = live]
    <2> DEFINE m == n + 1
               k == [call[c] EXCEPT !.pc = "disk", !.number = m, !.expected = live]
    <2>1. call' = [call EXCEPT ![c] = k]
      BY <1>8
    <2>0. m \in Nat /\ m > 1
      BY <1>2, <1>4
    <2> HIDE DEF n, m
    <2>2. k \in CallRecord
      BY <1>1, <1>2, <1>5, <2>0, CallRecordShape
    <2>3. /\ k.pc = "disk" /\ k.at = "idle" /\ k.op = "rollback" /\ k.content = call[c].content
          /\ k.parent = call[c].parent /\ k.lineage = l /\ k.number = m
      BY <1>1, <1>2, <1>5, <1>8, <2>0, <2>2, CallRecordShape
    <2> HIDE DEF k, l
    <2>4. Moving(k, n)
      <3>1. m <= n + 1
        BY <1>2 DEF m
      <3> QED
        BY <1>1, <1>2, <1>4, <1>8, <2>0, <2>3, <3>1 DEF Moving, Publishing
    <2>5. CallOK(k, skill, version)
      BY <1>2, <2>3, <2>4 DEF CallOK, n
    <2> QED
      BY <1>1, <2>1, <2>2, <2>5, CallStep, DiskFacts DEF disk
  <1> QED
    BY <1>1, <1>6, <1>7, <1>8, RefuseStep

\* From one step of the publication to the next.
LEMMA PublishMoving ==
    ASSUME RegistryInv, NEW c \in Calls, call[c].pc \in Publishing, NEW pc \in Publishing
    PROVE  /\ Moving([call[c] EXCEPT !.pc = pc], skill[call[c].lineage].current_version)
           /\ pc \in Steps /\ call[c].pc \in Steps
  <1> DEFINE k == [call[c] EXCEPT !.pc = pc]
             n == skill[call[c].lineage].current_version
  <1>1. pc \in Steps /\ call[c].pc \in Steps /\ pc \in Pcs
    BY DEF Publishing, Steps, Pcs
  <1>2. call[c] \in CallRecord /\ Moving(call[c], n)
    BY <1>1, Facts
  <1>3. /\ k.pc = pc /\ k.op = call[c].op /\ k.content = call[c].content
        /\ k.anchor = call[c].anchor /\ k.number = call[c].number /\ k.parent = call[c].parent
    BY <1>1, <1>2, PcFields
  <1> HIDE DEF k, n
  <1>4. pc \notin {"name", "lineage", "vacant", "versions", "active", "remove", "retire"}
    BY DEF Publishing
  <1>5. Moving(k, n)
    BY <1>2, <1>3, <1>4 DEF Moving
  <1> QED
    BY <1>1, <1>5 DEF k, n

LEMMA DiskInv ==
    ASSUME RegistryInv, NEW c \in Calls, ReadDisk(c)
    PROVE  RegistryInv'
  <1>1. /\ call[c].pc = "disk" /\ UNCHANGED <<registry, disk, edits, failures>>
        /\ {"disk", "check"} \subseteq Publishing /\ {"missing", "drift"} \subseteq Whys
    BY DEF ReadDisk, Publishing, Whys
  <1>2. /\ Moving([call[c] EXCEPT !.pc = "check"], skill[call[c].lineage].current_version)
        /\ "check" \in Steps /\ call[c].pc \in Steps
    BY <1>1, PublishMoving
  <1>3. CASE Refuse(c, "missing")
    BY <1>1, <1>2, <1>3, RefuseStep
  <1>4. CASE Check(c, OnDisk = call[c].expected, "drift", "check")
    BY <1>1, <1>2, <1>4, CheckInv
  <1> QED
    BY <1>3, <1>4 DEF ReadDisk

LEMMA PublishCheckInv ==
    ASSUME RegistryInv, NEW c \in Calls, PublishCheck(c)
    PROVE  RegistryInv'
  <1>1. /\ call[c].pc = "check" /\ UNCHANGED <<registry, disk, edits, failures>>
        /\ {"check", "create"} \subseteq Publishing /\ "conflict" \in Whys
    BY DEF PublishCheck, Publishing, Whys
  <1>2. /\ Moving([call[c] EXCEPT !.pc = "create"], skill[call[c].lineage].current_version)
        /\ "create" \in Steps /\ call[c].pc \in Steps
    BY <1>1, PublishMoving
  <1> QED
    BY <1>1, <1>2, CheckInv DEF PublishCheck

LEMMA CreateInv ==
    ASSUME RegistryInv, NEW c \in Calls, PublishCreate(c)
    PROVE  RegistryInv'
  <1> DEFINE i == IF tmp = None THEN c ELSE tmp
             k == [call[c] EXCEPT !.pc = "write", !.fd = i]
             n == skill[call[c].lineage].current_version
  <1>1. /\ call[c].pc = "create" /\ tmp' = i /\ data' = [data EXCEPT ![i] = Empty]
        /\ call' = [call EXCEPT ![c] = k]
        /\ UNCHANGED registry /\ UNCHANGED <<file, edits, failures>>
        /\ "create" \in Steps /\ "write" \in Pcs
    BY DEF PublishCreate, Steps, Pcs
  <1>2. /\ call[c] \in CallRecord /\ call[c].lineage \in Lineages /\ Moving(call[c], n)
        /\ call[c].at = "idle"
    BY <1>1, Facts
  <1>3. i \in Inodes
    BY DiskFacts DEF Inodes
  <1> HIDE DEF i
  <1>4. k \in CallRecord
    BY <1>1, <1>2, <1>3, CallRecordShape
  <1>5. /\ k.pc = "write" /\ k.at = "idle" /\ k.op = call[c].op /\ k.content = call[c].content
        /\ k.anchor = call[c].anchor /\ k.number = call[c].number /\ k.parent = call[c].parent
        /\ k.lineage = call[c].lineage
    BY <1>1, <1>2, <1>3, <1>4, CallRecordShape
  <1> HIDE DEF k, n
  <1>6. Moving(k, n)
    BY <1>1, <1>2, <1>5 DEF Moving, Publishing
  <1>7. CallOK(k, skill, version)
    BY <1>2, <1>5, <1>6 DEF CallOK, n
  <1>8. /\ file' \in Inodes \cup {None} /\ tmp' \in Inodes \cup {None}
        /\ data' \in [Inodes -> Contents \cup {Empty, Torn}]
        /\ edits' = edits /\ failures' \in 0 .. MaxFailures
    BY <1>1, <1>3, DiskFacts
  <1> QED
    BY <1>1, <1>4, <1>7, <1>8, CallStep

LEMMA WriteInv ==
    ASSUME RegistryInv, NEW c \in Calls, PublishWrite(c)
    PROVE  RegistryInv'
  <1>1. /\ call[c].pc = "write" /\ Goto(c, "rename")
        /\ UNCHANGED registry /\ UNCHANGED <<file, tmp, edits, failures>>
        /\ {"write", "rename"} \subseteq Publishing
    BY DEF PublishWrite, Publishing
  <1>2. /\ Moving([call[c] EXCEPT !.pc = "rename"], skill[call[c].lineage].current_version)
        /\ "rename" \in Steps /\ call[c].pc \in Steps
    BY <1>1, PublishMoving
  <1>3. call[c].content \in Contents
    BY <1>1, <1>2, Facts DEF Moving
  <1>4. data' \in [Inodes -> Contents \cup {Empty, Torn}]
    BY <1>3, DiskFacts DEF PublishWrite
  <1> QED
    BY <1>1, <1>2, <1>4, GotoStep, DiskFacts

LEMMA RenameInv ==
    ASSUME RegistryInv, NEW c \in Calls, PublishRename(c)
    PROVE  RegistryInv'
  <1>1. /\ call[c].pc = "rename" /\ UNCHANGED registry /\ UNCHANGED <<data, edits, failures>>
        /\ {"rename", "commit"} \subseteq Publishing /\ "fs" \in Whys
    BY DEF PublishRename, Publishing, Whys
  <1>2. /\ Moving([call[c] EXCEPT !.pc = "commit"], skill[call[c].lineage].current_version)
        /\ "commit" \in Steps /\ call[c].pc \in Steps
    BY <1>1, PublishMoving
  <1>3. CASE Refuse(c, "fs") /\ UNCHANGED <<file, tmp>>
    BY <1>1, <1>2, <1>3, RefuseStep DEF disk
  <1>4. CASE file' = tmp /\ tmp' = None /\ Goto(c, "commit")
    BY <1>1, <1>2, <1>4, GotoStep, DiskFacts
  <1> QED
    BY <1>3, <1>4 DEF PublishRename

LEMMA RemoveInv ==
    ASSUME RegistryInv, NEW c \in Calls, RemoveFile(c)
    PROVE  RegistryInv'
  <1> DEFINE k == [call[c] EXCEPT !.pc = "retire"]
             n == skill[call[c].lineage].current_version
  <1>1. /\ call[c].pc = "remove" /\ UNCHANGED registry /\ UNCHANGED <<tmp, data, edits, failures>>
        /\ {"remove", "retire"} \subseteq Steps /\ "missing" \in Whys /\ "retire" \in Pcs
    BY DEF RemoveFile, Steps, Whys, Pcs
  <1>2. call[c] \in CallRecord /\ Moving(call[c], n)
    BY <1>1, Facts
  <1>3. k.pc = "retire" /\ k.op = call[c].op
    BY <1>1, <1>2, PcFields
  <1> HIDE DEF k, n
  <1>4. Moving(k, n)
    BY <1>1, <1>2, <1>3 DEF Moving, Publishing
  <1>5. CASE Refuse(c, "missing") /\ UNCHANGED file
    BY <1>1, <1>5, RefuseStep DEF disk
  <1>6. CASE file' = None /\ Goto(c, "retire")
    BY <1>1, <1>4, <1>6, GotoStep, DiskFacts DEF k, n
  <1> QED
    BY <1>5, <1>6 DEF RemoveFile

LEMMA CutOffInv ==
    ASSUME RegistryInv, NEW c \in Calls, CutOff(c)
    PROVE  RegistryInv'
  <1> DEFINE k == [call[c] EXCEPT !.pc = "dead", !.at = call[c].pc]
  <1>1. /\ call[c].pc \in Steps /\ call' = [call EXCEPT ![c] = k]
        /\ UNCHANGED <<registry, disk, edits>>
        /\ failures < MaxFailures /\ failures' = failures + 1
    BY DEF CutOff, Running
  <1>2. call[c] \in CallRecord
    BY Facts
  <1>3. k \in CallRecord /\ k.pc = "dead"
    BY <1>1, <1>2, DeadFields
  <1> HIDE DEF k
  <1>4. CallOK(k, skill, version)
    BY <1>3 DEF CallOK, Steps
  <1>5. failures' \in 0 .. MaxFailures
    BY <1>1, DiskFacts, ConstantsAssumption
  <1> QED
    BY <1>1, <1>3, <1>4, <1>5, CallStep, DiskFacts DEF disk

----------------------------------------------------------------------------
(* Steps of the registry *)

\* Lineages only grow, and a version keeps the candidate it came from.
Grown ==
    \A l \in Lineages :
        /\ skill[l].current_version <= skill'[l].current_version
        /\ \A n \in DOMAIN version[l] :
              n \in DOMAIN version'[l] /\ version'[l][n].source = version[l][n].source

LEMMA MovingGrown ==
    ASSUME NEW k \in CallRecord, NEW n \in Nat, NEW m \in Nat, n <= m, Moving(k, n)
    PROVE  Moving(k, m)
  <1>1. k.anchor \in Nat /\ k.number \in Nat
    BY CallRecordShape
  <1>2. k.op = "approve" => k.content \in Contents /\ k.anchor <= m
    BY <1>1 DEF Moving
  <1>3. n > 0 => m > 0
    OBVIOUS
  <1>4. k.number <= n + 1 => k.number <= m + 1
    BY <1>1
  <1> QED
    BY <1>2, <1>3, <1>4 DEF Moving

LEMMA CallGrown ==
    ASSUME RegistryInv, Grown, skill' \in [Lineages -> SkillRow], NEW d \in Calls
    PROVE  CallOK(call[d], skill', version')
  <1> DEFINE k == call[d]
  <1>1. k \in CallRecord /\ CallOK(k, skill, version)
    BY Facts
  <1>2. \A l \in Lineages : skill[l].current_version \in Nat /\ skill'[l].current_version \in Nat
    BY DEF RegistryInv, TypeOK, SkillRow
  <1> HIDE DEF k
  <1>3. k.pc \in Steps => Moving(k, skill'[k.lineage].current_version)
    BY <1>1, <1>2, MovingGrown DEF CallOK, Grown
  <1>4. k.pc = "done" /\ k.op = "approve" => Reported(k, version'[k.lineage])
    BY <1>1 DEF CallOK, Grown, Reported
  <1> QED
    BY <1>1, <1>3, <1>4 DEF CallOK, k

\* A handler writes rows and moves to k.
LEMMA RowsStep ==
    ASSUME RegistryInv, NEW c \in Calls, NEW k \in CallRecord, call' = [call EXCEPT ![c] = k],
           CallOK(k, skill', version'), Grown, skill' \in [Lineages -> SkillRow],
           DOMAIN version' = Lineages,
           \A l \in Lineages : /\ DOMAIN version'[l] \subseteq Numbers
                               /\ \A n \in DOMAIN version'[l] : version'[l][n] \in VersionRow,
           candidate' \in [Candidates -> CandidateRow],
           LineageConsistent', Anchors', UNCHANGED <<disk, edits, failures>>
    PROVE  RegistryInv'
  <1>1. call \in [Calls -> CallRecord]
    BY DEF RegistryInv, TypeOK
  <1>2. call' \in [Calls -> CallRecord] /\ call'[c] = k /\ \A d \in Calls : d # c => call'[d] = call[d]
    BY <1>1
  <1>3. \A d \in Calls : CallOK(call'[d], skill', version')
    BY <1>2, CallGrown
  <1>4. TypeOK'
    BY <1>2, DiskFacts DEF TypeOK, disk
  <1> QED
    BY <1>3, <1>4 DEF RegistryInv

\* The closing transaction: the slot check makes the new row the end of the chain.
LEMMA CommitRows ==
    ASSUME RegistryInv, NEW c \in Calls, call[c].pc = "commit", ~SlotTaken(c),
           NEW retired \in {"replaced", "rolled_back"}, NEW row \in SkillRow,
           row.status # "none", row.current_version = call[c].number,
           version' = [version EXCEPT ![call[c].lineage] = Appended(c, retired)],
           skill' = [skill EXCEPT ![call[c].lineage] = row]
    PROVE  /\ call[c].number = skill[call[c].lineage].current_version + 1
           /\ Grown /\ LineageConsistent'
           /\ skill' \in [Lineages -> SkillRow] /\ DOMAIN version' = Lineages
           /\ \A l \in Lineages :
                 /\ DOMAIN version'[l] \subseteq Numbers
                 /\ \A n \in DOMAIN version'[l] : version'[l][n] \in VersionRow
           /\ DOMAIN version'[call[c].lineage] =
                 DOMAIN version[call[c].lineage] \cup {call[c].number}
           /\ version'[call[c].lineage][call[c].number].content = call[c].content
           /\ version'[call[c].lineage][call[c].number].source =
                 IF call[c].op = "approve" THEN call[c].content ELSE None
  <1> DEFINE l == call[c].lineage
             n == skill[l].current_version
             m == call[c].number
             old == version[l]
             new == [status |-> "active", content |-> call[c].content,
                     source |-> IF call[c].op = "approve" THEN call[c].content ELSE None,
                     parent |-> call[c].parent]
             rows == Appended(c, retired)
  <1>1. "commit" \in Steps /\ "commit" \in Publishing
    BY DEF Steps, Publishing
  <1>2. /\ call[c] \in CallRecord /\ l \in Lineages /\ n \in Nat /\ Moving(call[c], n)
    BY <1>1, Facts
  <1>3. /\ m > 0 /\ m <= n + 1 /\ call[c].content \in Contents
        /\ m = 1 \/ call[c].parent > 0
    BY <1>1, <1>2 DEF Moving
  <1>4. m \in Nat /\ call[c].parent \in Nat
    BY <1>2, CallRecordShape
  <1>5. /\ DOMAIN old = 1 .. n /\ \A i \in 1 .. n : old[i] \in VersionRow
        /\ Exists(l) <=> n > 0
    BY <1>2, ActiveEnd
  <1>6. \A i \in 1 .. n : old[i].status = "active" <=> i = n
    BY <1>2 DEF RegistryInv, LineageConsistent
  <1>7. m \notin 1 .. n
    BY <1>5 DEF SlotTaken
  <1> HIDE DEF n, m
  <1>8. m = n + 1
    BY <1>2, <1>3, <1>4, <1>7
  <1>9. n > 0 => call[c].parent # 0
    BY <1>2, <1>3, <1>4, <1>8
  <1>10. new \in VersionRow /\ new.status = "active" /\ new.content = call[c].content
    <2>1. call[c].content \in Contents /\ call[c].parent \in Nat
      BY <1>3, <1>4
    <2> QED
      BY <2>1 DEF VersionRow
  <1>11. new.source = IF call[c].op = "approve" THEN call[c].content ELSE None
    OBVIOUS
  <1>12. rows = [i \in DOMAIN old \cup {m} |->
                    IF i = m THEN new
                    ELSE IF old[i].status = "active" /\ call[c].parent # 0
                         THEN [old[i] EXCEPT !.status = retired]
                         ELSE old[i]]
    BY DEF Appended, m
  <1> HIDE DEF new, rows
  <1>13. DOMAIN rows = 1 .. m /\ DOMAIN rows = DOMAIN old \cup {m} /\ rows[m] = new
    BY <1>2, <1>5, <1>8, <1>12
  <1>14. ASSUME NEW i \in 1 .. n
         PROVE  /\ rows[i] \in VersionRow /\ rows[i].source = old[i].source
                /\ rows[i].status # "active"
    <2>1. i # m /\ i \in DOMAIN old \cup {m} /\ old[i] \in VersionRow
      BY <1>2, <1>5, <1>8
    <2>2. rows[i] = IF old[i].status = "active" /\ call[c].parent # 0
                    THEN [old[i] EXCEPT !.status = retired] ELSE old[i]
      BY <1>12, <2>1
    <2>3. CASE old[i].status = "active"
      <3>1. i = n /\ n > 0
        BY <1>2, <1>6, <2>3
      <3>2. rows[i] = [old[i] EXCEPT !.status = retired]
        BY <1>9, <2>2, <2>3, <3>1
      <3> QED
        BY <2>1, <3>2 DEF VersionRow
    <2>4. CASE old[i].status # "active"
      BY <2>1, <2>2, <2>4
    <2> QED
      BY <2>3, <2>4
  <1>15. DOMAIN version = Lineages /\ skill \in [Lineages -> SkillRow]
    BY DEF RegistryInv, TypeOK
  <1>16. /\ version'[l] = rows /\ DOMAIN version' = Lineages
         /\ \A q \in Lineages : q # l => version'[q] = version[q]
    BY <1>2, <1>15 DEF rows
  <1>17. /\ skill'[l] = row /\ skill' \in [Lineages -> SkillRow]
         /\ \A q \in Lineages : q # l => skill'[q] = skill[q]
    BY <1>2, <1>15
  <1>18. row.current_version = m
    BY DEF m
  <1> HIDE DEF l, old
  <1>19. \A q \in Lineages : /\ DOMAIN version'[q] \subseteq Numbers
                             /\ \A i \in DOMAIN version'[q] : version'[q][i] \in VersionRow
    <2>1. ASSUME NEW q \in Lineages, q # l
          PROVE  /\ DOMAIN version'[q] \subseteq Numbers
                 /\ \A i \in DOMAIN version'[q] : version'[q][i] \in VersionRow
      BY <1>16, <2>1 DEF RegistryInv, TypeOK
    <2>2. DOMAIN rows \subseteq Numbers
      BY <1>13 DEF Numbers
    <2>3. ASSUME NEW i \in 1 .. m PROVE rows[i] \in VersionRow
      <3>1. i = m \/ i \in 1 .. n
        BY <1>2, <1>8
      <3> QED
        BY <1>10, <1>13, <1>14, <3>1
    <2>4. /\ DOMAIN version'[l] \subseteq Numbers
          /\ \A i \in DOMAIN version'[l] : version'[l][i] \in VersionRow
      BY <1>13, <1>16, <2>2, <2>3
    <2> QED
      BY <2>1, <2>4
  <1>20. Grown
    <2>1. ASSUME NEW q \in Lineages
          PROVE  /\ skill[q].current_version <= skill'[q].current_version
                 /\ \A i \in DOMAIN version[q] :
                       i \in DOMAIN version'[q] /\ version'[q][i].source = version[q][i].source
      <3>1. CASE q = l
        <4>1. skill[q].current_version = n /\ skill'[q].current_version = m /\ n <= m
          BY <1>2, <1>8, <1>17, <1>18, <3>1 DEF n
        <4>2. DOMAIN version[q] = 1 .. n /\ version'[q] = rows /\ version[q] = old
          BY <1>5, <1>16, <3>1 DEF old
        <4>3. DOMAIN version[q] \subseteq DOMAIN rows
          BY <1>13, <4>2
        <4> QED
          BY <1>14, <4>1, <4>2, <4>3
      <3>2. CASE q # l
        <4>1. skill[q].current_version \in Nat
          BY <1>15 DEF SkillRow
        <4> QED
          BY <1>16, <1>17, <3>2, <4>1
      <3> QED
        BY <3>1, <3>2
    <2> QED
      BY <2>1 DEF Grown
  <1>21. LineageConsistent'
    <2>1. ASSUME NEW q \in Lineages
          PROVE  /\ DOMAIN version'[q] = 1 .. skill'[q].current_version
                 /\ Exists(q)' <=> skill'[q].current_version > 0
                 /\ \A i \in 1 .. skill'[q].current_version :
                       version'[q][i].status = "active" <=> i = skill'[q].current_version
      <3>1. CASE q = l
        <4>1. skill'[q].current_version = m /\ version'[q] = rows /\ skill'[q].status # "none"
          BY <1>16, <1>17, <1>18, <3>1
        <4>2. m > 0
          BY <1>2, <1>8
        <4>3. ASSUME NEW i \in 1 .. m PROVE rows[i].status = "active" <=> i = m
          <5>1. i = m \/ (i \in 1 .. n /\ i # m)
            BY <1>2, <1>8
          <5> QED
            BY <1>10, <1>13, <1>14, <5>1
        <4>4. Exists(q)'
          BY <4>1 DEF Exists
        <4> QED
          BY <1>13, <4>1, <4>2, <4>3, <4>4
      <3>2. CASE q # l
        <4>1. skill'[q] = skill[q] /\ version'[q] = version[q]
          BY <1>16, <1>17, <3>2
        <4> QED
          BY <4>1 DEF RegistryInv, LineageConsistent, Exists
      <3> QED
        BY <3>1, <3>2
    <2> QED
      BY <2>1 DEF LineageConsistent
  <1>22. /\ DOMAIN version'[l] = DOMAIN version[l] \cup {m} /\ version'[l][m] = new
    BY <1>13, <1>16 DEF old
  <1> QED
    BY <1>8, <1>10, <1>11, <1>16, <1>17, <1>19, <1>20, <1>21, <1>22 DEF l, m, n

\* Anchors after rows were added for lineage l under number m.
LEMMA AnchorsGrown ==
    ASSUME RegistryInv, Grown, skill' \in [Lineages -> SkillRow],
           NEW l \in Lineages, NEW m,
           DOMAIN version'[l] = DOMAIN version[l] \cup {m},
           \A q \in Lineages : q # l => version'[q] = version[q],
           \A k \in Candidates : candidate'[k].based_on_version = candidate[k].based_on_version,
           \A k \in Candidates : candidate[k].status = "active" => candidate'[k].status = "active",
           version'[l][m].source # None =>
               candidate'[<<l, version'[l][m].source>>].status = "active"
    PROVE  Anchors'
  <1>1. \A q \in Lineages : skill[q].current_version \in Nat /\ skill'[q].current_version \in Nat
    BY DEF RegistryInv, TypeOK, SkillRow
  <1>2. ASSUME NEW k \in Candidates
        PROVE  candidate'[k].based_on_version <= skill'[k[1]].current_version
    <2>1. k[1] \in Lineages /\ candidate[k] \in CandidateRow
      BY DEF Candidates, RegistryInv, TypeOK
    <2>2. candidate[k].based_on_version \in Nat
      BY <2>1 DEF CandidateRow
    <2>3. candidate[k].based_on_version <= skill[k[1]].current_version
      BY DEF RegistryInv, Anchors
    <2>4. skill[k[1]].current_version <= skill'[k[1]].current_version
      BY <2>1 DEF Grown
    <2> QED
      BY <1>1, <2>1, <2>2, <2>3, <2>4
  <1>3. ASSUME NEW q \in Lineages, NEW n \in DOMAIN version'[q], version'[q][n].source # None
        PROVE  candidate'[<<q, version'[q][n].source>>].status = "active"
    <2>1. CASE q = l /\ n = m
      BY <1>3, <2>1
    <2>2. CASE n \in DOMAIN version[q]
      <3>1. version'[q][n].source = version[q][n].source
        BY <2>2 DEF Grown
      <3>2. version[q][n] \in VersionRow
        BY <2>2 DEF RegistryInv, TypeOK
      <3>3. version[q][n].source \in Contents
        BY <1>3, <3>1, <3>2 DEF VersionRow
      <3>4. <<q, version[q][n].source>> \in Candidates
        BY <3>3 DEF Candidates
      <3>5. candidate[<<q, version[q][n].source>>].status = "active"
        BY <1>3, <2>2, <3>1 DEF RegistryInv, Anchors
      <3> QED
        BY <3>1, <3>4, <3>5
    <2> QED
      BY <1>3, <2>1, <2>2
  <1> QED
    BY <1>2, <1>3 DEF Anchors

\* A handler that is done.
LEMMA DoneCall ==
    ASSUME RegistryInv, NEW c \in Calls, call[c].pc \in Steps, Goto(c, "done"),
           call[c].op = "approve" => Reported(call[c], version'[call[c].lineage])
    PROVE  \E k \in CallRecord :
              /\ call' = [call EXCEPT ![c] = k] /\ k.pc = "done"
              /\ CallOK(k, skill', version')
  <1> DEFINE k == [call[c] EXCEPT !.pc = "done"]
  <1>1. call' = [call EXCEPT ![c] = k] /\ "done" \in Pcs /\ call[c].pc # "dead" /\ "done" \notin Steps
    BY DEF Goto, Pcs, Steps
  <1>2. call[c] \in CallRecord /\ call[c].at = "idle" /\ call[c].lineage \in Lineages
    BY <1>1, Facts
  <1>3. /\ k \in CallRecord /\ k.pc = "done" /\ k.at = "idle" /\ k.op = call[c].op
        /\ k.lineage = call[c].lineage /\ k.content = call[c].content
        /\ k.anchor = call[c].anchor /\ k.number = call[c].number
    BY <1>1, <1>2, PcFields
  <1> HIDE DEF k
  <1>4. CallOK(k, skill', version')
    BY <1>1, <1>2, <1>3 DEF CallOK, Reported
  <1> QED
    BY <1>1, <1>3, <1>4

LEMMA CommitApprovalInv ==
    ASSUME RegistryInv, NEW c \in Calls, call[c].pc = "commit", CommitApproval(c),
           UNCHANGED <<disk, edits, failures>>
    PROVE  RegistryInv'
  <1> DEFINE l == call[c].lineage
             m == call[c].number
             d == call[c].content
             row == [status |-> "active", current_version |-> m]
  <1>1. /\ call[c].op = "approve" /\ ~SlotTaken(c) /\ Goto(c, "done")
        /\ version' = [version EXCEPT ![l] = Appended(c, "replaced")]
        /\ skill' = [skill EXCEPT ![l] = row]
        /\ candidate' = [candidate EXCEPT ![<<l, d>>].status = "active"]
        /\ "commit" \in Steps /\ "commit" \in Publishing
    BY DEF CommitApproval, Steps, Publishing
  <1>2. /\ call[c] \in CallRecord /\ l \in Lineages
        /\ Moving(call[c], skill[l].current_version)
    BY <1>1, Facts
  <1>3. m \in Nat /\ d \in Contents /\ call[c].anchor \in {0, m - 1}
    BY <1>1, <1>2, CallRecordShape DEF Moving
  <1>4. row \in SkillRow /\ row.status # "none" /\ row.current_version = m
    BY <1>3 DEF SkillRow
  <1> HIDE DEF row
  <1>5. /\ Grown /\ LineageConsistent'
        /\ skill' \in [Lineages -> SkillRow] /\ DOMAIN version' = Lineages
        /\ \A q \in Lineages :
              /\ DOMAIN version'[q] \subseteq Numbers
              /\ \A n \in DOMAIN version'[q] : version'[q][n] \in VersionRow
        /\ DOMAIN version'[l] = DOMAIN version[l] \cup {m}
        /\ version'[l][m].source = d
    BY <1>1, <1>4, CommitRows
  <1>6. <<l, d>> \in Candidates /\ candidate \in [Candidates -> CandidateRow]
    BY <1>2, <1>3 DEF Candidates, RegistryInv, TypeOK
  <1>7. /\ candidate' \in [Candidates -> CandidateRow] /\ candidate'[<<l, d>>].status = "active"
        /\ \A k \in Candidates : candidate'[k].based_on_version = candidate[k].based_on_version
        /\ \A k \in Candidates : candidate[k].status = "active" => candidate'[k].status = "active"
    <2> DEFINE new == [candidate[<<l, d>>] EXCEPT !.status = "active"]
    <2>1. candidate[<<l, d>>] \in CandidateRow
      BY <1>6
    <2>2. /\ new \in CandidateRow /\ new.status = "active"
          /\ new.based_on_version = candidate[<<l, d>>].based_on_version
      BY <2>1 DEF CandidateRow
    <2>3. candidate' = [candidate EXCEPT ![<<l, d>>] = new]
      BY <1>1
    <2> HIDE DEF new
    <2> QED
      BY <1>6, <2>2, <2>3
  <1>8. \A q \in Lineages : q # l => version'[q] = version[q]
    BY <1>1 DEF RegistryInv, TypeOK
  <1> HIDE DEF l, m, d
  <1>9. Anchors'
    BY <1>2, <1>5, <1>7, <1>8, AnchorsGrown DEF l
  <1>10. Reported(call[c], version'[l])
    BY <1>3, <1>5 DEF Reported, l, m, d
  <1>11. PICK k \in CallRecord : call' = [call EXCEPT ![c] = k] /\ CallOK(k, skill', version')
    BY <1>1, <1>10, DoneCall DEF l
  <1> QED
    BY <1>5, <1>7, <1>9, <1>11, RowsStep

LEMMA CommitRollbackInv ==
    ASSUME RegistryInv, NEW c \in Calls, call[c].pc = "commit", CommitRollback(c),
           UNCHANGED <<disk, edits, failures>>
    PROVE  RegistryInv'
  <1> DEFINE l == call[c].lineage
             m == call[c].number
             row == [skill[l] EXCEPT !.current_version = m]
  <1>1. /\ call[c].op = "rollback" /\ ~SlotTaken(c) /\ Goto(c, "done")
        /\ version' = [version EXCEPT ![l] = Appended(c, "rolled_back")]
        /\ skill' = [skill EXCEPT ![l] = row] /\ candidate' = candidate
        /\ "commit" \in Steps /\ "commit" \in Publishing
    BY DEF CommitRollback, Steps, Publishing
  <1>2. /\ call[c] \in CallRecord /\ l \in Lineages /\ skill[l] \in SkillRow
        /\ skill[l].current_version \in Nat /\ Moving(call[c], skill[l].current_version)
    BY <1>1, Facts
  <1>3. m \in Nat /\ m > 1 /\ m <= skill[l].current_version + 1
    BY <1>1, <1>2, CallRecordShape DEF Moving
  <1>4. skill[l].status # "none"
    <2>1. Exists(l) <=> skill[l].current_version > 0
      BY <1>2, ActiveEnd
    <2> QED
      BY <1>2, <1>3, <2>1 DEF Exists
  <1>5. row \in SkillRow /\ row.status # "none" /\ row.current_version = m
    BY <1>2, <1>3, <1>4 DEF SkillRow
  <1> HIDE DEF row
  <1>6. /\ Grown /\ LineageConsistent'
        /\ skill' \in [Lineages -> SkillRow] /\ DOMAIN version' = Lineages
        /\ \A q \in Lineages :
              /\ DOMAIN version'[q] \subseteq Numbers
              /\ \A n \in DOMAIN version'[q] : version'[q][n] \in VersionRow
        /\ DOMAIN version'[l] = DOMAIN version[l] \cup {m}
        /\ version'[l][m].source = None
    BY <1>1, <1>5, CommitRows
  <1>7. \A q \in Lineages : q # l => version'[q] = version[q]
    BY <1>1 DEF RegistryInv, TypeOK
  <1> HIDE DEF m
  <1>8. Anchors'
    <2> HIDE DEF l
    <2> QED
      BY <1>1, <1>2, <1>6, <1>7, AnchorsGrown, ZenonT(40)
  <1>9. PICK k \in CallRecord : call' = [call EXCEPT ![c] = k] /\ CallOK(k, skill', version')
    BY <1>1, DoneCall
  <1>10. candidate' \in [Candidates -> CandidateRow]
    BY <1>1 DEF RegistryInv, TypeOK
  <1> QED
    BY <1>6, <1>8, <1>9, <1>10, RowsStep

LEMMA CommitInv ==
    ASSUME RegistryInv, NEW c \in Calls, Commit(c)
    PROVE  RegistryInv'
  <1>1. /\ call[c].pc = "commit" /\ UNCHANGED <<disk, edits, failures>>
        /\ "commit" \in Steps /\ "slot" \in Whys
    BY DEF Commit, Steps, Whys
  <1>2. CASE Refuse(c, "slot") /\ UNCHANGED registry
    BY <1>1, <1>2, RefuseStep
  <1> QED
    BY <1>1, <1>2, CommitApprovalInv, CommitRollbackInv DEF Commit

LEMMA RetireInv ==
    ASSUME RegistryInv, NEW c \in Calls, RetireSkill(c)
    PROVE  RegistryInv'
  <1> DEFINE l == call[c].lineage
             row == [skill[l] EXCEPT !.status = "deprecated"]
  <1>1. /\ call[c].pc = "retire" /\ "retire" \in Steps /\ Goto(c, "done")
        /\ skill' = [skill EXCEPT ![l] = row]
        /\ version' = version /\ candidate' = candidate
        /\ UNCHANGED <<disk, edits, failures>>
    BY DEF RetireSkill, Steps
  <1>2. /\ l \in Lineages /\ skill[l] \in SkillRow
        /\ skill[l].current_version \in Nat /\ Moving(call[c], skill[l].current_version)
    BY <1>1, Facts
  <1>3. call[c].op = "deprecate" /\ skill[l].current_version > 0
    BY <1>1, <1>2 DEF Moving
  <1>4. row \in SkillRow /\ row.status = "deprecated" /\ row.current_version = skill[l].current_version
    BY <1>2 DEF SkillRow
  <1> HIDE DEF row
  <1>5. skill \in [Lineages -> SkillRow]
    BY DEF RegistryInv, TypeOK
  <1>6. /\ skill' \in [Lineages -> SkillRow] /\ skill'[l] = row
        /\ \A q \in Lineages : q # l => skill'[q] = skill[q]
    BY <1>1, <1>2, <1>4, <1>5
  <1>7. \A q \in Lineages : /\ skill'[q].current_version = skill[q].current_version
                            /\ skill[q].current_version \in Nat
    BY <1>4, <1>5, <1>6 DEF SkillRow
  <1>8. Grown
    BY <1>1, <1>7 DEF Grown
  <1>9. Anchors'
    <2>1. \A k \in Candidates : k[1] \in Lineages
      BY DEF Candidates
    <2> QED
      BY <1>1, <1>7, <2>1 DEF RegistryInv, Anchors
  <1>10. \A q \in Lineages : Exists(q)' <=> Exists(q)
    <2>1. Exists(l)
      BY <1>2, <1>3, ActiveEnd
    <2> QED
      BY <1>4, <1>6, <2>1 DEF Exists
  <1>11. LineageConsistent'
    <2>1. LineageConsistent
      BY DEF RegistryInv
    <2> HIDE DEF l
    <2> QED
      BY <1>1, <1>7, <1>10, <2>1 DEF LineageConsistent
  <1>12. PICK k \in CallRecord : call' = [call EXCEPT ![c] = k] /\ CallOK(k, skill', version')
    BY <1>1, <1>3, DoneCall
  <1>13. /\ DOMAIN version' = Lineages /\ candidate' \in [Candidates -> CandidateRow]
         /\ \A q \in Lineages :
              /\ DOMAIN version'[q] \subseteq Numbers
              /\ \A n \in DOMAIN version'[q] : version'[q][n] \in VersionRow
    BY <1>1 DEF RegistryInv, TypeOK
  <1> QED
    BY <1>1, <1>6, <1>8, <1>9, <1>11, <1>12, <1>13, RowsStep

\* The review of a candidate moves its row, and no anchor past the end.
LEMMA ReviewInv ==
    ASSUME RegistryInv, NEW q \in Candidates, NEW row \in CandidateRow,
           candidate[q].status # "active",
           row.based_on_version \in {candidate[q].based_on_version, skill[q[1]].current_version},
           candidate' = [candidate EXCEPT ![q] = row],
           UNCHANGED <<skill, version, disk, call, edits, failures>>
    PROVE  RegistryInv'
  <1>1. candidate \in [Candidates -> CandidateRow] /\ q[1] \in Lineages
    BY DEF RegistryInv, TypeOK, Candidates
  <1>2. /\ candidate' \in [Candidates -> CandidateRow] /\ candidate'[q] = row
        /\ \A k \in Candidates : k # q => candidate'[k] = candidate[k]
    BY <1>1
  <1>3. TypeOK'
    BY <1>2, DiskFacts DEF RegistryInv, TypeOK, disk
  <1>4. Anchors'
    <2>1. skill[q[1]].current_version \in Nat /\ candidate[q].based_on_version <= skill[q[1]].current_version
      BY <1>1 DEF RegistryInv, Anchors, TypeOK, SkillRow
    <2>2. row.based_on_version <= skill[q[1]].current_version
      BY <2>1
    <2>3. ASSUME NEW k \in Candidates
          PROVE  candidate'[k].based_on_version <= skill'[k[1]].current_version
      BY <1>2, <2>2 DEF RegistryInv, Anchors
    <2>4. ASSUME NEW l \in Lineages, NEW n \in DOMAIN version[l], version[l][n].source # None
          PROVE  candidate'[<<l, version[l][n].source>>].status = "active"
      <3>1. version[l][n] \in VersionRow
        BY DEF RegistryInv, TypeOK
      <3>2. <<l, version[l][n].source>> \in Candidates
        BY <2>4, <3>1 DEF VersionRow, Candidates
      <3>3. candidate[<<l, version[l][n].source>>].status = "active"
        BY <2>4 DEF RegistryInv, Anchors
      <3> QED
        BY <1>2, <3>2, <3>3
    <2> QED
      BY <2>3, <2>4 DEF Anchors
  <1>5. LineageConsistent'
    BY DEF RegistryInv, LineageConsistent, Exists
  <1> QED
    BY <1>3, <1>4, <1>5 DEF RegistryInv

LEMMA ProposeInv ==
    ASSUME RegistryInv, NEW q \in Candidates, Propose(q)
    PROVE  RegistryInv'
  <1> DEFINE b == IF skill[q[1]].status = "active" THEN skill[q[1]].current_version
                  ELSE candidate[q].based_on_version
             row == [status |-> "validated", based_on_version |-> b]
  <1>1. /\ candidate' = [candidate EXCEPT ![q] = row]
        /\ UNCHANGED <<skill, version, disk, call, edits, failures>>
        /\ candidate[q].status # "active"
    BY DEF Propose
  <1>2. b \in Nat
    BY DEF RegistryInv, TypeOK, SkillRow, CandidateRow, Candidates
  <1>3. b \in {candidate[q].based_on_version, skill[q[1]].current_version}
    OBVIOUS
  <1> HIDE DEF b
  <1>4. row \in CandidateRow /\ row.based_on_version = b
    BY <1>2 DEF CandidateRow
  <1> HIDE DEF row
  <1> QED
    BY <1>1, <1>3, <1>4, ReviewInv

LEMMA WithdrawInv ==
    ASSUME RegistryInv, NEW q \in Candidates, Withdraw(q)
    PROVE  RegistryInv'
  <1>1. PICK s \in {"rejected", "deferred", "superseded"} :
           candidate' = [candidate EXCEPT ![q].status = s]
    BY DEF Withdraw
  <1> DEFINE row == [candidate[q] EXCEPT !.status = s]
  <1>2. /\ candidate' = [candidate EXCEPT ![q] = row] /\ candidate[q].status # "active"
        /\ UNCHANGED <<skill, version, disk, call, edits, failures>>
    BY <1>1 DEF Withdraw
  <1>3. candidate[q] \in CandidateRow
    BY DEF RegistryInv, TypeOK
  <1>4. row \in CandidateRow /\ row.based_on_version = candidate[q].based_on_version
    BY <1>3 DEF CandidateRow
  <1> HIDE DEF row
  <1> QED
    BY <1>2, <1>4, ReviewInv

LEMMA OutsiderInv ==
    ASSUME RegistryInv, Outsider
    PROVE  RegistryInv'
  <1>1. /\ UNCHANGED registry /\ UNCHANGED <<tmp, call, failures>>
        /\ edits < MaxEdits /\ edits' = edits + 1
        /\ file' \in Inodes \cup {None}
        /\ data' \in [Inodes -> Contents \cup {Empty, Torn}]
    BY DiskFacts DEF Outsider, Inodes
  <1>2. edits' \in 0 .. MaxEdits
    BY <1>1, DiskFacts, ConstantsAssumption
  <1>3. TypeOK'
    BY <1>1, <1>2, DiskFacts DEF RegistryInv, TypeOK, registry
  <1>4. LineageConsistent' /\ Anchors'
    BY <1>1, SMTT(40) DEF RegistryInv, LineageConsistent, Exists, Anchors, registry
  <1> QED
    BY <1>1, <1>3, <1>4 DEF RegistryInv, registry

\* What a lineage published version by version looks like.
LEMMA PublishedRows ==
    ASSUME NEW l \in Lineages, NEW h \in Histories, Published(l, h)
    PROVE  /\ h \in Seq(Contents) /\ Len(h) \in Nat /\ DOMAIN h = 1 .. Len(h)
           /\ \A n \in 1 .. Len(h) : h[n] \in Contents
           /\ h # <<>> <=> Len(h) > 0
           /\ DOMAIN version = Lineages /\ DOMAIN version[l] = 1 .. Len(h)
           /\ \A n \in 1 .. Len(h) :
                 /\ version[l][n] \in VersionRow /\ version[l][n].source = h[n]
                 /\ version[l][n].content = h[n]
                 /\ version[l][n].status = "active" <=> n = Len(h)
           /\ \A m \in Lineages : m # l => DOMAIN version[m] = {}
           /\ skill \in [Lineages -> SkillRow]
           /\ skill[l].current_version = Len(h) /\ (skill[l].status = "active" <=> Len(h) > 0)
           /\ skill[l].status \in {"none", "active"}
           /\ \A m \in Lineages : m # l => skill[m].status = "none" /\ skill[m].current_version = 0
  <1>1. h \in Seq(Contents)
    BY ConstantsAssumption
  <1>2. /\ Len(h) \in Nat /\ DOMAIN h = 1 .. Len(h) /\ \A n \in 1 .. Len(h) : h[n] \in Contents
    BY <1>1, LenProperties, ElementOfSeq
  <1>3. h # <<>> <=> Len(h) > 0
    BY <1>1, <1>2, EmptySeq
  <1> DEFINE rows == [n \in 1 .. Len(h) |->
                         [status |-> IF n = Len(h) THEN "active" ELSE "replaced",
                          content |-> h[n], source |-> h[n], parent |-> n - 1]]
             none == [n \in {} |-> n]
  <1>4. version = [m \in Lineages |-> IF m = l THEN rows ELSE none]
    BY DEF Published
  <1>5. DOMAIN rows = 1 .. Len(h) /\ DOMAIN none = {}
    OBVIOUS
  <1>6. ASSUME NEW n \in 1 .. Len(h)
        PROVE  /\ rows[n] \in VersionRow /\ rows[n].source = h[n] /\ rows[n].content = h[n]
               /\ rows[n].status = "active" <=> n = Len(h)
    <2>1. h[n] \in Contents /\ n - 1 \in Nat
      BY <1>2
    <2> QED
      BY <2>1 DEF VersionRow
  <1> HIDE DEF rows, none
  <1>7. /\ DOMAIN version = Lineages /\ version[l] = rows
        /\ \A m \in Lineages : m # l => version[m] = none
    BY <1>4
  <1>8. skill = [m \in Lineages |-> IF m = l /\ h # <<>>
                    THEN [status |-> "active", current_version |-> Len(h)]
                    ELSE [status |-> "none", current_version |-> 0]]
    BY DEF Published
  <1>9. /\ skill \in [Lineages -> SkillRow]
        /\ skill[l].current_version = Len(h) /\ (skill[l].status = "active" <=> Len(h) > 0)
        /\ skill[l].status \in {"none", "active"}
        /\ \A m \in Lineages : m # l => skill[m].status = "none" /\ skill[m].current_version = 0
    <2>1. /\ [status |-> "active", current_version |-> Len(h)] \in SkillRow
          /\ [status |-> "none", current_version |-> 0] \in SkillRow
      BY <1>2 DEF SkillRow
    <2>2. CASE h = <<>>
      <3>1. Len(h) = 0
        BY <1>2, <1>3, <2>2
      <3> QED
        BY <1>8, <2>1, <2>2, <3>1
    <2>3. CASE h # <<>>
      BY <1>3, <1>8, <2>1, <2>3
    <2> QED
      BY <2>2, <2>3
  <1> QED
    BY <1>1, <1>2, <1>3, <1>5, <1>6, <1>7, <1>9

LEMMA PublishedCandidates ==
    ASSUME NEW l \in Lineages, NEW h \in Histories, Published(l, h)
    PROVE  /\ candidate \in [Candidates -> CandidateRow]
           /\ \A k \in Candidates : candidate[k].based_on_version <= skill[k[1]].current_version
           /\ \A n \in 1 .. Len(h) :
                 /\ candidate[<<l, h[n]>>].status = "active"
                 /\ candidate[<<l, h[n]>>].based_on_version = n - 1
  <1>1. /\ Len(h) \in Nat /\ DOMAIN h = 1 .. Len(h) /\ \A n \in 1 .. Len(h) : h[n] \in Contents
        /\ skill[l].current_version = Len(h)
        /\ \A m \in Lineages : m # l => skill[m].current_version = 0
    BY PublishedRows
  <1>2. \A i, j \in 1 .. Len(h) : h[i] = h[j] => i = j
    BY <1>1, ConstantsAssumption
  <1> DEFINE first(d) == CHOOSE n \in 1 .. Len(h) : h[n] = d
             row(k) == IF k[1] = l /\ \E n \in 1 .. Len(h) : h[n] = k[2]
                       THEN [status |-> "active", based_on_version |-> first(k[2]) - 1]
                       ELSE [status |-> "none", based_on_version |-> 0]
  <1>3. candidate = [k \in Candidates |-> row(k)]
    BY DEF Published
  <1>4. ASSUME NEW n \in 1 .. Len(h) PROVE first(h[n]) = n
    BY <1>2
  <1>5. ASSUME NEW k \in Candidates
        PROVE  row(k) \in CandidateRow /\ row(k).based_on_version <= skill[k[1]].current_version
    <2>1. k[1] \in Lineages
      BY DEF Candidates
    <2>2. CASE k[1] = l /\ \E n \in 1 .. Len(h) : h[n] = k[2]
      <3>1. PICK n \in 1 .. Len(h) : h[n] = k[2]
        BY <2>2
      <3>2. first(k[2]) = n
        BY <1>4, <3>1
      <3> HIDE DEF first
      <3>3. row(k) = [status |-> "active", based_on_version |-> n - 1]
        BY <2>2, <3>2
      <3>4. n - 1 \in Nat /\ n - 1 <= Len(h)
        BY <1>1, <3>1
      <3> HIDE DEF row
      <3> QED
        BY <1>1, <2>2, <3>3, <3>4 DEF CandidateRow
    <2>3. CASE ~(k[1] = l /\ \E n \in 1 .. Len(h) : h[n] = k[2])
      <3>1. row(k) = [status |-> "none", based_on_version |-> 0]
        BY <2>3
      <3> HIDE DEF row
      <3> QED
        BY <1>1, <2>1, <3>1 DEF CandidateRow
    <2> QED
      BY <2>2, <2>3
  <1>6. ASSUME NEW n \in 1 .. Len(h)
        PROVE  /\ <<l, h[n]>> \in Candidates
               /\ row(<<l, h[n]>>) = [status |-> "active", based_on_version |-> n - 1]
    <2>1. <<l, h[n]>> \in Candidates /\ <<l, h[n]>>[1] = l /\ <<l, h[n]>>[2] = h[n]
      BY <1>1 DEF Candidates
    <2>2. \E i \in 1 .. Len(h) : h[i] = h[n]
      OBVIOUS
    <2>3. first(h[n]) = n
      BY <1>4
    <2> HIDE DEF first
    <2> QED
      BY <2>1, <2>2, <2>3
  <1> HIDE DEF row
  <1>7. candidate \in [Candidates -> CandidateRow]
    BY <1>3, <1>5
  <1>8. \A k \in Candidates : candidate[k].based_on_version <= skill[k[1]].current_version
    BY <1>3, <1>5
  <1>9. ASSUME NEW n \in 1 .. Len(h)
        PROVE  /\ candidate[<<l, h[n]>>].status = "active"
               /\ candidate[<<l, h[n]>>].based_on_version = n - 1
    <2>1. candidate[<<l, h[n]>>] = [status |-> "active", based_on_version |-> n - 1]
      BY <1>3, <1>6
    <2> QED
      BY <2>1
  <1> QED
    BY <1>7, <1>8, <1>9

LEMMA InitCalls ==
    ASSUME Init
    PROVE  /\ call \in [Calls -> CallRecord]
           /\ \A c \in Calls : call[c].pc \in {"idle", "never"} /\ call[c].at = "idle"
  <1> DEFINE never == [Fresh EXCEPT !.pc = "never"]
  <1>1. PICK arriving \in Arrivals :
           call = [c \in Calls |-> IF c \in arriving THEN Fresh ELSE never]
    BY DEF Init
  <1>2. never \in CallRecord /\ never.pc = "never" /\ never.at = "idle"
    <2>1. "never" \in Pcs
      BY DEF Pcs
    <2> QED
      BY <2>1, FreshType, FreshFields, PcFields
  <1> HIDE DEF never
  <1> QED
    BY <1>1, <1>2, FreshType, FreshFields

LEMMA InitRegistry == Init => RegistryInv
  <1> SUFFICES ASSUME Init PROVE RegistryInv
    OBVIOUS
  <1>1. PICK l \in Lineages, h \in Histories : Published(l, h)
    BY DEF Init
  <1>2. /\ Len(h) \in Nat /\ \A n \in 1 .. Len(h) : h[n] \in Contents
        /\ h # <<>> <=> Len(h) > 0
        /\ DOMAIN version = Lineages /\ DOMAIN version[l] = 1 .. Len(h)
        /\ \A n \in 1 .. Len(h) :
              /\ version[l][n] \in VersionRow /\ version[l][n].source = h[n]
              /\ version[l][n].status = "active" <=> n = Len(h)
        /\ \A m \in Lineages : m # l => DOMAIN version[m] = {}
        /\ skill \in [Lineages -> SkillRow]
        /\ skill[l].current_version = Len(h) /\ (skill[l].status = "active" <=> Len(h) > 0)
        /\ skill[l].status \in {"none", "active"}
        /\ \A m \in Lineages : m # l => skill[m].status = "none" /\ skill[m].current_version = 0
    BY <1>1, PublishedRows
  <1>3. /\ candidate \in [Candidates -> CandidateRow]
        /\ \A k \in Candidates : candidate[k].based_on_version <= skill[k[1]].current_version
        /\ \A n \in 1 .. Len(h) : candidate[<<l, h[n]>>].status = "active"
    BY <1>1, PublishedCandidates
  <1>4. /\ file \in Inodes \cup {None} /\ tmp \in Inodes \cup {None}
        /\ data \in [Inodes -> Contents \cup {Empty, Torn}]
    <2>1. /\ file = IF h = <<>> THEN None ELSE "base"
          /\ data = [i \in Inodes |-> IF i = "base" /\ h # <<>> THEN h[Len(h)] ELSE Empty]
          /\ tmp = None
      BY <1>1 DEF Published, Init
    <2>2. h # <<>> => h[Len(h)] \in Contents
      BY <1>2
    <2> QED
      BY <2>1, <2>2 DEF Inodes
  <1>5. edits \in 0 .. MaxEdits /\ failures \in 0 .. MaxFailures
    BY ConstantsAssumption DEF Init
  <1>6. ASSUME NEW m \in Lineages
        PROVE  /\ DOMAIN version[m] \subseteq Numbers
               /\ \A n \in DOMAIN version[m] : version[m][n] \in VersionRow
    <2>1. CASE m = l
      BY <1>2, <2>1 DEF Numbers
    <2>2. CASE m # l
      BY <1>2, <2>2
    <2> QED
      BY <2>1, <2>2
  <1>7. TypeOK
    BY <1>2, <1>3, <1>4, <1>5, <1>6, InitCalls DEF TypeOK
  <1>8. LineageConsistent
    <2>1. ASSUME NEW m \in Lineages
          PROVE  /\ DOMAIN version[m] = 1 .. skill[m].current_version
                 /\ Exists(m) <=> skill[m].current_version > 0
                 /\ \A i \in 1 .. skill[m].current_version :
                       version[m][i].status = "active" <=> i = skill[m].current_version
      <3>1. CASE m = l
        BY <1>2, <3>1 DEF Exists
      <3>2. CASE m # l
        <4>1. /\ skill[m].status = "none" /\ skill[m].current_version = 0
              /\ DOMAIN version[m] = {}
          BY <1>2, <3>2
        <4>2. 1 .. 0 = {}
          OBVIOUS
        <4> QED
          BY <4>1, <4>2 DEF Exists
      <3> QED
        BY <3>1, <3>2
    <2> QED
      BY <2>1 DEF LineageConsistent
  <1>9. Anchors
    <2>1. ASSUME NEW m \in Lineages, NEW n \in DOMAIN version[m], version[m][n].source # None
          PROVE  candidate[<<m, version[m][n].source>>].status = "active"
      <3>1. m = l /\ n \in 1 .. Len(h)
        BY <1>2
      <3> QED
        BY <1>2, <1>3, <3>1
    <2> QED
      BY <1>3, <2>1 DEF Anchors
  <1>10. ASSUME NEW c \in Calls PROVE CallOK(call[c], skill, version)
    BY InitCalls DEF CallOK, Steps
  <1> QED
    BY <1>7, <1>8, <1>9, <1>10 DEF RegistryInv

LEMMA NextRegistry ==
    ASSUME RegistryInv, [Next]_vars
    PROVE  RegistryInv'
  <1>1. ASSUME NEW c \in Calls,
               \/ \E k \in Candidates : Approve(c, k)
               \/ \E l \in Lineages : Rollback(c, l) \/ Deprecate(c, l)
        PROVE  RegistryInv'
    BY <1>1, ApproveInv, OpenInv
  <1>2. ASSUME NEW c \in Calls,
               \/ ReadName(c) \/ ReadLineage(c) \/ ReadVacant(c)
               \/ ReadTarget(c) \/ ReadActive(c) \/ ReadDisk(c)
        PROVE  RegistryInv'
    BY <1>2, NameInv, LineageInv, VacantInv, TargetInv, ActiveInv, DiskInv
  <1>3. ASSUME NEW c \in Calls,
               PublishCheck(c) \/ PublishCreate(c) \/ PublishWrite(c) \/ PublishRename(c)
        PROVE  RegistryInv'
    BY <1>3, PublishCheckInv, CreateInv, WriteInv, RenameInv
  <1>4. ASSUME NEW c \in Calls, Commit(c) \/ RemoveFile(c) \/ RetireSkill(c) \/ CutOff(c)
        PROVE  RegistryInv'
    BY <1>4, CommitInv, RemoveInv, RetireInv, CutOffInv
  <1>5. ASSUME NEW k \in Candidates, Propose(k) \/ Withdraw(k)
        PROVE  RegistryInv'
    BY <1>5, ProposeInv, WithdrawInv
  <1>6. CASE UNCHANGED vars
    <2>1. /\ UNCHANGED <<skill, version, candidate, file, tmp, data, call, edits, failures>>
      BY <1>6 DEF vars
    <2>2. TypeOK' /\ LineageConsistent' /\ Anchors'
      BY <2>1 DEF RegistryInv, TypeOK, LineageConsistent, Exists, Anchors
    <2> QED
      BY <2>1, <2>2 DEF RegistryInv
  <1> QED
    BY <1>1, <1>2, <1>3, <1>4, <1>5, <1>6, OutsiderInv DEF Next

LEMMA RegistryCorrect == Spec => []RegistryInv
  BY InitRegistry, NextRegistry, PTL DEF Spec

----------------------------------------------------------------------------
(* Handlers that take turns: steps that leave the registry alone *)

LEMMA Alone ==
    ASSUME RegistryInv, TurnsInv, OneLock, NEW c \in Calls,
           \/ call[c].pc \in Steps
           \/ call[c].pc = "idle" /\ LockFree(Process[c], Workspace[c])
    PROVE  \A d \in Calls : Running(d) => d = c
  <1>1. CASE call[c].pc \in Steps
    BY <1>1 DEF TurnsInv, Running
  <1>2. CASE call[c].pc = "idle" /\ LockFree(Process[c], Workspace[c])
    <2>1. ASSUME NEW d \in Calls, Running(d) PROVE FALSE
      <3>1. c \in Arriving /\ d \in Arriving
        BY <1>2, <2>1 DEF Arriving, Running, Steps
      <3> QED
        BY <1>2, <2>1, <3>1 DEF OneLock, LockFree
    <2> QED
      BY <2>1
  <1> QED
    BY <1>1, <1>2

\* A handler moves to k: who is there, who runs.
LEMMA Moved ==
    ASSUME RegistryInv, NEW c \in Calls, NEW k \in CallRecord, call' = [call EXCEPT ![c] = k],
           call[c].pc \in Steps \cup {"idle"}, k.pc # "never"
    PROVE  /\ call'[c] = k /\ \A d \in Calls : d # c => call'[d] = call[d]
           /\ OneLock' => OneLock
           /\ Undisturbed' /\ edits' = edits => Undisturbed
           /\ call[c].at = "idle"
  <1>1. call \in [Calls -> CallRecord]
    BY DEF RegistryInv, TypeOK
  <1>2. call'[c] = k /\ \A d \in Calls : d # c => call'[d] = call[d]
    BY <1>1
  <1>3. call[c].pc # "never" /\ call[c].pc # "dead"
    BY DEF Steps
  <1>4. call[c].at = "idle"
    BY <1>3, Facts
  <1>5. Arriving' = Arriving
    BY <1>2, <1>3 DEF Arriving
  <1>6. OneLock' => OneLock
    BY <1>5 DEF OneLock
  <1>7. Undisturbed' /\ edits' = edits => Undisturbed
    BY <1>2, <1>4, <1>6 DEF Undisturbed
  <1> QED
    BY <1>2, <1>4, <1>6, <1>7

LEMMA TurnStep ==
    ASSUME RegistryInv, TurnsInv, NEW c \in Calls, NEW k \in CallRecord,
           call' = [call EXCEPT ![c] = k], k.pc # "never", UNCHANGED registry,
           \/ call[c].pc \in Steps
           \/ call[c].pc = "idle" /\ LockFree(Process[c], Workspace[c]),
           OneLock /\ k.pc \in Steps => Turn(k, skill, candidate)
    PROVE  TurnsInv'
  <1>1. /\ call'[c] = k /\ \A d \in Calls : d # c => call'[d] = call[d]
        /\ OneLock' => OneLock
    BY Moved
  <1>2. skill' = skill /\ version' = version /\ candidate' = candidate
    BY DEF registry
  <1>3. OneLock => \A d \in Calls : call[d].pc \in Steps => d = c
    BY Alone DEF Running
  <1>4. OneLock => \A d \in Calls : call'[d].pc \in Steps => d = c
    BY <1>1, <1>3
  <1>5. OneLock => \A d \in Calls : call'[d].pc \in Steps => Turn(call'[d], skill', candidate')
    BY <1>1, <1>2, <1>4
  <1>6. OneLock' => \A l, m \in Lineages : Exists(l)' /\ Exists(m)' => l = m
    BY <1>1, <1>2 DEF TurnsInv, Exists
  <1>7. OneLock' => \A l \in Lineages : \A n \in DOMAIN version'[l] :
                       LET q == <<l, version'[l][n].source>>
                       IN  (version'[l][n].source # None /\ candidate'[q].based_on_version > 0)
                              => n = candidate'[q].based_on_version + 1
    BY <1>1, <1>2 DEF TurnsInv
  <1>8. OneLock' => \A d, e \in Calls : Running(d)' /\ Running(e)' => d = e
    BY <1>1, <1>4 DEF Running
  <1>9. OneLock' => \A d \in Calls : Running(d)' => Turn(call[d], skill, candidate)'
    BY <1>1, <1>5 DEF Running
  <1> QED
    BY <1>6, <1>7, <1>8, <1>9 DEF TurnsInv

LEMMA SameMatching ==
    ASSUME UNCHANGED registry, file' = file, file # None => data'[file] = data[file]
    PROVE  Matching' <=> Matching
  BY DEF registry, Matching, OnDisk, Live

LEMMA FileStep ==
    ASSUME RegistryInv, FileInv, NEW c \in Calls, NEW k \in CallRecord,
           call' = [call EXCEPT ![c] = k], UNCHANGED <<registry, disk, edits>>,
           call[c].pc \in Steps \cup {"idle"}, call[c].pc \notin {"commit", "retire"},
           k.pc \notin {"never", "write", "rename", "commit", "retire"},
           k.pc \in Early => call[c].pc \in Early
    PROVE  FileInv'
  <1>1. /\ call'[c] = k /\ \A d \in Calls : d # c => call'[d] = call[d]
        /\ Undisturbed' => Undisturbed
    BY Moved
  <1>2. file' = file /\ tmp' = tmp /\ data' = data /\ (Matching' <=> Matching)
    BY SameMatching DEF disk
  <1>3. (\A d \in Calls : call'[d].pc \notin {"commit", "retire"})
            => \A d \in Calls : call[d].pc \notin {"commit", "retire"}
    BY <1>1
  <1> QED
    BY <1>1, <1>2, <1>3 DEF FileInv

LEMMA ReadStep ==
    ASSUME RegistryInv, TurnsInv, FileInv, NEW c \in Calls, NEW k \in CallRecord,
           call' = [call EXCEPT ![c] = k], UNCHANGED <<registry, disk, edits>>,
           \/ call[c].pc \in Steps \ {"commit", "retire"}
           \/ call[c].pc = "idle" /\ LockFree(Process[c], Workspace[c]),
           k.pc \notin {"never", "write", "rename", "commit", "retire"},
           k.pc \in Early => call[c].pc \in Early,
           OneLock /\ k.pc \in Steps => Turn(k, skill, candidate)
    PROVE  TurnsInv' /\ FileInv'
  <1>1. TurnsInv'
    BY TurnStep
  <1>2. FileInv'
    BY FileStep
  <1> QED
    BY <1>1, <1>2

LEMMA TurnFacts ==
    ASSUME TurnsInv, NEW c \in Calls, call[c].pc \in Steps
    PROVE  OneLock => Turn(call[c], skill, candidate)
  BY DEF TurnsInv, Running

LEMMA RefuseTurn ==
    ASSUME RegistryInv, TurnsInv, FileInv, NEW c \in Calls,
           call[c].pc \in Steps \ {"commit", "retire"}, NEW why \in Whys,
           Refuse(c, why), UNCHANGED <<registry, disk, edits, failures>>
    PROVE  TurnsInv' /\ FileInv'
  <1> DEFINE k == [call[c] EXCEPT !.pc = "refused", !.why = why]
  <1>1. call' = [call EXCEPT ![c] = k]
    BY DEF Refuse
  <1>2. call[c] \in CallRecord
    BY Facts
  <1>3. k \in CallRecord /\ k.pc = "refused"
    BY <1>2, RefuseFields
  <1> HIDE DEF k
  <1>4. k.pc \notin Steps /\ k.pc \notin Early
    BY <1>3 DEF Steps, Early
  <1> QED
    BY <1>1, <1>3, <1>4, ReadStep

\* The next step of a handler that keeps what it has read.
LEMMA GotoTurn ==
    ASSUME RegistryInv, TurnsInv, FileInv, NEW c \in Calls,
           call[c].pc \in {"name", "vacant", "disk", "check"},
           NEW pc \in {"lineage", "check", "create"}, Goto(c, pc),
           call[c].pc = "name" => /\ pc = "lineage"
                                  /\ OneLock => \A l \in Lineages : Exists(l) => l = call[c].lineage,
           call[c].pc # "name" => pc # "lineage",
           UNCHANGED <<registry, disk, edits, failures>>
    PROVE  TurnsInv' /\ FileInv'
  <1> DEFINE k == [call[c] EXCEPT !.pc = pc]
  <1>1. call' = [call EXCEPT ![c] = k]
    BY DEF Goto
  <1>2. /\ call[c].pc \in Steps \ {"commit", "retire"} /\ pc \in Pcs
        /\ call[c].pc \in Early
    BY DEF Steps, Pcs, Early
  <1>3. call[c] \in CallRecord /\ (OneLock => Turn(call[c], skill, candidate))
    BY <1>2, Facts, TurnFacts
  <1>4. /\ k \in CallRecord /\ k.pc = pc /\ k.op = call[c].op
        /\ k.lineage = call[c].lineage /\ k.content = call[c].content
        /\ k.anchor = call[c].anchor /\ k.number = call[c].number
    BY <1>2, <1>3, PcFields
  <1> HIDE DEF k
  <1>5. OneLock => Turn(k, skill, candidate)
    BY <1>3, <1>4 DEF Turn, Publishing, Exists
  <1> QED
    BY <1>1, <1>2, <1>4, <1>5, ReadStep

LEMMA ApproveTurn ==
    ASSUME RegistryInv, TurnsInv, FileInv, NEW c \in Calls, NEW q \in Candidates, Approve(c, q)
    PROVE  TurnsInv' /\ FileInv'
  <1>1. q[1] \in Lineages /\ q[2] \in Contents /\ q = <<q[1], q[2]>> /\ candidate[q] \in CandidateRow
    BY DEF RegistryInv, TypeOK, Candidates
  <1>2. PICK pc \in {"name", "refused"}, why \in {"none", "gate"} :
           call' = [call EXCEPT ![c] =
              [Fresh EXCEPT !.pc = pc, !.why = why, !.op = "approve", !.lineage = q[1],
                            !.content = q[2], !.anchor = candidate[q].based_on_version]]
    BY DEF Approve
  <1> DEFINE a == candidate[q].based_on_version
             k == [Fresh EXCEPT !.pc = pc, !.why = why, !.op = "approve", !.lineage = q[1],
                                !.content = q[2], !.anchor = a]
  <1>3. pc \in Pcs /\ why \in Whys
    BY DEF Pcs, Whys, Steps
  <1>4. /\ call' = [call EXCEPT ![c] = k] /\ UNCHANGED <<registry, disk, edits, failures>>
        /\ call[c].pc = "idle" /\ LockFree(Process[c], Workspace[c]) /\ "idle" \in Early
    BY <1>2 DEF Approve, Early
  <1>5. a \in Nat
    BY <1>1 DEF CandidateRow
  <1>6. candidate[<<q[1], q[2]>>].based_on_version = a
    BY <1>1
  <1> HIDE DEF a
  <1>7. /\ k \in CallRecord /\ k.pc = pc /\ k.op = "approve"
        /\ k.lineage = q[1] /\ k.content = q[2] /\ k.anchor = a
    <2>1. k \in CallRecord
      BY <1>1, <1>3, <1>5, FreshType, CallRecordShape
    <2> QED
      BY <2>1, <1>3, FreshType, FreshFields, CallRecordShape
  <1> HIDE DEF k
  <1>8. k.pc \in Steps => Turn(k, skill, candidate)
    BY <1>6, <1>7 DEF Turn, Publishing, Steps
  <1> QED
    BY <1>4, <1>7, <1>8, ReadStep

LEMMA OpenTurn ==
    ASSUME RegistryInv, TurnsInv, FileInv, NEW c \in Calls, NEW l \in Lineages,
           Rollback(c, l) \/ Deprecate(c, l)
    PROVE  TurnsInv' /\ FileInv'
  <1>1. PICK pc \in {"versions", "remove", "refused"}, why \in {"none", "gate"},
             op \in {"rollback", "deprecate"} :
           /\ call' = [call EXCEPT ![c] =
                 [Fresh EXCEPT !.pc = pc, !.why = why, !.op = op, !.lineage = l]]
           /\ pc # "refused" => skill[l].status = "active"
    BY DEF Rollback, Deprecate
  <1> DEFINE k == [Fresh EXCEPT !.pc = pc, !.why = why, !.op = op, !.lineage = l]
  <1>2. pc \in Pcs /\ why \in Whys /\ op \in {"approve", "rollback", "deprecate"}
    BY DEF Pcs, Whys, Steps
  <1>3. /\ call' = [call EXCEPT ![c] = k] /\ UNCHANGED <<registry, disk, edits, failures>>
        /\ call[c].pc = "idle" /\ LockFree(Process[c], Workspace[c]) /\ "idle" \in Early
    BY <1>1 DEF Rollback, Deprecate, Early
  <1>4. k \in CallRecord /\ k.pc = pc /\ k.op = op /\ k.lineage = l
    <2>1. k \in CallRecord
      BY <1>2, FreshType, CallRecordShape
    <2> QED
      BY <2>1, <1>2, FreshType, FreshFields, CallRecordShape
  <1> HIDE DEF k
  <1>5. k.pc \in Steps => Turn(k, skill, candidate)
    BY <1>1, <1>4 DEF Turn, Publishing, Steps
  <1> QED
    BY <1>3, <1>4, <1>5, ReadStep

LEMMA NameTurn ==
    ASSUME RegistryInv, TurnsInv, FileInv, NEW c \in Calls, ReadName(c)
    PROVE  TurnsInv' /\ FileInv'
  <1>1. /\ call[c].pc = "name" /\ UNCHANGED <<registry, disk, edits, failures>>
        /\ "name" \in Steps \ {"commit", "retire"} /\ "name" \in Whys
    BY DEF ReadName, Steps, Whys
  <1>2. CASE (\A l \in Lineages : ~Exists(l)) /\ Goto(c, "lineage")
    BY <1>1, <1>2, GotoTurn
  <1>3. ASSUME NEW l \in Lineages, Exists(l),
               Check(c, l = call[c].lineage /\ skill[l].status # "deprecated", "name", "lineage")
        PROVE  TurnsInv' /\ FileInv'
    <2>1. CASE l = call[c].lineage /\ Goto(c, "lineage")
      <3>1. OneLock => \A m \in Lineages : Exists(m) => m = call[c].lineage
        BY <1>3, <2>1 DEF TurnsInv
      <3> QED
        BY <1>1, <2>1, <3>1, GotoTurn
    <2>2. CASE Refuse(c, "name")
      BY <1>1, <2>2, RefuseTurn
    <2> QED
      BY <1>3, <2>1, <2>2 DEF Check
  <1> QED
    BY <1>2, <1>3 DEF ReadName

LEMMA LineageTurn ==
    ASSUME RegistryInv, TurnsInv, FileInv, NEW c \in Calls, ReadLineage(c)
    PROVE  TurnsInv' /\ FileInv'
  <1> DEFINE l == call[c].lineage
             row == skill[l]
             n == row.current_version
  <1>1. /\ call[c].pc = "lineage" /\ UNCHANGED <<registry, disk, edits, failures>>
        /\ "lineage" \in Steps \ {"commit", "retire"} /\ {"name", "stale"} \subseteq Whys
        /\ {"vacant", "active"} \subseteq Pcs /\ "lineage" \in Early
    BY DEF ReadLineage, Steps, Whys, Pcs, Early
  <1>2. /\ call[c] \in CallRecord /\ l \in Lineages /\ n \in Nat /\ Moving(call[c], n)
        /\ OneLock => Turn(call[c], skill, candidate)
    BY <1>1, Facts, TurnFacts
  <1>3. Exists(l) <=> n > 0
    BY <1>2 DEF RegistryInv, LineageConsistent
  <1>4. row.status \in {"none", "active", "deprecated"}
    BY <1>1, Facts DEF SkillRow
  <1>5. \/ ~Exists(l) /\ call' = [call EXCEPT ![c].pc = "vacant", ![c].number = 1]
        \/ Refuse(c, "name")
        \/ Refuse(c, "stale")
        \/ call' = [call EXCEPT ![c].pc = "active", ![c].number = n + 1]
    BY <1>4 DEF ReadLineage, Exists
  <1>6. call[c].op = "approve"
    BY <1>1, <1>2 DEF Moving
  <1> HIDE DEF n, row, l
  <1>7. ASSUME NEW pc \in {"vacant", "active"}, NEW m \in Nat, m = n + 1,
               call' = [call EXCEPT ![c].pc = pc, ![c].number = m]
        PROVE  TurnsInv' /\ FileInv'
    <2> DEFINE k == [call[c] EXCEPT !.pc = pc, !.number = m]
    <2>1. call' = [call EXCEPT ![c] = k]
      BY <1>7
    <2>2. k \in CallRecord
      BY <1>1, <1>2, CallRecordShape
    <2>3. /\ k.pc = pc /\ k.op = "approve" /\ k.content = call[c].content
          /\ k.anchor = call[c].anchor /\ k.number = m /\ k.lineage = call[c].lineage
      BY <1>1, <1>2, <1>6, <2>2, CallRecordShape
    <2> HIDE DEF k
    <2>4. OneLock => Turn(k, skill, candidate)
      BY <1>1, <1>2, <1>6, <1>7, <2>3 DEF Turn, Publishing, n, row, l
    <2> QED
      BY <1>1, <2>1, <2>2, <2>3, <2>4, ReadStep
  <1>8. CASE ~Exists(l) /\ call' = [call EXCEPT ![c].pc = "vacant", ![c].number = 1]
    <2>1. 1 = n + 1 /\ 1 \in Nat
      BY <1>2, <1>3, <1>8
    <2> QED
      BY <1>7, <1>8, <2>1
  <1>9. CASE call' = [call EXCEPT ![c].pc = "active", ![c].number = n + 1]
    <2>1. n + 1 \in Nat
      BY <1>2
    <2> QED
      BY <1>7, <1>9, <2>1
  <1> QED
    BY <1>1, <1>5, <1>8, <1>9, RefuseTurn

LEMMA VacantTurn ==
    ASSUME RegistryInv, TurnsInv, FileInv, NEW c \in Calls, ReadVacant(c)
    PROVE  TurnsInv' /\ FileInv'
  <1>1. /\ call[c].pc = "vacant" /\ UNCHANGED <<registry, disk, edits, failures>>
        /\ "vacant" \in Steps \ {"commit", "retire"} /\ "unowned" \in Whys
        /\ Goto(c, "check") \/ Refuse(c, "unowned")
    BY DEF ReadVacant, Check, Steps, Whys
  <1> QED
    BY <1>1, GotoTurn, RefuseTurn

LEMMA DiskTurn ==
    ASSUME RegistryInv, TurnsInv, FileInv, NEW c \in Calls, ReadDisk(c)
    PROVE  TurnsInv' /\ FileInv'
  <1>1. /\ call[c].pc = "disk" /\ UNCHANGED <<registry, disk, edits, failures>>
        /\ "disk" \in Steps \ {"commit", "retire"} /\ {"missing", "drift"} \subseteq Whys
        /\ Goto(c, "check") \/ Refuse(c, "missing") \/ Refuse(c, "drift")
    BY DEF ReadDisk, Check, Steps, Whys
  <1> QED
    BY <1>1, GotoTurn, RefuseTurn

LEMMA PublishCheckTurn ==
    ASSUME RegistryInv, TurnsInv, FileInv, NEW c \in Calls, PublishCheck(c)
    PROVE  TurnsInv' /\ FileInv'
  <1>1. /\ call[c].pc = "check" /\ UNCHANGED <<registry, disk, edits, failures>>
        /\ "check" \in Steps \ {"commit", "retire"} /\ "conflict" \in Whys
        /\ Goto(c, "create") \/ Refuse(c, "conflict")
    BY DEF PublishCheck, Check, Steps, Whys
  <1> QED
    BY <1>1, GotoTurn, RefuseTurn

LEMMA TargetTurn ==
    ASSUME RegistryInv, TurnsInv, FileInv, NEW c \in Calls, ReadTarget(c)
    PROVE  TurnsInv' /\ FileInv'
  <1> DEFINE l == call[c].lineage
  <1>1. /\ call[c].pc = "versions" /\ UNCHANGED <<registry, disk, edits, failures>>
        /\ "versions" \in Steps \ {"commit", "retire"} /\ "target" \in Whys /\ "active" \in Pcs
        /\ "versions" \in Early
    BY DEF ReadTarget, Steps, Whys, Pcs, Early
  <1>2. /\ call[c] \in CallRecord /\ l \in Lineages /\ Moving(call[c], skill[l].current_version)
        /\ OneLock => Turn(call[c], skill, candidate)
    BY <1>1, Facts, TurnFacts
  <1>3. call[c].op = "rollback"
    BY <1>1, <1>2 DEF Moving
  <1>4. ASSUME NEW t \in DOMAIN version[l],
               call' = [call EXCEPT ![c].pc = "active", ![c].parent = t,
                                    ![c].content = version[l][t].content]
        PROVE  TurnsInv' /\ FileInv'
    <2> DEFINE d == version[l][t].content
               k == [call[c] EXCEPT !.pc = "active", !.parent = t, !.content = d]
    <2>1. t \in Nat /\ d \in Contents
      <3>1. version[l][t] \in VersionRow /\ t \in Numbers
        BY <1>2, <1>4 DEF RegistryInv, TypeOK
      <3> QED
        BY <3>1 DEF VersionRow, Numbers
    <2>2. call' = [call EXCEPT ![c] = k]
      BY <1>4
    <2> HIDE DEF d
    <2>3. k \in CallRecord
      BY <1>1, <1>2, <2>1, CallRecordShape
    <2>4. k.pc = "active" /\ k.op = "rollback" /\ k.lineage = l
      BY <1>1, <1>2, <1>3, <2>1, <2>3, CallRecordShape
    <2> HIDE DEF k
    <2>5. OneLock => Turn(k, skill, candidate)
      BY <1>2, <1>3, <2>4 DEF Turn, Publishing
    <2> QED
      BY <1>1, <2>2, <2>3, <2>4, <2>5, ReadStep
  <1>5. CASE Refuse(c, "target")
    BY <1>1, <1>5, RefuseTurn
  <1> QED
    BY <1>4, <1>5 DEF ReadTarget

LEMMA ActiveTurn ==
    ASSUME RegistryInv, TurnsInv, FileInv, NEW c \in Calls, ReadActive(c)
    PROVE  TurnsInv' /\ FileInv'
  <1> DEFINE l == call[c].lineage
             n == skill[l].current_version
             live == version[l][n].content
  <1>1. /\ call[c].pc = "active" /\ UNCHANGED <<registry, disk, edits, failures>>
        /\ "active" \in Steps \ {"commit", "retire"} /\ "target" \in Whys /\ "disk" \in Pcs
        /\ "active" \in Early
    BY DEF ReadActive, Steps, Whys, Pcs, Early
  <1>2. /\ call[c] \in CallRecord /\ l \in Lineages /\ n \in Nat /\ Moving(call[c], n)
        /\ OneLock => Turn(call[c], skill, candidate)
    BY <1>1, Facts, TurnFacts
  <1>3. ActiveNumber(l) = n
    BY <1>2, ActiveEnd
  <1>4. n > 0 /\ call[c].op \in {"approve", "rollback"}
    BY <1>1, <1>2 DEF Moving
  <1>5. live \in Contents
    <2>1. version[l][n] \in VersionRow
      BY <1>2, <1>4, ActiveEnd
    <2> QED
      BY <2>1 DEF VersionRow
  <1>6. \/ Refuse(c, "target")
        \/ \E m \in Nat, p \in Nat :
              /\ call' = [call EXCEPT ![c].pc = "disk", ![c].number = m, ![c].parent = p,
                                      ![c].expected = live]
              /\ OneLock => m = n + 1
    <2>0. n # 0
      BY <1>4
    <2> HIDE DEF live, n
    <2>1. CASE call[c].op = "approve"
      <3>1. call' = [call EXCEPT ![c].pc = "disk", ![c].parent = n, ![c].expected = live]
        BY <1>3, <2>0, <2>1 DEF ReadActive, live, n
      <3>2. call[c].number \in Nat
        BY <1>2, CallRecordShape
      <3>3. [call[c] EXCEPT !.pc = "disk", !.parent = n, !.expected = live]
              = [call[c] EXCEPT !.pc = "disk", !.number = call[c].number, !.parent = n,
                                !.expected = live]
        BY <1>1, <1>2, <1>5, CallRecordShape
      <3>4. call' = [call EXCEPT ![c].pc = "disk", ![c].number = call[c].number,
                                 ![c].parent = n, ![c].expected = live]
        BY <3>1, <3>3
      <3>5. OneLock => call[c].number = n + 1
        BY <1>1, <1>2, <2>1 DEF Turn, n, l
      <3> QED
        BY <1>2, <3>2, <3>4, <3>5
    <2>2. CASE call[c].op = "rollback"
      <3> DEFINE m == n + 1
      <3>1. \/ Refuse(c, "target")
            \/ call' = [call EXCEPT ![c].pc = "disk", ![c].number = m, ![c].expected = live]
        BY <1>3, <2>0, <2>2 DEF ReadActive, live, n
      <3>2. m \in Nat /\ call[c].parent \in Nat
        BY <1>2, CallRecordShape
      <3> HIDE DEF m
      <3>3. [call[c] EXCEPT !.pc = "disk", !.number = m, !.expected = live]
              = [call[c] EXCEPT !.pc = "disk", !.number = m, !.parent = call[c].parent,
                                !.expected = live]
        BY <1>1, <1>2, <1>5, <3>2, CallRecordShape
      <3>4. CASE call' = [call EXCEPT ![c].pc = "disk", ![c].number = m, ![c].expected = live]
        <4>1. call' = [call EXCEPT ![c].pc = "disk", ![c].number = m,
                                   ![c].parent = call[c].parent, ![c].expected = live]
          BY <3>3, <3>4
        <4> QED
          BY <3>2, <4>1 DEF m
      <3> QED
        BY <3>1, <3>4
    <2> QED
      BY <1>4, <2>1, <2>2
  <1> HIDE DEF live
  <1>7. ASSUME NEW m \in Nat, NEW p \in Nat, OneLock => m = n + 1,
               call' = [call EXCEPT ![c].pc = "disk", ![c].number = m, ![c].parent = p,
                                    ![c].expected = live]
        PROVE  TurnsInv' /\ FileInv'
    <2> DEFINE k == [call[c] EXCEPT !.pc = "disk", !.number = m, !.parent = p, !.expected = live]
    <2>1. call' = [call EXCEPT ![c] = k]
      BY <1>7
    <2> HIDE DEF n
    <2>2. k \in CallRecord
      BY <1>1, <1>2, <1>5, CallRecordShape
    <2>3. /\ k.pc = "disk" /\ k.op = call[c].op /\ k.content = call[c].content
          /\ k.lineage = l /\ k.number = m /\ k.anchor = call[c].anchor
      BY <1>1, <1>2, <1>5, <2>2, CallRecordShape
    <2> HIDE DEF k
    <2>4. OneLock => Turn(k, skill, candidate)
      BY <1>1, <1>2, <1>7, <2>3 DEF Turn, Publishing, n
    <2> QED
      BY <1>1, <2>1, <2>2, <2>3, <2>4, ReadStep
  <1> QED
    BY <1>1, <1>6, <1>7, RefuseTurn

----------------------------------------------------------------------------
(* Handlers that take turns: steps that change the file or the registry *)

\* What a handler at work has to leave of the file, the others being at rest.
LEMMA SoloFile ==
    ASSUME RegistryInv, TurnsInv, NEW c \in Calls, NEW k \in CallRecord,
           call' = [call EXCEPT ![c] = k], call[c].pc \in Steps, k.pc # "never", edits' = edits,
           Undisturbed =>
              /\ tmp' # None => tmp' # file'
              /\ \A d \in Calls : d # c /\ call[d].pc \in Early => d # file' /\ d # tmp'
              /\ k.pc \in Early => c # file' /\ c # tmp'
              /\ k.pc = "write" => k.fd = tmp' /\ tmp' # None /\ data'[tmp'] = Empty
              /\ k.pc = "rename" => tmp' # None /\ data'[tmp'] = k.content
              /\ k.pc = "commit" => file' # None /\ data'[file'] = k.content
              /\ k.pc = "retire" => file' = None
              /\ k.pc \notin {"commit", "retire"} => Matching'
    PROVE  FileInv'
  <1>1. /\ call'[c] = k /\ \A d \in Calls : d # c => call'[d] = call[d]
        /\ Undisturbed' => Undisturbed
    BY Moved
  <1>2. Undisturbed => \A d \in Calls : call[d].pc \in Steps => d = c
    BY Alone DEF Undisturbed, Running
  <1>3. Undisturbed => \A d \in Calls :
           d # c => call'[d].pc \notin {"write", "rename", "commit", "retire"}
    BY <1>1, <1>2 DEF Steps
  <1>4. (\A d \in Calls : call'[d].pc \notin {"commit", "retire"}) => k.pc \notin {"commit", "retire"}
    BY <1>1
  <1> QED
    BY <1>1, <1>3, <1>4 DEF FileInv

\* A handler at work on the file keeps what it has read.
LEMMA KeptTurn ==
    ASSUME RegistryInv, TurnsInv, NEW c \in Calls, NEW k \in CallRecord,
           call' = [call EXCEPT ![c] = k], UNCHANGED registry,
           call[c].pc \in Publishing, k.pc \in Publishing,
           k.op = call[c].op, k.lineage = call[c].lineage, k.content = call[c].content,
           k.anchor = call[c].anchor, k.number = call[c].number
    PROVE  TurnsInv'
  <1>1. call[c].pc \in Steps
    BY DEF Steps, Publishing
  <1>2. OneLock => Turn(call[c], skill, candidate)
    BY <1>1, TurnFacts
  <1>3. k.pc # "never" /\ k.pc # "name" /\ call[c].pc # "name"
    BY DEF Publishing
  <1>4. OneLock => Turn(k, skill, candidate)
    BY <1>2, <1>3 DEF Turn, Publishing
  <1> QED
    BY <1>1, <1>3, <1>4, TurnStep

LEMMA CreateTurn ==
    ASSUME RegistryInv, TurnsInv, FileInv, NEW c \in Calls, PublishCreate(c)
    PROVE  TurnsInv' /\ FileInv'
  <1> DEFINE i == IF tmp = None THEN c ELSE tmp
             k == [call[c] EXCEPT !.pc = "write", !.fd = i]
  <1>1. /\ call[c].pc = "create" /\ tmp' = i /\ data' = [data EXCEPT ![i] = Empty]
        /\ call' = [call EXCEPT ![c] = k]
        /\ UNCHANGED registry /\ UNCHANGED <<file, edits, failures>>
        /\ "create" \in Steps /\ "write" \in Pcs /\ "create" \in Early /\ "write" \notin Early
        /\ {"create", "write"} \subseteq Publishing
    BY DEF PublishCreate, Steps, Pcs, Early, Publishing
  <1>2. call[c] \in CallRecord
    BY Facts
  <1>3. i \in Inodes /\ i # None
    BY DiskFacts, ConstantsAssumption DEF Inodes
  <1>4. Undisturbed => i # file /\ \A d \in Calls : d # c /\ call[d].pc \in Early => d # file /\ d # i
    <2>1. SUFFICES ASSUME Undisturbed
                   PROVE  i # file /\ \A d \in Calls : d # c /\ call[d].pc \in Early => d # file /\ d # i
      OBVIOUS
    <2>2. /\ tmp # None => tmp # file
          /\ \A d \in Calls : call[d].pc \in Early => d # file /\ d # tmp
      BY <2>1 DEF FileInv
    <2> QED
      BY <1>1, <2>2
  <1> HIDE DEF i
  <1>5. k \in CallRecord
    BY <1>1, <1>2, <1>3, CallRecordShape
  <1>6. /\ k.pc = "write" /\ k.op = call[c].op /\ k.content = call[c].content
        /\ k.anchor = call[c].anchor /\ k.number = call[c].number
        /\ k.lineage = call[c].lineage /\ k.fd = i
    BY <1>1, <1>2, <1>3, <1>5, CallRecordShape
  <1> HIDE DEF k
  <1>7. data'[i] = Empty /\ \A j \in Inodes : j # i => data'[j] = data[j]
    BY <1>1, <1>3, DiskFacts
  <1>8. Undisturbed => Matching'
    <2>1. SUFFICES ASSUME Undisturbed PROVE Matching'
      OBVIOUS
    <2>2. \A d \in Calls : call[d].pc \in Steps => d = c
      BY <1>1, <2>1, Alone DEF Undisturbed, Running
    <2>3. \A d \in Calls : call[d].pc \notin {"commit", "retire"}
      BY <1>1, <2>2 DEF Steps
    <2>4. Matching
      BY <2>1, <2>3 DEF FileInv
    <2>5. file # None => data'[file] = data[file]
      BY <1>4, <1>7, <2>1, DiskFacts
    <2> QED
      BY <1>1, <2>4, <2>5, SameMatching
  <1>9. FileInv'
    BY <1>1, <1>3, <1>4, <1>5, <1>6, <1>7, <1>8, SoloFile
  <1>10. /\ call' = [call EXCEPT ![c] = k] /\ UNCHANGED registry
         /\ call[c].pc \in Publishing /\ k.pc \in Publishing
    BY <1>1, <1>6
  <1>11. TurnsInv'
    BY <1>5, <1>6, <1>10, KeptTurn
  <1> QED
    BY <1>9, <1>11

LEMMA WriteTurn ==
    ASSUME RegistryInv, TurnsInv, FileInv, NEW c \in Calls, PublishWrite(c)
    PROVE  TurnsInv' /\ FileInv'
  <1> DEFINE k == [call[c] EXCEPT !.pc = "rename"]
  <1>1. /\ call[c].pc = "write" /\ call' = [call EXCEPT ![c] = k]
        /\ UNCHANGED registry /\ UNCHANGED <<file, tmp, edits, failures>>
        /\ "write" \in Steps /\ "rename" \in Pcs /\ "rename" \notin Early
        /\ {"write", "rename"} \subseteq Publishing
    BY DEF PublishWrite, Goto, Steps, Pcs, Early, Publishing
  <1>2. call[c] \in CallRecord
    BY Facts
  <1>3. PICK d \in {call[c].content, Torn} :
           /\ d = Torn => data[call[c].fd] \notin {Empty, call[c].content}
           /\ data' = [data EXCEPT ![call[c].fd] = d]
    BY DEF PublishWrite
  <1>4. /\ k \in CallRecord /\ k.pc = "rename" /\ k.op = call[c].op
        /\ k.content = call[c].content /\ k.anchor = call[c].anchor
        /\ k.number = call[c].number /\ k.lineage = call[c].lineage
    BY <1>1, <1>2, PcFields
  <1> HIDE DEF k
  <1>5. ASSUME Undisturbed
        PROVE  /\ tmp' # None => tmp' # file'
               /\ \A e \in Calls : e # c /\ call[e].pc \in Early => e # file' /\ e # tmp'
               /\ tmp' # None /\ data'[tmp'] = k.content
               /\ Matching'
    <2>1. /\ tmp # None /\ tmp # file /\ call[c].fd = tmp /\ data[tmp] = Empty
          /\ \A e \in Calls : call[e].pc \in Early => e # file /\ e # tmp
      BY <1>1, <1>5 DEF FileInv
    <2>2. d = call[c].content
      BY <1>3, <2>1
    <2>3. data' = [data EXCEPT ![tmp] = call[c].content] /\ tmp \in Inodes
      BY <1>3, <2>1, <2>2, DiskFacts
    <2>4. data'[tmp] = call[c].content /\ (file # None => data'[file] = data[file])
      BY <2>1, <2>3, DiskFacts
    <2>5. \A e \in Calls : call[e].pc \in Steps => e = c
      BY <1>1, <1>5, Alone DEF Undisturbed, Running
    <2>6. \A e \in Calls : call[e].pc \notin {"commit", "retire"}
      BY <1>1, <2>5 DEF Steps
    <2>7. Matching
      BY <1>5, <2>6 DEF FileInv
    <2>8. Matching'
      BY <1>1, <2>4, <2>7, SameMatching
    <2> QED
      BY <1>1, <1>4, <2>1, <2>4, <2>8
  <1>6. FileInv'
    BY <1>1, <1>4, <1>5, SoloFile
  <1>7. /\ call' = [call EXCEPT ![c] = k] /\ UNCHANGED registry
        /\ call[c].pc \in Publishing /\ k.pc \in Publishing
    BY <1>1, <1>4
  <1>8. TurnsInv'
    BY <1>4, <1>7, KeptTurn
  <1> QED
    BY <1>6, <1>8

LEMMA RenameTurn ==
    ASSUME RegistryInv, TurnsInv, FileInv, NEW c \in Calls, PublishRename(c)
    PROVE  TurnsInv' /\ FileInv'
  <1> DEFINE k == [call[c] EXCEPT !.pc = "commit"]
  <1>1. /\ call[c].pc = "rename" /\ UNCHANGED registry /\ UNCHANGED <<data, edits, failures>>
        /\ "rename" \in Steps \ {"commit", "retire"} /\ "commit" \in Pcs /\ "commit" \notin Early
        /\ {"rename", "commit"} \subseteq Publishing /\ "fs" \in Whys
    BY DEF PublishRename, Steps, Pcs, Early, Publishing, Whys
  <1>2. CASE Refuse(c, "fs") /\ UNCHANGED <<file, tmp>>
    BY <1>1, <1>2, RefuseTurn DEF disk
  <1>3. CASE file' = tmp /\ tmp' = None /\ Goto(c, "commit")
    <2>1. call' = [call EXCEPT ![c] = k] /\ call[c] \in CallRecord
      BY <1>3, Facts DEF Goto
    <2>2. /\ k \in CallRecord /\ k.pc = "commit" /\ k.op = call[c].op
          /\ k.content = call[c].content /\ k.anchor = call[c].anchor
          /\ k.number = call[c].number /\ k.lineage = call[c].lineage
      BY <1>1, <2>1, PcFields
    <2> HIDE DEF k
    <2>3. ASSUME Undisturbed
          PROVE  /\ \A d \in Calls : d # c /\ call[d].pc \in Early => d # file' /\ d # tmp'
                 /\ file' # None /\ data'[file'] = k.content
      <3>1. /\ tmp # None /\ data[tmp] = call[c].content
            /\ \A d \in Calls : call[d].pc \in Early => d # file /\ d # tmp
        BY <1>1, <2>3 DEF FileInv
      <3>2. \A d \in Calls : d # None
        BY ConstantsAssumption
      <3> QED
        BY <1>1, <1>3, <2>2, <3>1, <3>2
    <2>4. FileInv'
      BY <1>1, <1>3, <2>1, <2>2, <2>3, SoloFile
    <2>5. UNCHANGED registry /\ call[c].pc \in Publishing /\ k.pc \in Publishing
      BY <1>1, <2>2
    <2>6. TurnsInv'
      BY <2>1, <2>2, <2>5, KeptTurn
    <2> QED
      BY <2>4, <2>6
  <1> QED
    BY <1>2, <1>3 DEF PublishRename

LEMMA RemoveTurn ==
    ASSUME RegistryInv, TurnsInv, FileInv, NEW c \in Calls, RemoveFile(c)
    PROVE  TurnsInv' /\ FileInv'
  <1> DEFINE k == [call[c] EXCEPT !.pc = "retire"]
  <1>1. /\ call[c].pc = "remove" /\ UNCHANGED registry /\ UNCHANGED <<tmp, data, edits, failures>>
        /\ "remove" \in Steps \ {"commit", "retire"} /\ "retire" \in Pcs /\ "missing" \in Whys
        /\ "remove" \in Early
    BY DEF RemoveFile, Steps, Pcs, Early, Whys
  <1>2. CASE Refuse(c, "missing") /\ UNCHANGED file
    BY <1>1, <1>2, RefuseTurn DEF disk
  <1>3. CASE file' = None /\ Goto(c, "retire")
    <2>1. call' = [call EXCEPT ![c] = k] /\ call[c] \in CallRecord
      BY <1>3, Facts DEF Goto
    <2>2. /\ k \in CallRecord /\ k.pc = "retire" /\ k.op = call[c].op
          /\ k.content = call[c].content /\ k.anchor = call[c].anchor
          /\ k.number = call[c].number /\ k.lineage = call[c].lineage
      BY <1>1, <2>1, PcFields
    <2> HIDE DEF k
    <2>3. ASSUME Undisturbed
          PROVE  /\ tmp' # None => tmp' # file'
                 /\ \A d \in Calls : call[d].pc \in Early => d # file' /\ d # tmp'
      <3>1. \A d \in Calls : call[d].pc \in Early => d # file /\ d # tmp
        BY <2>3 DEF FileInv
      <3>2. \A d \in Calls : d # None
        BY ConstantsAssumption
      <3> QED
        BY <1>1, <1>3, <3>1, <3>2
    <2>4. FileInv'
      BY <1>1, <1>3, <2>1, <2>2, <2>3, SoloFile
    <2>5. (OneLock => Turn(call[c], skill, candidate)) /\ call[c].op = "deprecate"
      BY <1>1, Facts, TurnFacts DEF Moving
    <2>6. OneLock => Turn(k, skill, candidate)
      BY <2>2, <2>5 DEF Turn, Publishing
    <2>7. TurnsInv'
      BY <1>1, <2>1, <2>2, <2>6, TurnStep
    <2> QED
      BY <2>4, <2>7
  <1> QED
    BY <1>2, <1>3 DEF RemoveFile

LEMMA CutOffTurn ==
    ASSUME RegistryInv, TurnsInv, FileInv, NEW c \in Calls, CutOff(c)
    PROVE  TurnsInv' /\ FileInv'
  <1> DEFINE k == [call[c] EXCEPT !.pc = "dead", !.at = call[c].pc]
  <1>1. /\ call[c].pc \in Steps /\ call' = [call EXCEPT ![c] = k]
        /\ UNCHANGED <<registry, disk, edits>>
    BY DEF CutOff, Running
  <1>2. call[c] \in CallRecord
    BY Facts
  <1>3. k \in CallRecord /\ k.pc = "dead" /\ k.at = call[c].pc
    BY <1>1, <1>2, DeadFields
  <1> HIDE DEF k
  <1>4. k.pc \notin Steps /\ k.pc \notin Early
    BY <1>3 DEF Steps, Early
  <1>5. TurnsInv'
    BY <1>1, <1>3, <1>4, TurnStep
  <1>6. CASE call[c].pc \in {"commit", "retire"}
    <2>1. call'[c] = k
      BY <1>1, <1>3, Moved
    <2>2. ~Undisturbed'
      BY <1>3, <1>6, <2>1 DEF Undisturbed
    <2> QED
      BY <1>5, <2>2 DEF FileInv
  <1>7. CASE call[c].pc \notin {"commit", "retire"}
    BY <1>1, <1>3, <1>4, <1>5, <1>7, FileStep
  <1> QED
    BY <1>6, <1>7

LEMMA OutsiderTurn ==
    ASSUME RegistryInv, TurnsInv, FileInv, Outsider
    PROVE  TurnsInv' /\ FileInv'
  <1>1. UNCHANGED registry /\ call' = call /\ edits' = edits + 1
    BY DEF Outsider
  <1>2. edits' # 0
    BY <1>1, DiskFacts
  <1>3. FileInv'
    BY <1>2 DEF FileInv, Undisturbed
  <1>4. TurnsInv'
    BY <1>1 DEF TurnsInv, OneLock, Arriving, Running, Exists, Turn, registry
  <1> QED
    BY <1>3, <1>4

\* A reviewer needs the lock, and no version came from a candidate still under review.
LEMMA ReviewTurn ==
    ASSUME RegistryInv, TurnsInv, FileInv, NEW q \in Candidates, Propose(q) \/ Withdraw(q)
    PROVE  TurnsInv' /\ FileInv'
  <1>1. /\ UNCHANGED <<skill, version, disk, call, edits, failures>> /\ Reviewer(q[1])
        /\ candidate[q].status # "active"
    BY DEF Propose, Withdraw
  <1>2. \A k \in Candidates : k # q => candidate'[k] = candidate[k]
    BY DEF Propose, Withdraw, RegistryInv, TypeOK
  <1>3. OneLock => \A c \in Calls : ~Running(c)
    <2>1. PICK d \in Arriving : LockFree(Process[d], Workspace[d])
      BY <1>1 DEF Reviewer
    <2>2. \A c \in Calls : Running(c) => c \in Arriving
      BY DEF Running, Arriving, Steps
    <2> QED
      BY <2>1, <2>2 DEF OneLock, LockFree
  <1>4. OneLock' <=> OneLock
    BY <1>1 DEF OneLock, Arriving
  <1>5. OneLock => \A l \in Lineages : \A n \in DOMAIN version[l] :
                       LET k == <<l, version[l][n].source>>
                       IN  (version[l][n].source # None /\ candidate'[k].based_on_version > 0)
                              => n = candidate'[k].based_on_version + 1
    <2>1. ASSUME NEW l \in Lineages, NEW n \in DOMAIN version[l], version[l][n].source # None
          PROVE  candidate'[<<l, version[l][n].source>>] = candidate[<<l, version[l][n].source>>]
      <3>1. version[l][n] \in VersionRow
        BY DEF RegistryInv, TypeOK
      <3>2. <<l, version[l][n].source>> \in Candidates
        BY <2>1, <3>1 DEF VersionRow, Candidates
      <3>3. candidate[<<l, version[l][n].source>>].status = "active"
        BY <2>1 DEF RegistryInv, Anchors
      <3> QED
        BY <1>1, <1>2, <3>2, <3>3
    <2> QED
      BY <2>1 DEF TurnsInv
  <1>6. TurnsInv'
    <2>1. OneLock' => \A c \in Calls : ~Running(c)'
      BY <1>1, <1>3, <1>4 DEF Running
    <2>2. OneLock' => \A l, m \in Lineages : Exists(l)' /\ Exists(m)' => l = m
      BY <1>1, <1>4 DEF TurnsInv, Exists
    <2>3. OneLock' => \A l \in Lineages : \A n \in DOMAIN version'[l] :
                         LET k == <<l, version'[l][n].source>>
                         IN  (version'[l][n].source # None /\ candidate'[k].based_on_version > 0)
                                => n = candidate'[k].based_on_version + 1
      BY <1>1, <1>4, <1>5
    <2> QED
      BY <2>1, <2>2, <2>3 DEF TurnsInv
  <1>7. FileInv'
    <2>1. /\ skill' = skill /\ version' = version /\ call' = call /\ edits' = edits
          /\ file' = file /\ tmp' = tmp /\ data' = data
      BY <1>1 DEF disk
    <2>2. (Undisturbed' <=> Undisturbed) /\ (Matching' <=> Matching)
      BY <1>4, <2>1 DEF Undisturbed, Matching, OnDisk, Live
    <2> QED
      BY <2>1, <2>2 DEF FileInv
  <1> QED
    BY <1>6, <1>7

\* When the handler at work returns, nobody runs.
LEMMA Rest ==
    ASSUME RegistryInv, TurnsInv, NEW c \in Calls, call[c].pc \in Steps, Goto(c, "done")
    PROVE  /\ \E k \in CallRecord : call' = [call EXCEPT ![c] = k] /\ k.pc = "done"
           /\ OneLock' => OneLock
           /\ OneLock => \A d \in Calls : ~Running(d)'
  <1> DEFINE k == [call[c] EXCEPT !.pc = "done"]
  <1>1. call' = [call EXCEPT ![c] = k] /\ "done" \in Pcs /\ "done" \notin Steps
    BY DEF Goto, Pcs, Steps
  <1>2. call[c] \in CallRecord
    BY Facts
  <1>3. k \in CallRecord /\ k.pc = "done"
    BY <1>1, <1>2, PcFields
  <1> HIDE DEF k
  <1>4. /\ call'[c] = k /\ \A d \in Calls : d # c => call'[d] = call[d]
        /\ OneLock' => OneLock
    BY <1>1, <1>3, Moved
  <1>5. OneLock => \A d \in Calls : call[d].pc \in Steps => d = c
    BY Alone DEF Running
  <1>6. OneLock => \A d \in Calls : ~Running(d)'
    BY <1>1, <1>3, <1>4, <1>5 DEF Running
  <1> QED
    BY <1>1, <1>3, <1>4, <1>6

\* The file of a handler that returns, the registry saying what the file holds.
LEMMA RestFile ==
    ASSUME RegistryInv, TurnsInv, FileInv, NEW c \in Calls, call[c].pc \in {"commit", "retire"},
           Goto(c, "done"), UNCHANGED <<disk, edits>>, Undisturbed => Matching'
    PROVE  FileInv'
  <1>1. call[c].pc \in Steps
    BY DEF Steps
  <1>2. PICK k \in CallRecord : call' = [call EXCEPT ![c] = k] /\ k.pc = "done"
    BY <1>1, Rest
  <1>3. k.pc \notin Early
    BY <1>2 DEF Early, Steps
  <1>4. Undisturbed =>
           /\ tmp' # None => tmp' # file'
           /\ \A d \in Calls : call[d].pc \in Early => d # file' /\ d # tmp'
    BY DEF FileInv, disk
  <1> QED
    BY <1>1, <1>2, <1>3, <1>4, SoloFile

\* The closing transaction writes what the handler published.
LEMMA ClosingTurn ==
    ASSUME RegistryInv, TurnsInv, FileInv, NEW c \in Calls, call[c].pc = "commit",
           Goto(c, "done"), ~SlotTaken(c), UNCHANGED <<disk, edits, failures>>,
           NEW retired \in {"replaced", "rolled_back"}, NEW row \in SkillRow,
           row.status # "none", row.current_version = call[c].number,
           OneLock => row.status = "active",
           version' = [version EXCEPT ![call[c].lineage] = Appended(c, retired)],
           skill' = [skill EXCEPT ![call[c].lineage] = row],
           \A k \in Candidates : candidate'[k].based_on_version = candidate[k].based_on_version
    PROVE  TurnsInv' /\ FileInv'
  <1> DEFINE l == call[c].lineage
             m == call[c].number
  <1>1. call[c].pc \in Steps /\ call[c].pc \in Publishing
    BY DEF Steps, Publishing
  <1>2. /\ call[c] \in CallRecord /\ l \in Lineages
        /\ Moving(call[c], skill[l].current_version)
        /\ OneLock => Turn(call[c], skill, candidate)
    BY <1>1, Facts, TurnFacts
  <1>3. /\ call[c].op \in {"approve", "rollback"} /\ call[c].content \in Contents
        /\ call[c].op = "approve" => call[c].anchor \in {0, m - 1}
        /\ m \in Nat
    BY <1>1, <1>2, CallRecordShape DEF Moving
  <1>4. /\ Grown
        /\ \A q \in Lineages : \A n \in DOMAIN version'[q] : version'[q][n] \in VersionRow
        /\ DOMAIN version'[l] = DOMAIN version[l] \cup {m}
        /\ version'[l][m].content = call[c].content
        /\ version'[l][m].source = IF call[c].op = "approve" THEN call[c].content ELSE None
    BY CommitRows
  <1>5. /\ skill'[l] = row
        /\ \A q \in Lineages : q # l => skill'[q] = skill[q] /\ version'[q] = version[q]
    BY <1>2 DEF RegistryInv, TypeOK
  <1>6. OneLock => \A q \in Lineages : Exists(q)' => q = l
    <2>1. CASE call[c].op = "approve"
      BY <1>1, <1>2, <1>5, <2>1 DEF Turn, Exists, Publishing
    <2>2. CASE call[c].op = "rollback"
      <3>1. OneLock => Exists(l)
        BY <1>2, <2>2 DEF Turn, Exists
      <3>2. OneLock => \A q \in Lineages : Exists(q) => q = l
        BY <1>2, <3>1 DEF TurnsInv
      <3> QED
        BY <1>5, <3>2 DEF Exists
    <2> QED
      BY <1>3, <2>1, <2>2
  <1>7. OneLock => \A q \in Lineages : \A n \in DOMAIN version'[q] :
                       LET k == <<q, version'[q][n].source>>
                       IN  (version'[q][n].source # None /\ candidate'[k].based_on_version > 0)
                              => n = candidate'[k].based_on_version + 1
    <2>1. ASSUME OneLock, NEW q \in Lineages, NEW n \in DOMAIN version'[q],
                 version'[q][n].source # None,
                 candidate'[<<q, version'[q][n].source>>].based_on_version > 0
          PROVE  n = candidate'[<<q, version'[q][n].source>>].based_on_version + 1
      <3> DEFINE s == version'[q][n].source
      <3>1. s \in Contents
        BY <1>4, <2>1 DEF VersionRow
      <3>2. <<q, s>> \in Candidates
        BY <3>1 DEF Candidates
      <3>3. candidate'[<<q, s>>].based_on_version = candidate[<<q, s>>].based_on_version
        BY <3>2
      <3>4. CASE n \in DOMAIN version[q]
        <4>1. version[q][n].source = s
          BY <3>4, <1>4 DEF Grown
        <4> HIDE DEF s
        <4>2. /\ version[q][n].source # None
              /\ candidate[<<q, version[q][n].source>>].based_on_version > 0
          BY <2>1, <3>3, <4>1 DEF s
        <4>3. n = candidate[<<q, version[q][n].source>>].based_on_version + 1
          BY <2>1, <3>4, <4>2 DEF TurnsInv
        <4> QED
          BY <3>3, <4>1, <4>3 DEF s
      <3>5. CASE n \notin DOMAIN version[q]
        <4>1. q = l /\ n = m
          BY <1>4, <1>5, <2>1, <3>5
        <4>2. call[c].op = "approve" /\ s = call[c].content
          BY <1>4, <2>1, <4>1
        <4> HIDE DEF s
        <4>3. candidate[<<q, s>>].based_on_version = call[c].anchor
          BY <1>2, <2>1, <4>1, <4>2 DEF Turn
        <4>4. call[c].anchor = m - 1
          BY <1>3, <2>1, <3>3, <4>2, <4>3 DEF s
        <4> QED
          BY <1>3, <3>3, <4>1, <4>3, <4>4 DEF s
      <3> QED
        BY <3>4, <3>5
    <2> QED
      BY <2>1
  <1>8. Undisturbed => Matching'
    <2>1. SUFFICES ASSUME Undisturbed PROVE Matching'
      OBVIOUS
    <2>2. file # None /\ data[file] = call[c].content /\ OneLock
      BY <2>1 DEF FileInv, Undisturbed
    <2>3. OnDisk' = call[c].content
      BY <2>2 DEF OnDisk, disk
    <2>4. ASSUME NEW q \in Lineages, skill'[q].status = "active"
          PROVE  OnDisk' = version'[q][skill'[q].current_version].content
      <3>1. q = l
        BY <1>6, <2>2, <2>4 DEF Exists
      <3> QED
        BY <1>4, <1>5, <2>3, <3>1
    <2>5. l \in Live'
      BY <1>2, <1>5, <2>2 DEF Live
    <2> QED
      BY <2>4, <2>5 DEF Matching
  <1>9. FileInv'
    BY <1>8, RestFile
  <1>10. (OneLock' => OneLock) /\ (OneLock => \A d \in Calls : ~Running(d)')
    BY <1>1, Rest
  <1>11. OneLock => \A q, r \in Lineages : Exists(q)' /\ Exists(r)' => q = r
    BY <1>6
  <1>12. TurnsInv'
    BY <1>7, <1>10, <1>11 DEF TurnsInv
  <1> QED
    BY <1>9, <1>12

LEMMA CommitTurn ==
    ASSUME RegistryInv, TurnsInv, FileInv, NEW c \in Calls, Commit(c)
    PROVE  TurnsInv' /\ FileInv'
  <1> DEFINE l == call[c].lineage
             m == call[c].number
             d == call[c].content
  <1>1. /\ call[c].pc = "commit" /\ UNCHANGED <<disk, edits, failures>>
        /\ call[c].pc \in Steps /\ call[c].pc \in Publishing
    BY DEF Commit, Steps, Publishing
  <1>2. /\ call[c] \in CallRecord /\ l \in Lineages /\ skill[l] \in SkillRow
        /\ skill[l].current_version \in Nat
        /\ Moving(call[c], skill[l].current_version)
        /\ OneLock => Turn(call[c], skill, candidate)
    BY <1>1, Facts, TurnFacts
  <1>3. m \in Nat /\ m > 0 /\ d \in Contents /\ (call[c].op = "rollback" => m > 1)
        /\ m <= skill[l].current_version + 1
    BY <1>1, <1>2, CallRecordShape DEF Moving
  <1>4. candidate \in [Candidates -> CandidateRow]
    BY DEF RegistryInv, TypeOK
  <1>5. CASE CommitApproval(c)
    <2> DEFINE row == [status |-> "active", current_version |-> m]
    <2>1. /\ call[c].op = "approve" /\ ~SlotTaken(c) /\ Goto(c, "done")
          /\ version' = [version EXCEPT ![l] = Appended(c, "replaced")]
          /\ skill' = [skill EXCEPT ![l] = row]
          /\ candidate' = [candidate EXCEPT ![<<l, d>>].status = "active"]
      BY <1>5 DEF CommitApproval
    <2>2. row \in SkillRow /\ row.status = "active" /\ row.current_version = m
      BY <1>3 DEF SkillRow
    <2> HIDE DEF row
    <2>3. \A k \in Candidates : candidate'[k].based_on_version = candidate[k].based_on_version
      BY <1>4, <2>1 DEF CandidateRow
    <2> QED
      BY <1>1, <2>1, <2>2, <2>3, ClosingTurn
  <1>6. CASE CommitRollback(c)
    <2> DEFINE row == [skill[l] EXCEPT !.current_version = m]
    <2>1. /\ call[c].op = "rollback" /\ ~SlotTaken(c) /\ Goto(c, "done")
          /\ version' = [version EXCEPT ![l] = Appended(c, "rolled_back")]
          /\ skill' = [skill EXCEPT ![l] = row] /\ candidate' = candidate
      BY <1>6 DEF CommitRollback
    <2>2. skill[l].status # "none"
      <3>1. Exists(l) <=> skill[l].current_version > 0
        BY <1>2, ActiveEnd
      <3> QED
        BY <1>2, <1>3, <2>1, <3>1 DEF Exists
    <2>3. OneLock => skill[l].status = "active"
      BY <1>2, <2>1 DEF Turn
    <2>4. /\ row \in SkillRow /\ row.current_version = m
          /\ row.status = skill[l].status
      BY <1>2, <1>3 DEF SkillRow
    <2> HIDE DEF row
    <2> QED
      BY <1>1, <2>1, <2>2, <2>3, <2>4, ClosingTurn
  <1>7. CASE SlotTaken(c) /\ Refuse(c, "slot") /\ UNCHANGED registry
    <2>1. ~OneLock
      <3>1. OneLock => m = skill[l].current_version + 1
        BY <1>1, <1>2 DEF Turn
      <3>2. m \in 1 .. skill[l].current_version
        BY <1>2, <1>7, ActiveEnd DEF SlotTaken
      <3> QED
        BY <1>2, <1>3, <3>1, <3>2
    <2>2. ~OneLock'
      <3> DEFINE k == [call[c] EXCEPT !.pc = "refused", !.why = "slot"]
      <3>1. call' = [call EXCEPT ![c] = k] /\ "slot" \in Whys
        BY <1>7 DEF Refuse, Whys
      <3>2. k \in CallRecord /\ k.pc # "never"
        BY <1>2, <3>1, RefuseFields
      <3> HIDE DEF k
      <3> QED
        BY <1>1, <2>1, <3>1, <3>2, Moved
    <2> QED
      BY <2>2 DEF TurnsInv, FileInv, Undisturbed
  <1> QED
    BY <1>5, <1>6, <1>7 DEF Commit

LEMMA RetireTurn ==
    ASSUME RegistryInv, TurnsInv, FileInv, NEW c \in Calls, RetireSkill(c)
    PROVE  TurnsInv' /\ FileInv'
  <1> DEFINE l == call[c].lineage
             row == [skill[l] EXCEPT !.status = "deprecated"]
  <1>1. /\ call[c].pc = "retire" /\ call[c].pc \in Steps /\ Goto(c, "done")
        /\ skill' = [skill EXCEPT ![l] = row]
        /\ version' = version /\ candidate' = candidate
        /\ UNCHANGED <<disk, edits, failures>>
    BY DEF RetireSkill, Steps
  <1>2. /\ l \in Lineages /\ skill[l] \in SkillRow
        /\ Moving(call[c], skill[l].current_version)
        /\ OneLock => Turn(call[c], skill, candidate)
    BY <1>1, Facts, TurnFacts
  <1>3. row.status = "deprecated"
    BY <1>2 DEF SkillRow
  <1> HIDE DEF row
  <1>4. /\ skill'[l] = row /\ \A q \in Lineages : q # l => skill'[q] = skill[q]
    BY <1>1, <1>2 DEF RegistryInv, TypeOK
  <1>5. OneLock => skill[l].status = "active"
    BY <1>1, <1>2 DEF Turn, Moving
  <1>6. OneLock => \A q \in Lineages : Exists(q)' => q = l
    <2>1. OneLock => \A q \in Lineages : Exists(q) => q = l
      BY <1>2, <1>5 DEF TurnsInv, Exists
    <2> QED
      BY <1>4, <2>1 DEF Exists
  <1>7. Undisturbed => Matching'
    <2>1. SUFFICES ASSUME Undisturbed PROVE Matching'
      OBVIOUS
    <2>2. OneLock /\ file' = None
      BY <1>1, <2>1 DEF Undisturbed, FileInv, disk
    <2>3. \A q \in Lineages : skill'[q].status # "active"
      BY <1>3, <1>4, <1>6, <2>2 DEF Exists
    <2> QED
      BY <2>2, <2>3 DEF Matching
  <1>8. FileInv'
    BY <1>1, <1>7, RestFile
  <1>9. (OneLock' => OneLock) /\ (OneLock => \A d \in Calls : ~Running(d)')
    BY <1>1, Rest
  <1>10. TurnsInv'
    BY <1>1, <1>6, <1>9 DEF TurnsInv
  <1> QED
    BY <1>8, <1>10

LEMMA InitTurns == Init => TurnsInv /\ FileInv
  <1> SUFFICES ASSUME Init PROVE TurnsInv /\ FileInv
    OBVIOUS
  <1>1. PICK l \in Lineages, h \in Histories : Published(l, h)
    BY DEF Init
  <1>2. /\ Len(h) \in Nat
        /\ h # <<>> <=> Len(h) > 0
        /\ DOMAIN version[l] = 1 .. Len(h)
        /\ \A n \in 1 .. Len(h) : version[l][n].source = h[n] /\ version[l][n].content = h[n]
        /\ \A m \in Lineages : m # l => DOMAIN version[m] = {}
        /\ skill[l].current_version = Len(h) /\ (skill[l].status = "active" <=> Len(h) > 0)
        /\ skill[l].status \in {"none", "active"}
        /\ \A m \in Lineages : m # l => skill[m].status = "none" /\ skill[m].current_version = 0
    BY <1>1, PublishedRows
  <1>3. \A n \in 1 .. Len(h) : candidate[<<l, h[n]>>].based_on_version = n - 1
    BY <1>1, PublishedCandidates
  <1>4. \A c \in Calls : call[c].pc \in {"idle", "never"}
    BY InitCalls
  <1>5. \A q \in Lineages : Exists(q) => q = l
    BY <1>2 DEF Exists
  <1>6. ASSUME NEW q \in Lineages, NEW n \in DOMAIN version[q]
        PROVE  n = candidate[<<q, version[q][n].source>>].based_on_version + 1
    <2>1. q = l /\ n \in 1 .. Len(h)
      BY <1>2
    <2>2. version[q][n].source = h[n]
      BY <1>2, <2>1
    <2>3. candidate[<<q, h[n]>>].based_on_version = n - 1
      BY <1>3, <2>1
    <2> QED
      BY <1>2, <2>1, <2>2, <2>3
  <1>7. TurnsInv
    <2>1. \A c \in Calls : ~Running(c)
      BY <1>4 DEF Running, Steps
    <2> QED
      BY <1>5, <1>6, <2>1 DEF TurnsInv
  <1>8. /\ tmp = None /\ file = IF h = <<>> THEN None ELSE "base"
        /\ data = [i \in Inodes |-> IF i = "base" /\ h # <<>> THEN h[Len(h)] ELSE Empty]
    BY <1>1 DEF Published, Init
  <1>9. "base" # None /\ "base" \in Inodes /\ \A c \in Calls : c # "base" /\ c # None
    BY ConstantsAssumption DEF Inodes
  <1>10. Matching
    <2>1. CASE h = <<>>
      <3>1. \A q \in Lineages : skill[q].status # "active"
        BY <1>2, <2>1
      <3> QED
        BY <1>8, <2>1, <3>1 DEF Matching
    <2>2. CASE h # <<>>
      <3>1. Len(h) \in 1 .. Len(h) /\ skill[l].status = "active"
        BY <1>2, <2>2
      <3>2. OnDisk = h[Len(h)]
        BY <1>8, <1>9, <2>2 DEF OnDisk
      <3>3. OnDisk = version[l][skill[l].current_version].content
        BY <1>2, <3>1, <3>2
      <3>4. \A q \in Lineages : skill[q].status = "active" => q = l
        BY <1>5 DEF Exists
      <3>5. l \in Live
        BY <3>1 DEF Live
      <3> QED
        BY <3>3, <3>4, <3>5 DEF Matching
    <2> QED
      BY <2>1, <2>2
  <1>11. FileInv
    BY <1>4, <1>8, <1>9, <1>10 DEF FileInv
  <1> QED
    BY <1>7, <1>11

LEMMA NextTurns ==
    ASSUME RegistryInv, TurnsInv, FileInv, [Next]_vars
    PROVE  TurnsInv' /\ FileInv'
  <1>1. ASSUME NEW c \in Calls,
               \/ \E k \in Candidates : Approve(c, k)
               \/ \E l \in Lineages : Rollback(c, l) \/ Deprecate(c, l)
        PROVE  TurnsInv' /\ FileInv'
    BY <1>1, ApproveTurn, OpenTurn
  <1>2. ASSUME NEW c \in Calls,
               \/ ReadName(c) \/ ReadLineage(c) \/ ReadVacant(c)
               \/ ReadTarget(c) \/ ReadActive(c) \/ ReadDisk(c)
        PROVE  TurnsInv' /\ FileInv'
    BY <1>2, NameTurn, LineageTurn, VacantTurn, TargetTurn, ActiveTurn, DiskTurn
  <1>3. ASSUME NEW c \in Calls,
               PublishCheck(c) \/ PublishCreate(c) \/ PublishWrite(c) \/ PublishRename(c)
        PROVE  TurnsInv' /\ FileInv'
    BY <1>3, PublishCheckTurn, CreateTurn, WriteTurn, RenameTurn
  <1>4. ASSUME NEW c \in Calls, Commit(c) \/ RemoveFile(c) \/ RetireSkill(c) \/ CutOff(c)
        PROVE  TurnsInv' /\ FileInv'
    BY <1>4, CommitTurn, RemoveTurn, RetireTurn, CutOffTurn
  <1>5. ASSUME NEW k \in Candidates, Propose(k) \/ Withdraw(k)
        PROVE  TurnsInv' /\ FileInv'
    BY <1>5, ReviewTurn
  <1>6. CASE UNCHANGED vars
    <2>1. UNCHANGED <<skill, version, candidate, file, tmp, data, call, edits, failures>>
      BY <1>6 DEF vars
    <2>2. TurnsInv'
      BY <2>1 DEF TurnsInv, OneLock, Arriving, Running, Exists, Turn
    <2>3. (Undisturbed' <=> Undisturbed) /\ (Matching' <=> Matching)
      BY <2>1 DEF Undisturbed, OneLock, Arriving, Matching, OnDisk, Live
    <2> QED
      BY <2>1, <2>2, <2>3 DEF FileInv
  <1> QED
    BY <1>1, <1>2, <1>3, <1>4, <1>5, <1>6, OutsiderTurn DEF Next

LEMMA TurnsCorrect == Spec => [](RegistryInv /\ TurnsInv /\ FileInv)
  <1>1. Init => RegistryInv /\ TurnsInv /\ FileInv
    BY InitRegistry, InitTurns
  <1>2. RegistryInv /\ TurnsInv /\ FileInv /\ [Next]_vars
            => RegistryInv' /\ TurnsInv' /\ FileInv'
    BY NextRegistry, NextTurns
  <1> QED
    BY <1>1, <1>2, PTL DEF Spec

----------------------------------------------------------------------------
(* The theorems *)

(***************************************************************************)
(* Every value a handler keeps between its closures and system calls, and  *)
(* every row and inode, has its type.                                      *)
(***************************************************************************)
THEOREM TypeCorrect == Spec => []TypeOK
  <1>1. RegistryInv => TypeOK
    BY DEF RegistryInv
  <1> QED
    BY <1>1, RegistryCorrect, PTL

(***************************************************************************)
(* The version chain of a lineage has no gap and one active version at its *)
(* end, which the skill row names, however many approvals and rollbacks of *)
(* however many processes race and wherever they are cut off: the closing  *)
(* transactions of approve_skill_candidate and rollback_skill refuse a     *)
(* number that is taken, and what a handler read before cannot run ahead.  *)
(***************************************************************************)
THEOREM LineageCorrect == Spec => []LineageConsistent
  <1>1. RegistryInv => LineageConsistent
    BY DEF RegistryInv
  <1> QED
    BY <1>1, RegistryCorrect, PTL

(***************************************************************************)
(* An approval that approve_skill_candidate reports is in the registry     *)
(* under the number it reports, and follows the anchor it read; where      *)
(* handlers take turns, every published candidate's anchor is the version  *)
(* before its own.                                                         *)
(***************************************************************************)
THEOREM AnchorCorrect == Spec => []AnchorRespected
  <1>1. ASSUME RegistryInv, TurnsInv PROVE AnchorRespected
    <2>1. ASSUME NEW c \in Calls, call[c].pc = "done", call[c].op = "approve"
          PROVE  Reported(call[c], version[call[c].lineage])
      BY <1>1, <2>1, Facts DEF CallOK
    <2>2. \A c \in Calls : call[c].pc = "done" /\ call[c].op = "approve" =>
              /\ call[c].number \in DOMAIN version[call[c].lineage]
              /\ version[call[c].lineage][call[c].number].source = call[c].content
              /\ call[c].anchor \in {0, call[c].number - 1}
      BY <2>1 DEF Reported
    <2>3. OneLock =>
             \A l \in Lineages : \A n \in DOMAIN version[l] :
                 LET k == <<l, version[l][n].source>>
                 IN  (version[l][n].source # None /\ candidate[k].based_on_version > 0)
                        => n = candidate[k].based_on_version + 1
      BY <1>1 DEF TurnsInv
    <2> QED
      BY <2>2, <2>3 DEF AnchorRespected
  <1> QED
    BY <1>1, TurnsCorrect, PTL

(***************************************************************************)
(* Handlers that take turns on one mutation_lock leave SKILL.md equal to   *)
(* the active version, or absent when no lineage is active, and never two  *)
(* active lineages for the one file, whatever they refuse and wherever     *)
(* they are cut off short of the gap between their two effects.            *)
(***************************************************************************)
THEOREM FileCorrect == Spec => []LiveMatchesRegistry
  <1>1. ASSUME RegistryInv, TurnsInv, FileInv PROVE LiveMatchesRegistry
    <2>1. SUFFICES ASSUME OneLock, ~(edits > 0),
                          \A c \in Calls : {call[c].pc, call[c].at} \cap {"commit", "retire"} = {}
                   PROVE  Cardinality(Live) <= 1 /\ OnDisk \in Registered
      BY DEF LiveMatchesRegistry
    <2>2. \A c \in Calls : call[c].pc \notin {"commit", "retire"} /\ call[c].at \notin {"commit", "retire"}
      BY <2>1
    <2>3. edits = 0
      BY <1>1, <2>1, DiskFacts
    <2>4. Matching
      BY <1>1, <2>1, <2>2, <2>3 DEF Undisturbed, FileInv
    <2>5. CASE Live = {}
      <3>1. Cardinality(Live) = 0
        BY <2>5, FS_EmptySet
      <3> QED
        BY <2>4, <2>5, <3>1 DEF Matching, OnDisk, Registered
    <2>6. ASSUME NEW l \in Live PROVE Cardinality(Live) <= 1 /\ OnDisk \in Registered
      <3>1. Live = {l}
        BY <1>1, <2>1 DEF TurnsInv, Live, Exists
      <3>2. Cardinality({l}) = 1
        BY FS_Singleton
      <3>3. OnDisk = version[l][skill[l].current_version].content
        BY <2>4 DEF Matching, Live
      <3> QED
        BY <3>1, <3>2, <3>3 DEF Registered
    <2> QED
      BY <2>5, <2>6
  <1> QED
    BY <1>1, TurnsCorrect, PTL
=============================================================================
