-------------------------- MODULE SkillPublication --------------------------
(***************************************************************************)
(* Publication of a skill: approve_skill_candidate, rollback_skill and     *)
(* deprecate_skill of context-runtime/src/skills.rs over the two places a  *)
(* skill lives in: the registry (tables skills, skill_versions and         *)
(* skill_candidates of state.db) and the file <name>/SKILL.md that         *)
(* OpenCode reads.                                                         *)
(*                                                                         *)
(* One skill name is modelled: its file is one path whatever the scope and *)
(* the workspace, while the registry has one lineage for every scope and   *)
(* workspace.  A handler is a sequence of database closures and system     *)
(* calls, and each is one step here.  Handlers of one server process and   *)
(* one workspace take turns on mutation_lock; those of other processes or  *)
(* other workspaces, and editors of the file, do not.                      *)
(*                                                                         *)
(* How a candidate comes to be validated, and what a reviewer does to it,  *)
(* is one step here; publication sees no more of it than the row's status  *)
(* and version anchor.                                                     *)
(***************************************************************************)
EXTENDS Integers, Sequences, FiniteSets

CONSTANTS
    Lineages,   \* skill ids that share the one name
    Contents,   \* SKILL.md texts that pass validate_skill_content
    Weak,       \* candidates below SKILL_APPROVAL_MIN_CONFIDENCE
    Calls,      \* tool calls
    Arrivals,   \* the sets of calls that may be the ones that arrive
    Process,    \* [Calls -> server processes]
    Workspace,  \* [Calls -> workspaces]
    Owner,      \* [Lineages -> workspaces, or Global]
    Global,     \* the scope every workspace may act on
    Histories,  \* version histories a lineage may start with
    None,       \* no file, no version, no inode
    Empty,      \* a file created and not yet written
    Torn,       \* two writers' bytes mixed
    MaxEdits,   \* bound: changes of the file by outsiders
    MaxFailures \* bound: calls cut off by a crash or a database error

Candidates == Lineages \X Contents
Numbers == Nat \ {0}

ASSUME ConstantsAssumption ==
    /\ Weak \subseteq Candidates
    /\ DOMAIN Process = Calls /\ DOMAIN Workspace = Calls /\ DOMAIN Owner = Lineages
    /\ None \notin Contents \cup Calls \cup {"base", "outside"}
    /\ Empty \notin Contents /\ Torn \notin Contents /\ Empty # Torn
    /\ Calls \cap {"base", "outside"} = {}
    /\ Histories \subseteq Seq(Contents)
    /\ \A h \in Histories : \A i, j \in DOMAIN h : h[i] = h[j] => i = j
    /\ Arrivals \subseteq SUBSET Calls
    /\ {MaxEdits, MaxFailures} \subseteq Nat

VARIABLES
    skill,     \* [Lineages -> the row of table skills]
    version,   \* [Lineages -> [version numbers in use -> row of skill_versions]]
    candidate, \* [Candidates -> status and anchor of the candidate's row]
    file,      \* the inode SKILL.md names, or None
    tmp,       \* the inode .tmp-<name> names, or None
    data,      \* [Inodes -> what the inode holds]
    call,      \* [Calls -> the local state of the handler]
    edits,     \* changes by outsiders so far
    failures   \* calls cut off so far

vars == <<skill, version, candidate, file, tmp, data, call, edits, failures>>
registry == <<skill, version, candidate>>
disk == <<file, tmp, data>>

----------------------------------------------------------------------------
(* Records *)

\* A call creates at most one inode; "base" holds what was published before
\* the calls arrive, "outside" what an outsider wrote.
Inodes == Calls \cup {"base", "outside"}

SkillRow == [status : {"none", "active", "deprecated"}, current_version : Nat]

\* source is None for a version made by a rollback.
VersionRow ==
    [content : Contents, status : {"active", "replaced", "rolled_back"},
     source : Contents \cup {None}, parent : Nat]

\* based_on_version is 0 where the code has None.
CandidateRow ==
    [status : {"none", "validated", "deferred", "rejected", "superseded", "active"},
     based_on_version : Nat]

Steps == {"name", "lineage", "vacant", "versions", "active", "disk", "check", "create",
          "write", "rename", "commit", "remove", "retire"}

\* A call that is "never" does not arrive.  at is the step a cut-off call did
\* not take.  expected is the content whose
\* hash publish_skill_file is given; number the version to be inserted; fd the
\* inode the call writes.  why says what an early return objected to.
CallRecord ==
    [pc : {"never", "idle", "done", "refused", "dead"} \cup Steps, at : Steps \cup {"idle"},
     op : {"approve", "rollback", "deprecate"}, lineage : Lineages \cup {None},
     content : Contents \cup {None}, anchor : Nat, number : Nat, parent : Nat,
     expected : Contents \cup {None}, fd : Inodes \cup {None},
     why : {"none", "gate", "name", "stale", "unowned", "drift", "missing", "conflict",
            "fs", "slot", "target"}]

Fresh ==
    [pc |-> "idle", at |-> "idle", op |-> "approve", lineage |-> None, content |-> None,
     anchor |-> 0, number |-> 0, parent |-> 0, expected |-> None, fd |-> None, why |-> "none"]

TypeOK ==
    /\ skill \in [Lineages -> SkillRow]
    /\ DOMAIN version = Lineages
    /\ \A l \in Lineages :
          /\ DOMAIN version[l] \subseteq Numbers
          /\ \A n \in DOMAIN version[l] : version[l][n] \in VersionRow
    /\ candidate \in [Candidates -> CandidateRow]
    /\ file \in Inodes \cup {None} /\ tmp \in Inodes \cup {None}
    /\ data \in [Inodes -> Contents \cup {Empty, Torn}]
    /\ call \in [Calls -> CallRecord]
    /\ edits \in 0 .. MaxEdits /\ failures \in 0 .. MaxFailures

\* A lineage that was published sequentially, version by version, or nothing;
\* at most one lineage starts with a history, and its file is in place.
Published(l, h) ==
    /\ skill = [m \in Lineages |-> IF m = l /\ h # <<>>
          THEN [status |-> "active", current_version |-> Len(h)]
          ELSE [status |-> "none", current_version |-> 0]]
    /\ version = [m \in Lineages |-> IF m = l
          THEN [n \in 1 .. Len(h) |->
                   [status |-> IF n = Len(h) THEN "active" ELSE "replaced", content |-> h[n],
                    source |-> h[n], parent |-> n - 1]]
          ELSE [n \in {} |-> n]]
    /\ candidate = [k \in Candidates |->
          IF k[1] = l /\ \E n \in 1 .. Len(h) : h[n] = k[2]
          THEN [status |-> "active",
                based_on_version |-> (CHOOSE n \in 1 .. Len(h) : h[n] = k[2]) - 1]
          ELSE [status |-> "none", based_on_version |-> 0]]
    /\ file = IF h = <<>> THEN None ELSE "base"
    /\ data = [i \in Inodes |-> IF i = "base" /\ h # <<>> THEN h[Len(h)] ELSE Empty]

Init ==
    /\ \E l \in Lineages, h \in Histories : Published(l, h)
    /\ tmp = None
    /\ \E arriving \in Arrivals :
          call = [c \in Calls |-> IF c \in arriving THEN Fresh ELSE [Fresh EXCEPT !.pc = "never"]]
    /\ edits = 0 /\ failures = 0

----------------------------------------------------------------------------
(* Reads *)

Exists(l) == skill[l].status # "none"

\* get_active_skill_version: the newest row with status active, 0 if none.
ActiveNumber(l) ==
    LET actives == {n \in DOMAIN version[l] : version[l][n].status = "active"}
    IN  IF actives = {} THEN 0
        ELSE CHOOSE n \in actives : \A m \in actives : m <= n

\* read_skill_file_at; bytes no text hashes to are told apart from every text.
OnDisk == IF file = None THEN None ELSE data[file]

\* A project or task lineage is confined to its workspace.
MayTouch(w, l) == Owner[l] \in {Global, w}

Running(c) == call[c].pc \in Steps

Arriving == {c \in Calls : call[c].pc # "never"}

\* mutation_lock: one per workspace in every server process.
LockFree(p, w) == \A c \in Calls : Running(c) => <<Process[c], Workspace[c]>> # <<p, w>>

Goto(c, pc) == call' = [call EXCEPT ![c].pc = pc]
Refuse(c, why) == call' = [call EXCEPT ![c].pc = "refused", ![c].why = why]

\* An early return with its reason, or the next step.
Check(c, ok, why, pc) == IF ok THEN Goto(c, pc) ELSE Refuse(c, why)

----------------------------------------------------------------------------
(* approve_skill_candidate *)

\* The first closure reads the candidate's row; the gates on status,
\* confidence and workspace look at nothing else.  The content is valid.
Approve(c, k) ==
    /\ call[c].pc = "idle"
    /\ LockFree(Process[c], Workspace[c])
    /\ candidate[k].status # "none"
    /\ LET open == /\ candidate[k].status = "validated"
                   /\ k \notin Weak
                   /\ MayTouch(Workspace[c], k[1])
       IN  call' = [call EXCEPT ![c] =
              [Fresh EXCEPT !.pc = IF open THEN "name" ELSE "refused",
                            !.why = IF open THEN "none" ELSE "gate",
                            !.op = "approve", !.lineage = k[1], !.content = k[2],
                            !.anchor = candidate[k].based_on_version]]
    /\ UNCHANGED <<registry, disk, edits, failures>>

\* get_skill_by_name returns any one row of the name.
ReadName(c) ==
    /\ call[c].pc = "name"
    /\ \/ /\ \A l \in Lineages : ~Exists(l)
          /\ Goto(c, "lineage")
       \/ \E l \in Lineages :
             /\ Exists(l)
             /\ Check(c, l = call[c].lineage /\ skill[l].status # "deprecated", "name", "lineage")
    /\ UNCHANGED <<registry, disk, edits, failures>>

\* Mutant: the anchor is not compared.
ReadLineage_unanchored(c) ==
    /\ call[c].pc = "lineage"
    /\ LET row == skill[call[c].lineage]
       IN  CASE row.status = "none" ->
                  call' = [call EXCEPT ![c].pc = "vacant", ![c].number = 1]
             [] row.status = "deprecated" -> Refuse(c, "name")
             [] row.status = "active" ->
                  call' = [call EXCEPT ![c].pc = "active",
                                       ![c].number = row.current_version + 1]
    /\ UNCHANGED <<registry, disk, edits, failures>>

\* get_skill, and the optimistic check of the candidate's anchor against it.
ReadLineage(c) ==
    /\ call[c].pc = "lineage"
    /\ LET row == skill[call[c].lineage]
           next == row.current_version + 1
       IN  CASE ~Exists(call[c].lineage) ->
                  call' = [call EXCEPT ![c].pc = "vacant", ![c].number = 1]
             [] row.status = "deprecated" -> Refuse(c, "name")
             [] row.status = "active" /\ call[c].anchor \notin {0, row.current_version} ->
                  Refuse(c, "stale")
             [] OTHER -> call' = [call EXCEPT ![c].pc = "active", ![c].number = next]
    /\ UNCHANGED <<registry, disk, edits, failures>>

\* A first publication wants no file under the name.
ReadVacant(c) ==
    /\ call[c].pc = "vacant"
    /\ Check(c, file = None, "unowned", "check")
    /\ UNCHANGED <<registry, disk, edits, failures>>

----------------------------------------------------------------------------
(* rollback_skill *)

\* The target version is a row of the first version list; its content is
\* what the call will publish.
Rollback(c, l) ==
    /\ call[c].pc = "idle"
    /\ LockFree(Process[c], Workspace[c])
    /\ Exists(l)
    /\ LET open == skill[l].status = "active" /\ MayTouch(Workspace[c], l)
       IN  call' = [call EXCEPT ![c] =
              [Fresh EXCEPT !.pc = IF open THEN "versions" ELSE "refused",
                            !.why = IF open THEN "none" ELSE "gate",
                            !.op = "rollback", !.lineage = l]]
    /\ UNCHANGED <<registry, disk, edits, failures>>

ReadTarget(c) ==
    /\ call[c].pc = "versions"
    /\ \/ \E t \in DOMAIN version[call[c].lineage] :
             call' = [call EXCEPT ![c].pc = "active", ![c].parent = t,
                                  ![c].content = version[call[c].lineage][t].content]
       \/ Refuse(c, "target")
    /\ UNCHANGED <<registry, disk, edits, failures>>

\* get_active_skill_version, in approve and in rollback.  Approve keeps the
\* number it derived from the skill row; rollback counts from the active
\* version and refuses a target that is not older or not different.
ReadActive(c) ==
    /\ call[c].pc = "active"
    /\ LET l == call[c].lineage
           a == ActiveNumber(l)
           live == version[l][a].content
       IN  CASE call[c].op = "approve" /\ a = 0 -> Goto(c, "check")
             [] call[c].op = "approve" /\ a # 0 ->
                  call' = [call EXCEPT ![c].pc = "disk", ![c].parent = a, ![c].expected = live]
             [] call[c].op = "rollback" /\ a = 0 -> Refuse(c, "target")
             [] call[c].op = "rollback" /\ a # 0 ->
                  IF call[c].parent >= a \/ call[c].content = live THEN Refuse(c, "target")
                  ELSE call' = [call EXCEPT ![c].pc = "disk", ![c].number = a + 1,
                                            ![c].expected = live]
    /\ UNCHANGED <<registry, disk, edits, failures>>

\* The file must be there and be the recorded active version.
ReadDisk(c) ==
    /\ call[c].pc = "disk"
    /\ IF file = None THEN Refuse(c, "missing")
       ELSE Check(c, OnDisk = call[c].expected, "drift", "check")
    /\ UNCHANGED <<registry, disk, edits, failures>>

----------------------------------------------------------------------------
(* publish_skill_file *)

\* The second look at the file: no file at all is accepted, whatever was
\* expected.
PublishCheck(c) ==
    /\ call[c].pc = "check"
    /\ Check(c, file = None \/ (call[c].expected # None /\ OnDisk = call[c].expected),
             "conflict", "create")
    /\ UNCHANGED <<registry, disk, edits, failures>>

\* File::create truncates the temporary file another publication left or is
\* still writing: both then write one inode.
PublishCreate(c) ==
    /\ call[c].pc = "create"
    /\ LET i == IF tmp = None THEN c ELSE tmp
       IN  /\ tmp' = i
           /\ data' = [data EXCEPT ![i] = Empty]
           /\ call' = [call EXCEPT ![c].pc = "write", ![c].fd = i]
    /\ UNCHANGED <<registry, file, edits, failures>>

\* Writing at offset 0 over another writer's longer text leaves its tail.
PublishWrite(c) ==
    /\ call[c].pc = "write"
    /\ \E d \in {call[c].content, Torn} :
          /\ d = Torn => data[call[c].fd] \notin {Empty, call[c].content}
          /\ data' = [data EXCEPT ![call[c].fd] = d]
    /\ Goto(c, "rename")
    /\ UNCHANGED <<registry, file, tmp, edits, failures>>

PublishRename(c) ==
    /\ call[c].pc = "rename"
    /\ \/ /\ tmp = None
          /\ Refuse(c, "fs")
          /\ UNCHANGED <<file, tmp>>
       \/ /\ tmp # None
          /\ file' = tmp
          /\ tmp' = None
          /\ Goto(c, "commit")
    /\ UNCHANGED <<registry, data, edits, failures>>

----------------------------------------------------------------------------
(* The closing transaction of approve and of rollback *)

SlotTaken(c) == call[c].number \in DOMAIN version[call[c].lineage]

\* The version rows once the active one, if any, gives way to the new one.
Appended(c, retired) ==
    LET old == version[call[c].lineage]
        row == [status |-> "active", content |-> call[c].content,
                source |-> IF call[c].op = "approve" THEN call[c].content ELSE None,
                parent |-> call[c].parent]
    IN  [n \in DOMAIN old \cup {call[c].number} |->
            IF n = call[c].number THEN row
            ELSE IF old[n].status = "active" /\ call[c].parent # 0
                 THEN [old[n] EXCEPT !.status = retired]
                 ELSE old[n]]

\* The upsert writes the status active over whatever the row says now, and
\* the candidate becomes active from whatever it is now.
CommitApproval(c) ==
    /\ call[c].op = "approve" /\ ~SlotTaken(c)
    /\ version' = [version EXCEPT ![call[c].lineage] = Appended(c, "replaced")]
    /\ skill' = [skill EXCEPT ![call[c].lineage] =
                    [status |-> "active", current_version |-> call[c].number]]
    /\ candidate' = [candidate EXCEPT ![<<call[c].lineage, call[c].content>>].status = "active"]
    /\ Goto(c, "done")

\* Mutant: the skill row keeps pointing at the version that was rolled back.
CommitRollback_row_kept(c) ==
    /\ call[c].op = "rollback" /\ ~SlotTaken(c)
    /\ version' = [version EXCEPT ![call[c].lineage] = Appended(c, "rolled_back")]
    /\ Goto(c, "done")
    /\ UNCHANGED <<skill, candidate>>

\* Rollback leaves the skill's status and the candidates alone.
CommitRollback(c) ==
    /\ call[c].op = "rollback" /\ ~SlotTaken(c)
    /\ version' = [version EXCEPT ![call[c].lineage] = Appended(c, "rolled_back")]
    /\ skill' = [skill EXCEPT ![call[c].lineage].current_version = call[c].number]
    /\ Goto(c, "done")
    /\ UNCHANGED candidate

Commit(c) ==
    /\ call[c].pc = "commit"
    /\ \/ CommitApproval(c)
       \/ CommitRollback(c)
       \/ SlotTaken(c) /\ Refuse(c, "slot") /\ UNCHANGED registry
    /\ UNCHANGED <<disk, edits, failures>>

----------------------------------------------------------------------------
(* deprecate_skill: the file goes first, then the row *)

Deprecate(c, l) ==
    /\ call[c].pc = "idle"
    /\ LockFree(Process[c], Workspace[c])
    /\ Exists(l)
    /\ LET open == skill[l].status = "active" /\ MayTouch(Workspace[c], l)
       IN  call' = [call EXCEPT ![c] =
              [Fresh EXCEPT !.pc = IF open THEN "remove" ELSE "refused",
                            !.why = IF open THEN "none" ELSE "gate",
                            !.op = "deprecate", !.lineage = l]]
    /\ UNCHANGED <<registry, disk, edits, failures>>

\* Mutant: the file stays.
RemoveFile_kept(c) ==
    /\ call[c].pc = "remove"
    /\ Goto(c, "retire")
    /\ UNCHANGED <<registry, disk, edits, failures>>

\* remove_file fails on a file that is not there.
RemoveFile(c) ==
    /\ call[c].pc = "remove"
    /\ \/ file = None /\ Refuse(c, "missing") /\ UNCHANGED file
       \/ file # None /\ file' = None /\ Goto(c, "retire")
    /\ UNCHANGED <<registry, tmp, data, edits, failures>>

RetireSkill(c) ==
    /\ call[c].pc = "retire"
    /\ skill' = [skill EXCEPT ![call[c].lineage].status = "deprecated"]
    /\ Goto(c, "done")
    /\ UNCHANGED <<version, candidate, disk, edits, failures>>

----------------------------------------------------------------------------
(* The review of candidates, by a handler whose workspace lock is free *)

Reviewer(l) == \E c \in Arriving : MayTouch(Workspace[c], l) /\ LockFree(Process[c], Workspace[c])

\* create_skill_candidate_from_learning and the evaluation pass: a new row, or
\* a deferred one proposed again, whose anchor moves when the lineage is active.
Propose(k) ==
    /\ Reviewer(k[1])
    /\ candidate[k].status \in {"none", "deferred"}
    /\ candidate' = [candidate EXCEPT ![k] =
          [status |-> "validated",
           based_on_version |-> IF skill[k[1]].status = "active"
                                THEN skill[k[1]].current_version
                                ELSE @.based_on_version]]
    /\ UNCHANGED <<skill, version, disk, call, edits, failures>>

\* transition_skill_candidate on a reviewer's verdict.
Withdraw(k) ==
    /\ Reviewer(k[1])
    /\ candidate[k].status = "validated"
    /\ \E s \in {"rejected", "deferred", "superseded"} :
          candidate' = [candidate EXCEPT ![k].status = s]
    /\ UNCHANGED <<skill, version, disk, call, edits, failures>>

----------------------------------------------------------------------------
(* The world outside *)

\* A person edits, replaces or deletes the published file.
Outsider ==
    /\ edits < MaxEdits
    /\ edits' = edits + 1
    /\ \/ file # None /\ file' = None /\ UNCHANGED data
       \/ \E d \in Contents : file' = "outside" /\ data' = [data EXCEPT !["outside"] = d]
    /\ UNCHANGED <<registry, tmp, call, failures>>

\* The process dies, or a database call fails, before the call's next step.
CutOff(c) ==
    /\ Running(c)
    /\ failures < MaxFailures
    /\ failures' = failures + 1
    /\ call' = [call EXCEPT ![c].pc = "dead", ![c].at = call[c].pc]
    /\ UNCHANGED <<registry, disk, edits>>

----------------------------------------------------------------------------
Next ==
    \/ \E c \in Calls :
          \/ \E k \in Candidates : Approve(c, k)
          \/ \E l \in Lineages : Rollback(c, l) \/ Deprecate(c, l)
          \/ ReadName(c) \/ ReadLineage(c) \/ ReadVacant(c)
          \/ ReadTarget(c) \/ ReadActive(c) \/ ReadDisk(c)
          \/ PublishCheck(c) \/ PublishCreate(c) \/ PublishWrite(c) \/ PublishRename(c)
          \/ Commit(c) \/ RemoveFile(c) \/ RetireSkill(c)
          \/ CutOff(c)
    \/ \E k \in Candidates : Propose(k) \/ Withdraw(k)
    \/ Outsider

Spec == Init /\ [][Next]_vars

----------------------------------------------------------------------------
(* Properties of every interleaving, cut-off and outside edit *)

(***************************************************************************)
(* The registry of a lineage is one gapless chain of versions, the skill   *)
(* row points at its end, and the end is the only active version: neither  *)
(* two publications that read the same current version, nor a rollback     *)
(* that counts from another row than approve does, nor a failed call       *)
(* breaks this (the slot check inside the closing transactions).           *)
(***************************************************************************)
LineageConsistent ==
    \A l \in Lineages :
        LET n == skill[l].current_version
        IN  /\ DOMAIN version[l] = 1 .. n
            /\ Exists(l) <=> n > 0
            /\ \A i \in 1 .. n : version[l][i].status = "active" <=> i = n

OneLock == \A c, d \in Arriving : <<Process[c], Workspace[c]>> = <<Process[d], Workspace[d]>>

(***************************************************************************)
(* A candidate proposed against version n of its lineage is published as   *)
(* version n + 1 or not at all, so no other author's version is silently   *)
(* overtaken.  Whoever publishes, rolls back or proposes again between a   *)
(* handler's reads, the version it reports is there, and follows the       *)
(* anchor the handler read; the anchor the row has by now is followed too  *)
(* when handlers take turns on one mutation_lock.                          *)
(***************************************************************************)
AnchorRespected ==
    /\ \A c \in Calls :
          call[c].pc = "done" /\ call[c].op = "approve" =>
              /\ call[c].number \in DOMAIN version[call[c].lineage]
              /\ version[call[c].lineage][call[c].number].source = call[c].content
              /\ call[c].anchor \in {0, call[c].number - 1}
    /\ OneLock =>
          \A l \in Lineages : \A n \in DOMAIN version[l] :
              LET k == <<l, version[l][n].source>>
              IN  (version[l][n].source # None /\ candidate[k].based_on_version > 0)
                     => n = candidate[k].based_on_version + 1

----------------------------------------------------------------------------
(* Properties of handlers that take turns on one mutation_lock *)

Live == {l \in Lineages : skill[l].status = "active"}

\* What OpenCode should find: the active version of the active lineage.
Registered ==
    IF Live = {} THEN {None} ELSE {version[l][skill[l].current_version].content : l \in Live}

(***************************************************************************)
(* The file and the registry agree: between the effects of a handler on    *)
(* the one and on the other they may not, but a handler that returns, with *)
(* success or with a refusal, leaves the file equal to the active version, *)
(* and absent when no lineage is active, unless an outsider changed the    *)
(* file or a call was cut off exactly between its two effects; and the one *)
(* file never has two active lineages, although a handler looks the name   *)
(* up long before the transaction that claims it.  Handlers of two locks   *)
(* break this (see the README).                                            *)
(***************************************************************************)
LiveMatchesRegistry ==
    \/ ~OneLock
    \/ edits > 0
    \/ \E c \in Calls : {call[c].pc, call[c].at} \cap {"commit", "retire"} # {}
    \/ Cardinality(Live) <= 1 /\ OnDisk \in Registered

----------------------------------------------------------------------------
(***************************************************************************)
(* "The SKILL.md path is always fully-written or absent": whoever else is  *)
(* publishing, and wherever a call dies, at most the temporary file is     *)
(* partial.                                                                *)
(***************************************************************************)
NeverPartial == OnDisk \notin {Empty, Torn}
=============================================================================
