--------------------------- MODULE ContextImport ---------------------------
(***************************************************************************)
(* The import of a mirror from another device                              *)
(* (context-runtime/src/portability.rs) beside the tool calls of Sessions  *)
(* and Records, all over one state.db.                                     *)
(*                                                                         *)
(* The import is a process of its own.  It reads the local rows and plans; *)
(* then each row is written by a closure of its own, in dependency order:  *)
(* sessions, events, records.  It may fail or be killed after any of them, *)
(* and the operator runs the same command again.  Integrity, redaction and *)
(* validation come before the first write and end the import without one;  *)
(* they, the dry run and the skills (SkillPublication) are left out.       *)
(***************************************************************************)
EXTENDS Records

CONSTANTS
    BundleEvents,   \* Seq of [what, dedup_key, session_id]: ids of the other device are places in it
    BundleStatuses, \* the statuses the bundle's session may have
    BundleRecords,  \* Seq of [id, status, authority, updated_at, evidence, supersedes]
    LocalCopies,    \* the rows that may be here under the id of a bundle record,
                    \* whose place is their version
    MaxFailures,    \* bound: imports that are cut off
    Beside          \* bound: the calls that may run beside an import

ASSUME ImportAssumption == MaxFailures \in Nat /\ Beside \subseteq Calls

VARIABLE
    imp  \* the import: mapped says whether the bundle's workspace is mapped to
         \* Here, status is that of its session; local are the rows read by the
         \* plan, event_map the ids given to its events, i the place in the table
         \* at hand

vars == <<clock, sessions, events, call, records, written, imp>>

storeVars == <<clock, sessions, events, call, records, written>>

\* No import at work.
NoImport(mapped, status) ==
    [pc |-> "idle", mapped |-> mapped, status |-> status, i |-> 1, inserted |-> FALSE,
     failures |-> 0, local |-> << >>, event_map |-> [n \in DOMAIN BundleEvents |-> 0]]

\* This run is over.
Over(pc, failures) ==
    [NoImport(imp.mapped, imp.status) EXCEPT !.pc = pc, !.failures = failures]

----------------------------------------------------------------------------
(* Planning *)

BundleSession == 0

\* What the other device has recorded of its own, and the ending of the session
\* it exports, whose key is the same on every device.
OwnEvent ==
    [what : {"observed"} \X Nat, dedup_key : {NoKey} \cup ({"own"} \X Nat),
     session_id : {NoSession, BundleSession}]

SessionEnding ==
    [what |-> <<"ended", BundleSession>>, dedup_key |-> <<"session-ended", BundleSession>>,
     session_id |-> BundleSession]

BundleRecord ==
    [id : Nat \X Nat, status : Statuses, authority : Authorities, updated_at : Nat,
     evidence : {0} \cup DOMAIN BundleEvents, supersedes : Nat \X Nat]

\* A row of this device cites the row its history begins with, or nothing.
LocalCopy ==
    [by : {"local"}, status : Statuses, updated_at : Nat, authority : Authorities,
     about : {<<"local", 0>>, <<"user", 0>>}, evidence : {0, 1}, supersedes : {0},
     version : 1 .. Len(BundleRecords)]

\* The bundle is of another device and whole: nothing happened twice there, no
\* two keys are the same, and what a record cites is among its events.
ASSUME BundleAssumption ==
    /\ NoKey \notin ({"own"} \X Nat) \cup ({"import"} \X ({"observed"} \X Nat) \X {Here, There})
    /\ BundleEvents \in Seq(OwnEvent \cup {SessionEnding})
    /\ \A m, n \in DOMAIN BundleEvents : m # n =>
          /\ BundleEvents[m].what # BundleEvents[n].what
          /\ BundleEvents[m].dedup_key = BundleEvents[n].dedup_key => BundleEvents[m].dedup_key = NoKey
    /\ BundleStatuses \subseteq {"active", "completed", "abandoned"}
    /\ BundleRecords \in Seq(BundleRecord)
    /\ LocalCopies \subseteq {r \in LocalCopy : r.evidence = 1 => r.about = <<"local", 0>>}

\* The workspace a bundled row is stored under.
mapped_workspace == IF imp.mapped THEN Here ELSE There

\* A row that is here: older or equal rows of the bundle, and weaker ones, are
\* not applied.
decide_merge(local, r) ==
    IF r.updated_at < local.updated_at THEN "skip_older"
    ELSE IF r.updated_at = local.updated_at
    THEN IF local.by = "bundle" /\ local.status = r.status THEN "duplicate" ELSE "conflict"
    ELSE IF authority_rank(r.authority) < authority_rank(local.authority) THEN "conflict"
    ELSE "update"

\* The action planned for a bundle record: an unmapped one is skipped.
RecordAction(r) ==
    IF ~imp.mapped THEN "skip"
    ELSE IF r.id \notin DOMAIN imp.local THEN "insert"
    ELSE decide_merge(imp.local[r.id], r)

build_plan ==
    LET ids == {BundleRecords[n].id : n \in DOMAIN BundleRecords}
    IN  /\ imp.pc = "idle"
        /\ imp' = [imp EXCEPT !.pc = "session", !.i = 1,
                              !.local = [d \in ids \cap DOMAIN records |-> records[d]]]
        /\ UNCHANGED storeVars

----------------------------------------------------------------------------
(* Applying *)

\* A session that is here already is left as it is; the other one starts with
\* no events and the status it has in the bundle: an active one is what the next
\* capture resumes, unless one is active that was opened here (all of these count
\* as newer).
import_session ==
    /\ imp.pc = "session"
    /\ IF BundleSession \in DOMAIN sessions THEN UNCHANGED sessions
       ELSE sessions' = [s \in DOMAIN sessions \cup {BundleSession} |->
                           IF s = BundleSession
                           THEN [ws |-> mapped_workspace, status |-> imp.status, event_count |-> 0]
                           ELSE sessions[s]]
    /\ imp' = [imp EXCEPT !.pc = "event", !.inserted = BundleSession \notin DOMAIN sessions]
    /\ UNCHANGED <<clock, events, call, recordVars>>

\* The key of the row, or one made of its contents and workspace.
ImportKey(e) == IF e.dedup_key = NoKey THEN <<"import", e.what, mapped_workspace>> ELSE e.dedup_key

\* Mutant: a row that is here already ends the import.
import_event_refuses ==
    LET e == BundleEvents[imp.i]
        key == ImportKey(e)
    IN  /\ imp.pc = "event"
        /\ imp.i <= Len(BundleEvents)
        /\ record_event_in_tx([what |-> e.what, dedup_key |-> key, ws |-> mapped_workspace,
                               session_id |-> IF e.session_id \in DOMAIN sessions THEN e.session_id
                                              ELSE NoSession])
        /\ imp' = IF Seen(key) THEN Over("idle", imp.failures)
                  ELSE [imp EXCEPT !.i = @ + 1, !.event_map[imp.i] = EventId(key)]
        /\ UNCHANGED <<clock, call, recordVars>>

\* One event: the id it has here, new or not, is remembered for the citations.
import_event ==
    LET e == BundleEvents[imp.i]
        key == ImportKey(e)
    IN  /\ imp.pc = "event"
        /\ imp.i <= Len(BundleEvents)
        /\ record_event_in_tx([what |-> e.what, dedup_key |-> key, ws |-> mapped_workspace,
                               session_id |-> IF e.session_id \in DOMAIN sessions THEN e.session_id
                                              ELSE NoSession])
        /\ imp' = [imp EXCEPT !.i = @ + 1, !.event_map[imp.i] = EventId(key)]
        /\ UNCHANGED <<clock, call, recordVars>>

\* Mutant: only what the bundle brought is counted.
recount_sessions_of_bundle ==
    /\ imp.pc = "event"
    /\ imp.i > Len(BundleEvents)
    /\ \/ UNCHANGED sessions
       \/ /\ imp.inserted
          /\ sessions' = [sessions EXCEPT ![BundleSession].event_count =
                             Cardinality({n \in DOMAIN BundleEvents :
                                             BundleEvents[n].session_id = BundleSession})]
    /\ imp' = [imp EXCEPT !.pc = "record", !.i = 1]
    /\ UNCHANGED <<clock, events, call, recordVars>>

\* The counts of the sessions this run added are made anew; its failure is
\* ignored.
recount_sessions ==
    /\ imp.pc = "event"
    /\ imp.i > Len(BundleEvents)
    /\ \/ UNCHANGED sessions
       \/ /\ imp.inserted
          /\ sessions' = [sessions EXCEPT ![BundleSession].event_count =
                             Cardinality(Linked(events, BundleSession))]
    /\ imp' = [imp EXCEPT !.pc = "record", !.i = 1]
    /\ UNCHANGED <<clock, events, call, recordVars>>

\* Mutant: the citation keeps the other device's id.
LocalEvidence_verbatim(r) == r.evidence

\* The row here of the event a bundle record cites (0: it cites none); an id
\* that is not of the bundle is kept.
LocalEvidence(r) == IF r.evidence \in DOMAIN imp.event_map THEN imp.event_map[r.evidence] ELSE r.evidence

\* The cited row exists and belongs to the workspace of the record.
check_evidence(e) == e = 0 \/ (e \in DOMAIN events /\ events[e].ws = Here)

\* The version under an id.
VersionOf(id) == IF id \in DOMAIN records THEN records[id].version ELSE 0

\* One record: an inserted or updated one replaces whatever has its id now,
\* with the status and the predecessor it has in the bundle; evidence that
\* cannot be cited ends the import.
import_record ==
    LET r == BundleRecords[imp.i]
        e == LocalEvidence(r)
    IN  /\ imp.pc = "record"
        /\ imp.i <= Len(BundleRecords)
        /\ IF RecordAction(r) \notin {"insert", "update"}
           THEN imp' = [imp EXCEPT !.i = @ + 1] /\ UNCHANGED recordVars
           ELSE IF check_evidence(e)
           THEN /\ records' = Upserted(r.id, Row("bundle", r.status, r.updated_at, r.authority,
                                  IF r.evidence = 0 THEN <<"user", 0>> ELSE BundleEvents[r.evidence].what,
                                  e, VersionOf(r.supersedes), written + 1))
                /\ written' = written + 1
                /\ imp' = [imp EXCEPT !.i = @ + 1]
           ELSE imp' = Over("idle", imp.failures) /\ UNCHANGED recordVars
        /\ UNCHANGED <<clock, historyVars, call>>

ImportDone ==
    /\ imp.pc = "record"
    /\ imp.i > Len(BundleRecords)
    /\ imp' = Over("done", 0)
    /\ UNCHANGED storeVars

\* A statement fails or the process is killed: what is written stays.
ImportCutOff ==
    /\ imp.pc \notin {"none", "idle", "done"}
    /\ imp.failures < MaxFailures
    /\ imp' = Over("idle", imp.failures + 1)
    /\ UNCHANGED storeVars

----------------------------------------------------------------------------
(* Composition *)

\* The history begins with a row of this device, so that ids of the two
\* devices differ in meaning.  The import is run beside few calls, or not at
\* all.
Init ==
    /\ clock = 1
    /\ events = <<[what |-> <<"local", 0>>, dedup_key |-> NoKey, session_id |-> NoSession, ws |-> Here]>>
    /\ \E here \in SUBSET {BundleSession} :
          sessions = [s \in here |-> [ws |-> Here, status |-> "active", event_count |-> 0]]
    /\ written = Len(BundleRecords)
    /\ \E here \in SUBSET {BundleRecords[n].id : n \in DOMAIN BundleRecords} :
          records \in [here -> LocalCopies]
    /\ \A n \in DOMAIN BundleRecords :
          BundleRecords[n].id \in DOMAIN records => records[BundleRecords[n].id].version = n
    /\ \/ /\ \E mapped \in BOOLEAN, status \in BundleStatuses : imp = NoImport(mapped, status)
          /\ call = [c \in Calls |-> [NoCall EXCEPT !.pc = IF c \in Beside THEN "idle" ELSE "done"]]
       \/ /\ imp = [NoImport(TRUE, "completed") EXCEPT !.pc = "none"]
          /\ call = [c \in Calls |-> NoCall]

ImportStep ==
    \/ build_plan
    \/ import_session
    \/ import_event
    \/ recount_sessions
    \/ import_record
    \/ ImportDone

CallStep(c) ==
    \/ SessionStep(c) /\ UNCHANGED <<recordVars, imp>>
    \/ RecordStep(c) /\ UNCHANGED imp

Next ==
    \/ \E c \in Calls : CallStep(c)
    \/ Tick /\ UNCHANGED <<recordVars, imp>>
    \/ ImportStep
    \/ ImportCutOff

\* The import goes on while its process lives, and is run again when it was cut
\* off.
Fairness == WF_vars(ImportStep)

Spec == Init /\ [][Next]_vars /\ Fairness

----------------------------------------------------------------------------
(* Properties *)

\* A namespace forks only under calls that overlap, or beyond the limit of the
\* search: when a fresh record is put by a call whose search had seen every
\* active one, every other active record was written after it had looked
\* (find_active_in_namespace and put_record are two statements).
ForkNeedsOverlap ==
    [][\A c \in Calls : put_record(c) /\ call[c].status = "active" /\ ~call[c].missed =>
          \A i \in ActiveRecords \ {call[c].id} : records[i].version > call[c].since]_vars

\* A record cites the row of the happening it was drawn from: ids of the other
\* device never leak in, whichever of its events were here already, and a
\* call's own observation keeps its id while others write.
CitationsFaithful ==
    \A d \in DOMAIN records : records[d].evidence # 0 =>
        /\ records[d].evidence \in DOMAIN events
        /\ events[records[d].evidence].what = records[d].about

\* Run again after every failure, the import gets through, and then the
\* bundle's history is here and stays.
BundleStored ==
    /\ BundleSession \in DOMAIN sessions
    /\ \A n \in DOMAIN BundleEvents : \E i \in DOMAIN events : events[i].what = BundleEvents[n].what

ImportConverges == <>[](imp.pc = "none" \/ (imp.pc = "done" /\ BundleStored))
=============================================================================
