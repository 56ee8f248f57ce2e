------------------------------ MODULE Learning ------------------------------
(***************************************************************************)
(* Evidence-backed learning (context-runtime/src/learning.rs) and the      *)
(* context records it leaves (context-runtime/src/store.rs).               *)
(*                                                                         *)
(* One hypothesis is followed: its candidate id is derived from scope,     *)
(* workspace, kind and topic, so it has one row of learning_candidates     *)
(* and one namespace of records.  History only grows and a row cites the   *)
(* events that were there, so cited events are counts.  The confidence     *)
(* also depends on how recent and how spread the evidence is; given the    *)
(* counts it may or may not reach the bar.                                 *)
(*                                                                         *)
(* One step is one database closure.  Handlers of one workspace and        *)
(* process take turns on mutation_lock; a global hypothesis is shared by   *)
(* all of them.  Ids of records end in the second they were made in.       *)
(***************************************************************************)
EXTENDS Integers, Sequences, FiniteSets

CONSTANTS
    Workers,      \* learn handlers that may run at one time
    Workspaces,   \* the workspaces and processes they serve
    MinSupport,   \* MIN_SUPPORTING_EVIDENCE
    MaxSupport, MaxContra,           \* bounds: events of the history
    MaxRecords, MaxNow,              \* bounds: records, seconds
    MaxMissed                        \* bound: searches that miss

ASSUME BoundsAssumption ==
    /\ MinSupport \in Nat \ {0}
    /\ {MaxSupport, MaxContra, MaxRecords, MaxNow, MaxMissed} \subseteq Nat

VARIABLES
    support, contra,  \* events for and against the hypothesis
    cand,     \* the row of learning_candidates
    records,  \* Seq(row of context_records) of its namespace
    call,     \* [Workers -> what the handler is doing]
    home,     \* [Workers -> Workspaces], whose mutation_lock each one takes
    now,
    missed,   \* searches that left out the active inferences of the namespace
    cut       \* has a handler been cut off?

vars == <<support, contra, cand, records, call, home, now, missed, cut>>

----------------------------------------------------------------------------
(* Rows *)

Statuses == {"none", "candidate", "evaluating", "accepted", "deferred",
             "rejected", "superseded", "expired"}

Terminal == {"rejected", "superseded", "expired"}
Undecided == {"candidate", "deferred", "evaluating"}

\* inference is the record's place in records, 0 for NULL; old means past
\* expires_at.
CandidateRow ==
    [status : Statuses, sup : Nat, con : Nat, inference : 0 .. MaxRecords, old : BOOLEAN]

RecordRow ==
    [authority : {"AI_INFERRED", "USER_CONFIRMED"},
     status : {"active", "superseded", "rejected", "removed"},
     evidence : Nat, supersedes : 0 .. MaxRecords, at : 0 .. MaxNow]

NoRow == [status |-> "none", sup |-> 0, con |-> 0, inference |-> 0, old |-> FALSE]

\* What a handler keeps between closures: the operation, the row it read, the
\* events it read, the verdict, the record found or written, its `now`.
Idle == [op |-> "idle", pc |-> "idle", row |-> NoRow, sup |-> 0, con |-> 0,
         verdict |-> "none", record |-> 0, at |-> 0]

Operations == {"idle", "run", "propose", "evaluate", "confirm", "reject"}

Steps == {"idle", "sweep", "detect", "upsert", "read", "begin", "lookup", "persist",
          "retire", "mark"}

CallRecord == [op : Operations, pc : Steps, row : CandidateRow, sup : Nat, con : Nat,
               verdict : Statuses, record : 0 .. MaxRecords, at : 0 .. MaxNow]

\* Every row and every handler's locals have the shape the tables give them.
TypeOK ==
    /\ support \in 0 .. MaxSupport /\ contra \in 0 .. MaxContra
    /\ cand \in CandidateRow
    /\ records \in Seq(RecordRow) /\ Len(records) <= MaxRecords
    /\ call \in [Workers -> CallRecord]
    /\ home \in [Workers -> Workspaces]
    /\ now \in 0 .. MaxNow /\ missed \in 0 .. MaxMissed /\ cut \in BOOLEAN

Init ==
    /\ support = 0 /\ contra = 0
    /\ cand = NoRow
    /\ records = <<>>
    /\ call = [w \in Workers |-> Idle]
    /\ home \in [Workers -> Workspaces]
    /\ now = 0 /\ missed = 0 /\ cut = FALSE

----------------------------------------------------------------------------
(* Verdicts and records *)

\* The thresholds of evaluate_candidate on the voiced evidence.  Where the
\* counts allow acceptance, a narrow global basis or a low confidence defers.
Verdicts(s, c) ==
    CASE s < MinSupport -> {"deferred"}
      [] s >= MinSupport /\ c > s -> {"rejected", "deferred"}
      [] s >= MinSupport /\ c <= s /\ c * 2 >= s -> {"deferred"}
      [] s >= MinSupport /\ c * 2 < s -> {"accepted", "deferred"}

\* voice_evidence: cited events that resolve.
Voiced(cited, have) == IF cited <= have THEN cited ELSE have

Active(r) == r \in DOMAIN records /\ records[r].status = "active"
Inferences == {r \in DOMAIN records : Active(r) /\ records[r].authority = "AI_INFERRED"}

NewRecord(authority, evidence, old, at) ==
    [status |-> "active", authority |-> authority, evidence |-> evidence,
     supersedes |-> old, at |-> at]

\* Records with the id `ctx::learn::<candidate>::<at>`.
SameId(at) ==
    {r \in DOMAIN records : /\ records[r].authority = "AI_INFERRED"
                            /\ records[r].at = at /\ records[r].status # "removed"}

\* reject_record: only an active record changes.
Rejected(r) == IF Active(r) THEN [records EXCEPT ![r].status = "rejected"] ELSE records

\* supersede_impl: one transaction, old row and new row.
Replaced(old, new) == Append([records EXCEPT ![old].status = "superseded"], new)

----------------------------------------------------------------------------
(* Handlers *)

Running == {w \in Workers : call[w].pc # "idle"}
LockFree(w) == \A v \in Running : home[v] # home[w]
OneLock == \A v, w \in Workers : home[v] = home[w]

Goto(w, pc) == call' = [call EXCEPT ![w].pc = pc]
Return(w) == call' = [call EXCEPT ![w] = Idle]

Start(w, op, pc) ==
    /\ LockFree(w)
    /\ call' = [call EXCEPT ![w] = [Idle EXCEPT !.op = op, !.pc = pc, !.at = now]]
    /\ UNCHANGED <<support, contra, cand, records, home, now, missed, cut>>

\* learn run, propose, evaluate, confirm and reject.
Run(w) == Start(w, "run", "sweep")
Propose(w) == Start(w, "propose", "detect")
Evaluate(w) == Start(w, "evaluate", "read")
Confirm(w) == Start(w, "confirm", "read")
Reject(w) == Start(w, "reject", "read")

\* expire_learning_sweep.
Sweep(w) ==
    /\ call[w].pc = "sweep"
    /\ cand' = IF cand.status \in Undecided /\ cand.old
               THEN [cand EXCEPT !.status = "expired"] ELSE cand
    /\ Goto(w, "detect")
    /\ UNCHANGED <<support, contra, records, home, now, missed, cut>>

\* propose_candidates reads the history once.  The topic needs its minimum of
\* support, and may lose to another topic of its group.
Detect(w) ==
    /\ call[w].pc = "detect"
    /\ \/ Return(w)
       \/ /\ support >= MinSupport
          /\ call' = [call EXCEPT ![w].pc = "upsert", ![w].sup = support, ![w].con = contra]
    /\ UNCHANGED <<support, contra, cand, records, home, now, missed, cut>>

\* Mutant: re-detection starts every row afresh, whatever its verdict.
Upserted_afresh(s, c) ==
    [old |-> FALSE, status |-> IF cand.status = "accepted" THEN "accepted" ELSE "candidate",
     sup |-> s, con |-> c,
     inference |-> IF cand.status = "accepted" THEN cand.inference ELSE 0]

\* upsert_candidate: an accepted row keeps verdict and backlink, an undecided
\* one starts afresh, a terminal one stays as it is (INSERT OR IGNORE).
Upserted(s, c) ==
    CASE cand.status = "accepted" -> [cand EXCEPT !.sup = s, !.con = c, !.old = FALSE]
      [] cand.status \in Undecided \cup {"none"} ->
            [old |-> FALSE, status |-> "candidate", sup |-> s, con |-> c, inference |-> 0]
      [] OTHER -> cand

Upsert(w) ==
    /\ call[w].pc = "upsert"
    /\ cand' = Upserted(call[w].sup, call[w].con)
    /\ IF call[w].op = "run" THEN Goto(w, "read") ELSE Return(w)
    /\ UNCHANGED <<support, contra, records, home, now, missed, cut>>

\* get_candidate, and what each operation refuses.
ReadCandidate(w) ==
    /\ call[w].pc = "read"
    /\ LET refused == CASE call[w].op \in {"run", "evaluate"} ->
                               cand.status \in Terminal \cup {"none"}
                        [] call[w].op = "confirm" ->
                               cand.status # "accepted" \/ cand.inference = 0
                        [] call[w].op = "reject" -> cand.status = "none"
           next == CASE call[w].op = "confirm" -> "persist"
                     [] call[w].op = "reject" -> "retire"
                     [] OTHER -> "begin"
       IN  IF refused THEN Return(w)
           ELSE call' = [call EXCEPT ![w].pc = next, ![w].row = cand]
    /\ UNCHANGED <<support, contra, cand, records, home, now, missed, cut>>

\* Mutant: the inference is retired whatever the row was before.
BeginEvaluation_retires_any(w) ==
    /\ call[w].pc = "begin"
    /\ cand' = [cand EXCEPT !.status = "evaluating"]
    /\ \E verdict \in Verdicts(call[w].row.sup, call[w].row.con) :
          call' = [call EXCEPT ![w].verdict = verdict, ![w].sup = call[w].row.sup,
                     ![w].con = call[w].row.con,
                     ![w].pc = IF verdict = "accepted" THEN "lookup" ELSE "retire"]
    /\ UNCHANGED <<support, contra, records, home, now, missed, cut>>

\* evaluate_candidate: the row is evaluating, whatever it says by now, and
\* the evidence cited by the row as it was read is weighed.
BeginEvaluation(w) ==
    /\ call[w].pc = "begin"
    /\ cand' = [cand EXCEPT !.status = "evaluating"]
    /\ LET s == Voiced(call[w].row.sup, support)
           c == Voiced(call[w].row.con, contra)
       IN  \E verdict \in Verdicts(s, c) :
              call' = [call EXCEPT ![w].verdict = verdict, ![w].sup = s, ![w].con = c,
                         ![w].pc = IF verdict = "accepted" THEN "lookup"
                                   ELSE IF call[w].row.status = "accepted" THEN "retire"
                                   ELSE "mark"]
    /\ UNCHANGED <<support, contra, records, home, now, missed, cut>>

\* Mutant: the namespace is not searched.
Lookup_skipped(w) ==
    /\ call[w].pc = "lookup"
    /\ Goto(w, "persist")
    /\ UNCHANGED <<support, contra, cand, records, home, now, missed, cut>>

\* persist_inference, first half: an active inference of the namespace that is
\* the row's own with the row's evidence is used as it is.  The search takes
\* the first 50 active records of the kind, by importance, and looks for the
\* namespace among those: others may rank before it.
Lookup(w) ==
    /\ call[w].pc = "lookup"
    /\ \/ Inferences = {} /\ Goto(w, "persist") /\ UNCHANGED missed
       \/ /\ \E r \in Inferences :
                call' = [call EXCEPT ![w].record = r,
                           ![w].pc = IF r = call[w].row.inference /\ call[w].row.sup = call[w].sup
                                     THEN "mark" ELSE "persist"]
          /\ UNCHANGED missed
       \/ Inferences # {} /\ Goto(w, "persist") /\ missed < MaxMissed /\ missed' = missed + 1
    /\ UNCHANGED <<support, contra, cand, records, home, now, cut>>

\* persist_inference, second half, with nothing to replace: put_record inserts,
\* or rewrites the row of that id.
PutInference(w) ==
    /\ call[w].pc = "persist" /\ call[w].op # "confirm" /\ call[w].record = 0
    /\ LET new == NewRecord("AI_INFERRED", call[w].sup, 0, call[w].at)
           same == SameId(call[w].at)
       IN  \/ \E r \in same : /\ records' = [records EXCEPT ![r] = new]
                              /\ call' = [call EXCEPT ![w].pc = "mark", ![w].record = r]
           \/ /\ same = {} /\ Len(records) < MaxRecords
              /\ records' = Append(records, new)
              /\ call' = [call EXCEPT ![w].pc = "mark", ![w].record = Len(records) + 1]
    /\ UNCHANGED <<support, contra, cand, home, now, missed, cut>>

\* supersede_record, for the inference found or, on confirmation, by the
\* user's record.  It fails when the old row is not active any more or the new
\* id exists, and the handler with it.
Supersede(w) ==
    /\ call[w].pc = "persist" /\ (call[w].op = "confirm" \/ call[w].record # 0)
    /\ LET confirm == call[w].op = "confirm"
           old == IF confirm THEN call[w].row.inference ELSE call[w].record
           taken == IF confirm
                    THEN \E r \in DOMAIN records :
                            /\ records[r].authority = "USER_CONFIRMED"
                            /\ records[r].supersedes = old /\ records[r].at = call[w].at
                            /\ records[r].status # "removed"
                    ELSE SameId(call[w].at) # {}
           new == IF confirm
                  THEN NewRecord("USER_CONFIRMED", records[old].evidence, old, call[w].at)
                  ELSE NewRecord("AI_INFERRED", call[w].sup, old, call[w].at)
       IN  \/ /\ Active(old) /\ ~taken /\ Len(records) < MaxRecords
              /\ records' = Replaced(old, new)
              /\ call' = [call EXCEPT ![w].pc = "mark", ![w].record = Len(records) + 1]
           \/ /\ ~Active(old) \/ taken
              /\ Return(w)
              /\ UNCHANGED records
    /\ UNCHANGED <<support, contra, cand, home, now, missed, cut>>

\* Mutant: the inference of a lapsed or rejected hypothesis is left alone.
Retire_kept(w) ==
    /\ call[w].pc = "retire"
    /\ Goto(w, "mark")
    /\ UNCHANGED <<support, contra, cand, records, home, now, missed, cut>>

\* The inference of a lapsed or rejected hypothesis is rejected, if active.
Retire(w) ==
    /\ call[w].pc = "retire"
    /\ records' = Rejected(call[w].row.inference)
    /\ Goto(w, "mark")
    /\ UNCHANGED <<support, contra, cand, home, now, missed, cut>>

\* The closing update, by candidate_id alone.
Marked(w) ==
    CASE call[w].op = "confirm" ->
            [cand EXCEPT !.status = "superseded", !.inference = call[w].record]
      [] call[w].op = "reject" -> [cand EXCEPT !.status = "rejected"]
      [] OTHER -> [cand EXCEPT !.status = call[w].verdict, !.sup = call[w].sup,
                      !.con = call[w].con,
                      !.inference = IF call[w].verdict = "accepted" THEN call[w].record ELSE @]

Mark(w) ==
    /\ call[w].pc = "mark"
    /\ cand' = Marked(w)
    /\ Return(w)
    /\ UNCHANGED <<support, contra, records, home, now, missed, cut>>

\* forget: a record is rejected, or with permanent=true removed.
Forget(w, r) ==
    /\ LockFree(w)
    /\ records[r].status # "removed"
    /\ \/ Active(r) /\ records' = Rejected(r)
       \/ records' = [records EXCEPT ![r].status = "removed"]
    /\ UNCHANGED <<support, contra, cand, call, home, now, missed, cut>>

----------------------------------------------------------------------------
(* The surroundings *)

\* record_event: the agent's work leaves an event for or against.
Observe ==
    /\ \/ support < MaxSupport /\ support' = support + 1 /\ UNCHANGED contra
       \/ contra < MaxContra /\ contra' = contra + 1 /\ UNCHANGED support
    /\ UNCHANGED <<cand, records, call, home, now, missed, cut>>

\* The row passes its expires_at.
CandidateAges ==
    /\ cand.status \in Undecided /\ ~cand.old
    /\ cand' = [cand EXCEPT !.old = TRUE]
    /\ UNCHANGED <<support, contra, records, call, home, now, missed, cut>>

Tick ==
    /\ now < MaxNow
    /\ now' = now + 1
    /\ UNCHANGED <<support, contra, cand, records, call, home, missed, cut>>

\* The process dies or a database call fails.  At the bound on records a
\* handler can only be cut off.
CutOff(w) ==
    /\ call[w].pc # "idle"
    /\ cut' = TRUE
    /\ Return(w)
    /\ UNCHANGED <<support, contra, cand, records, home, now, missed>>

Next ==
    \/ \E w \in Workers :
          \/ Run(w) \/ Propose(w) \/ Evaluate(w) \/ Confirm(w) \/ Reject(w)
          \/ Sweep(w) \/ Detect(w) \/ Upsert(w) \/ ReadCandidate(w)
          \/ BeginEvaluation(w) \/ Lookup(w) \/ PutInference(w) \/ Supersede(w)
          \/ Retire(w) \/ Mark(w) \/ CutOff(w)
          \/ \E r \in DOMAIN records : Forget(w, r)
    \/ Observe \/ CandidateAges \/ Tick

Spec == Init /\ [][Next]_vars

----------------------------------------------------------------------------
(* Properties *)

(***************************************************************************)
(* "only the user can create USER_CONFIRMED truth", and only the user ends *)
(* it: whatever handlers race and wherever one is cut off, an active       *)
(* confirmed record is retired by learn reject or forget alone, never by   *)
(* an evaluation that finds its backlink on a row it is about to mark.     *)
(***************************************************************************)
UserWordStands ==
    [][\A r \in DOMAIN records :
          /\ records[r].authority = "USER_CONFIRMED" /\ Active(r)
          /\ records'[r].status # "active"
          => call' = call \/ \E w \in Workers : call[w].op = "reject" /\ call'[w] # call[w]]_vars

(***************************************************************************)
(* "re-running learning converges instead of duplicating": handlers that   *)
(* take turns leave no second active inference, wherever one is cut off,   *)
(* but those that searches past the limit cost, one each at the most.      *)
(***************************************************************************)
OneActiveInference == OneLock => Cardinality(Inferences) <= 1 + missed

(***************************************************************************)
(* When no handler was cut off and no search fell short, knowledge and     *)
(* hypothesis agree: an active inference is the one an accepted row links, *)
(* so no lapsed, rejected or confirmed hypothesis leaves "stale knowledge  *)
(* active beside" it, whatever passes, answers and forgets came before.    *)
(***************************************************************************)
LinkedKnowledge ==
    (OneLock /\ ~cut /\ missed = 0 /\ Running = {}) =>
        \A r \in Inferences : cand.status = "accepted" /\ cand.inference = r

(***************************************************************************)
(* Among handlers that take turns every verdict and every expiry stands:   *)
(* wherever one is cut off and whatever evidence arrives, a terminal row   *)
(* is rewritten by nothing but a user's rejection.                         *)
(***************************************************************************)
VerdictKept ==
    [][(OneLock /\ cand.status \in Terminal)
        => cand'.status \in {cand.status, "rejected"}]_vars

=============================================================================
