------------------------------ MODULE Records ------------------------------
(***************************************************************************)
(* Context records: the tools remember and forget (mcp/mod.rs) over the    *)
(* record operations of context-runtime/src/store.rs.                      *)
(*                                                                         *)
(* All records here have one kind, namespace, scope and workspace: what    *)
(* remember calls a clash.  An id ends in the second the call began in,    *)
(* with a number appended while the plain one is taken; it is written as   *)
(* <<second, number>>.  The search for a clash reads at most 100 active    *)
(* records of the kind, the most important first, and looks for the        *)
(* namespace among those: with more of them it can miss any of these.      *)
(***************************************************************************)
EXTENDS Sessions

VARIABLES
    records,  \* [existing record ids -> the row]
    written   \* writes of record rows so far, to order them

recordVars == <<records, written>>

----------------------------------------------------------------------------
(* Rows *)

Authorities == {"observed", "user_confirmed"}

Statuses == {"active", "expired", "superseded", "rejected"}

authority_rank(a) == IF a = "user_confirmed" THEN 2 ELSE 1

\* by is the call or the bundle the content comes from; about the happening
\* it was drawn from; evidence the event row it cites for it, 0 for none.
\* version numbers the writes of contents; supersedes, an id in the code, is
\* the version that was under that id when this row was written, 0 for none.
Row(by, status, updated, authority, about, evidence, supersedes, version) ==
    [by |-> by, status |-> status, updated_at |-> updated, authority |-> authority,
     about |-> about, evidence |-> evidence, supersedes |-> supersedes, version |-> version]

NoRecord == <<0, 0>>

Active(r) == r.status = "active"

ActiveRecords == {i \in DOMAIN records : Active(records[i])}

\* put_record: a row with this id is replaced as a whole.
Upserted(id, row) == [i \in DOMAIN records \cup {id} |-> IF i = id THEN row ELSE records[i]]

\* The row a remember call writes.
NewRow(c, status, supersedes) ==
    LET r == call[c]
    IN  Row(c, status, r.now, r.authority, IF r.evidence = 0 THEN <<"user", 0>> ELSE <<"observation", c>>,
            r.evidence, supersedes, written + 1)

----------------------------------------------------------------------------
(* remember *)

\* target names the record to supersede, or none; a retiring call completes
\* or cancels an intent: its own row is never active.
StartRemember(c, target, authority, retiring) ==
    /\ call[c].pc = "idle"
    /\ call' = [call EXCEPT ![c] =
                  [NoCall EXCEPT !.pc = IF authority = "observed" THEN "observe" ELSE "look",
                                 !.now = clock, !.target = target,
                                 !.authority = authority,
                                 !.status = IF retiring THEN "expired" ELSE "active"]]
    /\ UNCHANGED <<clock, historyVars, recordVars>>

\* The observation is stored first, so that the record can cite it.
append_event(c) ==
    /\ call[c].pc = "observe"
    /\ record_event_in_tx([what |-> <<"observation", c>>, dedup_key |-> NoKey,
                           session_id |-> NoSession, ws |-> Here])
    /\ call' = [call EXCEPT ![c] = [@ EXCEPT !.pc = "look", !.evidence = Len(events')]]
    /\ UNCHANGED <<clock, recordVars>>

\* Mutant: a clash is looked for only when something is to be retired.
find_active_in_namespace_unless_fresh(c, seen) ==
    /\ seen \subseteq ActiveRecords
    /\ call[c].pc = "look"
    /\ call[c].target = NoRecord
    /\ call' = [call EXCEPT ![c] =
                  LET r == [@ EXCEPT !.pc = "mint", !.since = written, !.missed = seen # ActiveRecords]
                  IN  IF seen = {} \/ @.status = "active" THEN r
                      ELSE [r EXCEPT !.target = CHOOSE i \in seen : TRUE]]
    /\ UNCHANGED <<clock, historyVars, recordVars>>

\* A fresh record is refused when the search has seen an active one; a retiring
\* call takes the only one it has seen.
find_active_in_namespace(c, seen) ==
    /\ seen \subseteq ActiveRecords
    /\ call[c].pc = "look"
    /\ call[c].target = NoRecord
    /\ call' = [call EXCEPT ![c] =
                  LET r == [@ EXCEPT !.pc = "mint", !.since = written, !.missed = seen # ActiveRecords]
                  IN  IF seen = {} THEN r
                      ELSE IF @.status = "expired" /\ Cardinality(seen) = 1
                      THEN [r EXCEPT !.target = CHOOSE i \in seen : TRUE]
                      ELSE [NoCall EXCEPT !.pc = "done"]]
    /\ UNCHANGED <<clock, historyVars, recordVars>>

\* With supersedes, the predecessor must be active now ...
ReadPredecessor(c) ==
    LET t == call[c].target
    IN  /\ call[c].pc = "look"
        /\ t # NoRecord
        /\ IF t \in ActiveRecords THEN Goto(c, "mint") ELSE Leave(c, "done")
        /\ UNCHANGED <<clock, historyVars, recordVars>>

\* The first id of this second that no row has at this moment.
mint_record_id(c) ==
    /\ call[c].pc = "mint"
    /\ \E n \in 1 .. Cardinality(DOMAIN records) + 1 :
          /\ <<call[c].now, n>> \notin DOMAIN records
          /\ \A m \in 1 .. n - 1 : <<call[c].now, m>> \in DOMAIN records
          /\ call' = [call EXCEPT ![c] = [@ EXCEPT !.pc = "put", !.id = <<call[c].now, n>>]]
    /\ UNCHANGED <<clock, historyVars, recordVars>>

put_record(c) ==
    /\ call[c].pc = "put"
    /\ call[c].target = NoRecord
    /\ records' = Upserted(call[c].id, NewRow(c, call[c].status, 0))
    /\ written' = written + 1
    /\ Leave(c, "ensure")
    /\ UNCHANGED <<clock, historyVars>>

\* Mutant: the predecessor was found active before and is not asked again.
supersede_impl_unchecked(c) ==
    LET t == call[c].target
        id == call[c].id
    IN  /\ call[c].pc = "put"
        /\ t # NoRecord
        /\ t \in DOMAIN records /\ id \notin DOMAIN records
        /\ records' = [Upserted(id, NewRow(c, call[c].status, records[t].version))
                          EXCEPT ![t].status = "superseded", ![t].updated_at = call[c].now]
        /\ written' = written + 1
        /\ Leave(c, "ensure")
        /\ UNCHANGED <<clock, historyVars>>

\* ... and still when the transaction marks it and adds the successor, whose
\* id must be free (a plain INSERT); else nothing changes.
supersede_impl(c) ==
    LET t == call[c].target
        id == call[c].id
    IN  /\ call[c].pc = "put"
        /\ t # NoRecord
        /\ IF t \in ActiveRecords /\ id \notin DOMAIN records
           THEN /\ records' = [Upserted(id, NewRow(c, call[c].status, records[t].version))
                                  EXCEPT ![t].status = "superseded", ![t].updated_at = call[c].now]
                /\ written' = written + 1
                /\ Leave(c, "ensure")
           ELSE Leave(c, "done") /\ UNCHANGED recordVars
        /\ UNCHANGED <<clock, historyVars>>

----------------------------------------------------------------------------
(* forget *)

StartForget(c, id) ==
    /\ call[c].pc = "idle"
    /\ call' = [call EXCEPT ![c] = [NoCall EXCEPT !.pc = "forget", !.now = clock, !.target = id]]
    /\ UNCHANGED <<clock, historyVars, recordVars>>

\* An active record is rejected, one that has ended is left as it is.
reject_record(c) ==
    LET t == call[c].target
    IN  /\ call[c].pc = "forget"
        /\ IF t \in ActiveRecords
           THEN records' = [records EXCEPT ![t].status = "rejected", ![t].updated_at = call[c].now]
           ELSE UNCHANGED records
        /\ Leave(c, "ensure")
        /\ UNCHANGED <<clock, historyVars, written>>

\* permanent = true: the row goes.
remove_record(c) ==
    /\ call[c].pc = "forget"
    /\ records' = [i \in DOMAIN records \ {call[c].target} |-> records[i]]
    /\ Leave(c, "ensure")
    /\ UNCHANGED <<clock, historyVars, written>>

RecordStep(c) ==
    \/ \E t \in DOMAIN records \cup {NoRecord}, a \in Authorities, retiring \in BOOLEAN :
          StartRemember(c, t, a, retiring)
    \/ append_event(c)
    \/ \E seen \in SUBSET ActiveRecords : find_active_in_namespace(c, seen)
    \/ ReadPredecessor(c)
    \/ mint_record_id(c)
    \/ put_record(c)
    \/ supersede_impl(c)
    \/ \E t \in DOMAIN records : StartForget(c, t)
    \/ reject_record(c)
    \/ remove_record(c)

----------------------------------------------------------------------------
(* Properties *)

\* Of two calls that supersede, complete or forget a record at once, one wins:
\* no version of it has two successors, but for one that an import brought
\* with it (import_record stores the bundle's row as it is and asks nobody).
OneSuccessor ==
    \A i, j \in DOMAIN records :
        records[i].supersedes = records[j].supersedes /\ records[i].supersedes # 0 =>
            i = j \/ "bundle" \in {records[i].by, records[j].by}
=============================================================================
