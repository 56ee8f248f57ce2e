------------------------------ MODULE Sessions ------------------------------
(***************************************************************************)
(* Sessions and their history (context-runtime/src/history.rs), the        *)
(* capture that every mutating tool ends with (history_capture.rs), and    *)
(* the recall tool's close.                                                *)
(*                                                                         *)
(* Calls run in different server processes or for different workspaces:    *)
(* calls of one workspace in one process take turns on its mutation_lock,  *)
(* which leaves a subset of the interleavings here.  Each step is one      *)
(* closure of with_conn, that is one transaction or one statement.  All    *)
(* calls here are about the workspace Here; There is the root of a project *)
(* on the device an import comes from.                                     *)
(***************************************************************************)
EXTENDS Integers, Sequences, FiniteSets

CONSTANTS
    Calls,      \* tool calls that will ever arrive
    Here,       \* the workspace of the calls
    There,      \* a workspace of another device
    NoKey,      \* the event has no dedup_key
    NoSession,  \* the event belongs to no session
    MaxClock    \* bound: the last second

ASSUME SessionsAssumption ==
    /\ Here # There
    /\ NoSession \notin Nat
    /\ NoKey \notin {"session-ended"} \X Nat
    /\ MaxClock \in Nat

VARIABLES
    clock,      \* unix time in seconds
    sessions,   \* [existing session ids -> the row]; later ones are opened later
    events,     \* Seq of event rows: an id is a place in it
    call        \* [Calls -> the local state of the handler]

historyVars == <<sessions, events>>

----------------------------------------------------------------------------
(* Rows *)

\* A session row is [ws, status, event_count].  An event row is [what, dedup_key,
\* session_id, ws]: what names the happening, and two rows about the same one
\* are a duplicate.

\* The calls: the second it began in, the session or record it is about.  What
\* a tool does not use, or not any more, is as in NoCall.
NoCall ==
    [pc |-> "idle", now |-> 0, session |-> NoSession, status |-> "active",
     target |-> <<0, 0>>, id |-> <<0, 0>>, authority |-> "observed", evidence |-> 0,
     since |-> 0, missed |-> FALSE]

Linked(evs, s) == {i \in DOMAIN evs : evs[i].session_id = s}

Seen(key) == key # NoKey /\ \E i \in DOMAIN events : events[i].dedup_key = key

\* The row a key was seen with, or the row that is added now.
EventId(key) ==
    IF Seen(key) THEN CHOOSE i \in DOMAIN events : events[i].dedup_key = key
                 ELSE Len(events) + 1

\* Mutant: an event is added whatever its key.
record_event_in_tx_no_probe(e) ==
    /\ events' = Append(events, e)
    /\ sessions' = IF e.session_id = NoSession THEN sessions
                   ELSE [sessions EXCEPT ![e.session_id].event_count = @ + 1]

\* The transaction every history write shares: a key that was seen changes
\* nothing, else the row is added and its session counts it.
record_event_in_tx(e) ==
    IF Seen(e.dedup_key) THEN UNCHANGED historyVars
    ELSE /\ events' = Append(events, e)
         /\ sessions' = IF e.session_id = NoSession THEN sessions
                        ELSE [sessions EXCEPT ![e.session_id].event_count = @ + 1]

ActiveIn(w) == {s \in DOMAIN sessions : sessions[s].status = "active" /\ sessions[s].ws = w}

Newest(S) == CHOOSE s \in S : \A t \in S : t <= s

\* The call goes on at another step.
Goto(c, pc) == call' = [call EXCEPT ![c].pc = pc]

\* It goes on with the capture, or ends, and its locals are gone.
Leave(c, pc) == call' = [call EXCEPT ![c] = [NoCall EXCEPT !.pc = pc]]

----------------------------------------------------------------------------
(* The capture at the end of a tool call *)

\* Any tool that changes something besides records or sessions: the change is
\* another module's, the capture is the same.
StartTool(c) ==
    /\ call[c].pc = "idle"
    /\ Leave(c, "ensure")
    /\ UNCHANGED <<clock, historyVars>>

\* ensure_active_session: the newest active session is resumed ...
active_session_for(c) ==
    /\ call[c].pc = "ensure"
    /\ call' = [call EXCEPT ![c] =
                  IF ActiveIn(Here) = {} THEN [@ EXCEPT !.pc = "open"]
                  ELSE [@ EXCEPT !.pc = "record", !.session = Newest(ActiveIn(Here))]]
    /\ UNCHANGED <<clock, historyVars>>

\* ... or, in a transaction of its own, a new one is opened.
open_session(c) ==
    LET s == Newest(DOMAIN sessions \cup {0}) + 1
        row == [ws |-> Here, status |-> "active", event_count |-> 0]
    IN  /\ call[c].pc = "open"
        /\ sessions' = [t \in DOMAIN sessions \cup {s} |-> IF t = s THEN row ELSE sessions[t]]
        /\ call' = [call EXCEPT ![c] = [@ EXCEPT !.pc = "record", !.session = s]]
        /\ UNCHANGED <<clock, events>>

\* The session cannot be had: the event is recorded without one.
SessionUnavailable(c) ==
    /\ call[c].pc \in {"ensure", "open"}
    /\ Goto(c, "record")
    /\ UNCHANGED <<clock, historyVars>>

\* The event is linked to that session, closed in the meantime or not.
record_history(c) ==
    /\ call[c].pc = "record"
    /\ record_event_in_tx([what |-> <<"capture", c>>, dedup_key |-> NoKey,
                           session_id |-> call[c].session, ws |-> Here])
    /\ Leave(c, "done")
    /\ UNCHANGED clock

----------------------------------------------------------------------------
(* recall, action close *)

StartClose(c, s, status) ==
    /\ call[c].pc = "idle"
    /\ s \in DOMAIN sessions
    /\ call' = [call EXCEPT ![c] = [NoCall EXCEPT !.pc = "check",
                                                  !.session = s, !.status = status]]
    /\ UNCHANGED <<clock, historyVars>>

\* A session that has ended is answered with its ending (the handler asks, and
\* close_session_with_snapshot asks again).
CheckActive(c) ==
    /\ call[c].pc = "check"
    /\ IF sessions[call[c].session].status = "active" THEN Goto(c, "update") ELSE Leave(c, "done")
    /\ UNCHANGED <<clock, historyVars>>

\* The ending is written by id, outside the statement that read the status.
close_session(c) ==
    /\ call[c].pc = "update"
    /\ sessions' = [sessions EXCEPT ![call[c].session].status = call[c].status]
    /\ Goto(c, "ended")
    /\ UNCHANGED <<clock, events>>

\* One SessionEnded event per session, by its key.
SessionEnded(c) ==
    /\ call[c].pc = "ended"
    /\ record_event_in_tx([what |-> <<"ended", call[c].session>>,
                           dedup_key |-> <<"session-ended", call[c].session>>,
                           session_id |-> call[c].session, ws |-> Here])
    /\ Leave(c, "done")
    /\ UNCHANGED clock

----------------------------------------------------------------------------
(* The environment *)

Tick ==
    /\ clock < MaxClock
    /\ clock' = clock + 1
    /\ UNCHANGED <<historyVars, call>>

\* The process of a call dies, or a statement fails and the rest is skipped.
CutOff(c) ==
    /\ call[c].pc \notin {"idle", "done"}
    /\ Leave(c, "done")
    /\ UNCHANGED <<clock, historyVars>>

SessionStep(c) ==
    \/ StartTool(c)
    \/ active_session_for(c)
    \/ open_session(c)
    \/ SessionUnavailable(c)
    \/ record_history(c)
    \/ \E s \in DOMAIN sessions, status \in {"completed", "abandoned"} : StartClose(c, s, status)
    \/ CheckActive(c)
    \/ close_session(c)
    \/ SessionEnded(c)
    \/ CutOff(c)

----------------------------------------------------------------------------
(* Properties *)

\* The cached event_count of every session is the number of events linked to
\* it, through captures into sessions that close meanwhile, replays, imports
\* that are cut off and recounts.
CountsMatch ==
    \A s \in DOMAIN sessions : sessions[s].event_count = Cardinality(Linked(events, s))

\* No happening is in the history twice: not after a second close of one
\* session, not after an import is run again, not when the import brings an
\* ending that a local close has written already.
HappenedOnce ==
    \A i, j \in DOMAIN events : events[i].what = events[j].what => i = j
=============================================================================
