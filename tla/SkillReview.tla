----------------------------- MODULE SkillReview -----------------------------
(***************************************************************************)
(* The review of skill candidates up to their publication: proposal,       *)
(* automated evaluation, rejection and expiry (context-runtime/src/        *)
(* skills.rs) and the approval requests a human answers                    *)
(* (context-runtime/src/skill_approvals.rs).                               *)
(*                                                                         *)
(* The candidates are those of one skill identity, so a candidate id,      *)
(* which binds scope, workspace, name and content, is a content here, and  *)
(* the content of a row never changes.  A handler is a program: a sequence *)
(* of database closures, each one step, between which handlers of other    *)
(* workspaces or processes run; those of one workspace and process take    *)
(* turns on mutation_lock.  A closure that refuses ends the program.       *)
(*                                                                         *)
(* Publication (module SkillPublication) is two steps: the gates, and the  *)
(* transaction that makes the candidate active and the next version        *)
(* current.  Expiry times are ages: fresh before the time, due at it, past *)
(* after it.                                                               *)
(***************************************************************************)
EXTENDS Integers, Sequences, FiniteSets

CONSTANTS
    Contents,     \* proposed SKILL.md texts: the candidate ids
    Valid,        \* those validate_skill_content accepts
    Actions,      \* proposed actions of approval requests
    Workers,      \* handlers that may run at one time
    Workspaces,   \* the workspace roots they serve
    Processes,    \* the servers they run in
    MaxRequests,  \* bound: rows of skill_approval_requests
    MaxPublished  \* bound: versions of the skill

ASSUME ConstantsAssumption ==
    /\ Valid \subseteq Contents
    /\ {MaxRequests, MaxPublished} \subseteq Nat

VARIABLES
    cand,     \* [Contents -> row of skill_candidates]
    requests, \* Seq(row of skill_approval_requests), in order of creation
    current,  \* skills.current_version of the identity, 0 before the first
    worker,   \* [Workers -> the program left to run]
    home      \* [Workers -> Workspaces \X Processes], whose mutation_lock it takes

vars == <<cand, requests, current, worker, home>>

----------------------------------------------------------------------------
(* Rows *)

Statuses == {"none", "candidate", "evaluating", "draft", "validated", "active",
             "rejected", "deferred", "superseded", "expired"}

PreDraft == {"candidate", "evaluating", "deferred"}
Terminal == {"rejected", "superseded", "expired"}

\* anchor is based_on_version, 0 for None; weak is a confidence below
\* SKILL_APPROVAL_MIN_CONFIDENCE; old means past expires_at.
CandidateRow == [status : Statuses, anchor : Nat, weak : BOOLEAN, old : BOOLEAN]

\* A superseded request is "replaced" when it names a successor_request_id.
RequestRow ==
    [candidate : Contents, anchor : Nat, parent : Nat, age : {"fresh", "due", "past"},
     action : Actions, root : Workspaces,
     status : {"pending", "approved", "rejected", "deferred", "superseded", "replaced",
               "expired"}]

\* One closure of a handler: what it does, to which candidate, towards which
\* status or action, for which request, with which version of the skill (0 for none).
Instructions ==
    [do : {"anchor", "insert", "evaluate", "check", "write", "promote", "draft", "request",
           "candidate", "gate", "publish", "fork", "successor", "close", "sweep"},
     content : Contents, to : Statuses \cup {"approved", "replaced"} \cup Actions,
     request : 0 .. MaxRequests, version : Nat, weak : BOOLEAN]

TypeOK ==
    /\ cand \in [Contents -> CandidateRow]
    /\ requests \in Seq(RequestRow) /\ Len(requests) <= MaxRequests
    /\ current \in 0 .. MaxPublished
    /\ worker \in [Workers -> Seq(Instructions)]
    /\ home \in [Workers -> Workspaces \X Processes]

Init ==
    /\ cand = [k \in Contents |->
                  [status |-> "none", old |-> FALSE, anchor |-> 0, weak |-> TRUE]]
    /\ requests = <<>>
    /\ current = 0
    /\ worker = [w \in Workers |-> <<>>]
    /\ home \in [Workers -> Workspaces \X Processes]

\* can_transition_to, without the edges no writer takes.
CanTransition(from, to) ==
    \/ from = "candidate"  /\ to \in {"evaluating", "rejected", "deferred", "expired"}
    \/ from = "evaluating" /\ to \in {"draft", "rejected", "deferred", "expired"}
    \/ from = "draft"      /\ to \in {"validated", "rejected"}
    \/ from = "validated"  /\ to \in {"active", "rejected", "deferred", "superseded"}
    \/ from = "active"     /\ to = "superseded"
    \/ from = "deferred"   /\ to \in {"evaluating", "rejected", "expired"}

----------------------------------------------------------------------------
(* Programs *)

Do(what, k) ==
    [content |-> k, weak |-> FALSE, do |-> what, to |-> "none", request |-> 0, version |-> 0]

\* transition_skill_candidate: a closure that reads and checks, and one that
\* writes unconditionally.
Transition(k, to) == <<[Do("check", k) EXCEPT !.to = to], [Do("write", k) EXCEPT !.to = to]>>

\* promote_candidate_to_draft: likewise, but the write names the old status.
Promote(k) == <<Do("promote", k), Do("draft", k)>>

\* What evaluate_candidate_content still has to do from the status it read.
Evaluation(k, from) ==
    (IF from \in {"candidate", "deferred"} THEN Transition(k, "evaluating") ELSE <<>>)
    \o (IF from # "draft" THEN Promote(k) ELSE <<>>)
    \o Transition(k, "validated")

\* approve_skill_candidate.
Approval(k) == <<Do("gate", k), Do("publish", k)>>

Close(r, to) == [Do("close", requests[r].candidate) EXCEPT !.to = to, !.request = r]

\* A proposal reads the lineage's current version, its anchor, and inserts.
Proposal(k, weak) == <<[Do("anchor", k) EXCEPT !.weak = weak]>>

\* Mutant: the request is consumed before the answer has its effect.
Answer_close_first(r, response, m) ==
    LET k == requests[r].candidate
    IN  CASE response = "approve" -> <<Close(r, "approved")>> \o Approval(k)
          [] response = "reject" -> <<Close(r, "rejected")>> \o Transition(k, "rejected")
          [] response = "defer" -> <<Close(r, "deferred")>> \o Transition(k, "deferred")
          [] response = "modify" ->
                Proposal(m, cand[k].weak)
                \o <<Do("evaluate", m), [Do("fork", m) EXCEPT !.request = r]>>

\* What each answer to request r runs once its stale checks have passed.  A
\* modification m is a new candidate of the same identity, evaluated before
\* anything is done to its parent.
Answer(r, response, m) ==
    LET k == requests[r].candidate
    IN  CASE response = "approve" -> Approval(k) \o <<Close(r, "approved")>>
          [] response = "reject" -> Transition(k, "rejected") \o <<Close(r, "rejected")>>
          [] response = "defer" -> Transition(k, "deferred") \o <<Close(r, "deferred")>>
          [] response = "modify" ->
                Proposal(m, cand[k].weak)
                \o <<Do("evaluate", m), [Do("fork", m) EXCEPT !.request = r]>>

----------------------------------------------------------------------------
(* Handlers: the tool calls of the MCP server *)

Running == {w \in Workers : worker[w] # <<>>}

\* mutation_lock is held while a handler runs.
LockFree(w) == \A v \in Running : home[v] # home[w]

Start(w, program) ==
    /\ LockFree(w)
    /\ worker' = [worker EXCEPT ![w] = program]
    /\ UNCHANGED <<cand, requests, current, home>>

\* propose: from an accepted learning candidate, or standalone and then weak.
Propose(w, k) == \E weak \in BOOLEAN : Start(w, Proposal(k, weak))

Evaluate(w, k) == cand[k].status # "none" /\ Start(w, <<Do("evaluate", k)>>)

Reject(w, k) == cand[k].status # "none" /\ Start(w, Transition(k, "rejected"))

Approve(w, k) == cand[k].status # "none" /\ Start(w, Approval(k))

\* request_approval: the first closure reads the candidate.
RequestApproval(w, k) ==
    /\ cand[k].status = "validated"
    /\ \E action \in Actions :
          Start(w, <<[Do("request", k) EXCEPT !.to = action, !.version = cand[k].anchor]>>)

\* The workspace root a handler serves.
Root(w) == home[w][1]

\* respond: the first closure reads the request.  At or past its time the
\* handler sweeps and refuses; a request that is not pending, or was asked in
\* another workspace, is refused.
Respond(w, r) ==
    \/ /\ requests[r].age # "fresh"
       /\ Start(w, <<Do("sweep", requests[r].candidate)>>)
    \/ /\ requests[r].age = "fresh" /\ requests[r].status = "pending"
       /\ requests[r].root = Root(w)
       /\ Start(w, <<[Do("candidate", requests[r].candidate) EXCEPT !.request = r]>>)

----------------------------------------------------------------------------
(* The closures *)

\* The closure at hand, the rest of the program, and how the program goes on.
At(w, what) == worker[w] # <<>> /\ Head(worker[w]).do = what
This(w) == Head(worker[w])
Row(w) == cand[This(w).content]
Continue(w, more) == worker' = [worker EXCEPT ![w] = more \o Tail(worker[w])]
Return(w) == worker' = [worker EXCEPT ![w] = <<>>]
Guarded(w, ok, more) == IF ok THEN Continue(w, more) ELSE Return(w)

SetStatus(k, s) == cand' = [cand EXCEPT ![k].status = s]

\* get_skill of the identity, before insert_skill_candidate.
ReadAnchor(w) ==
    /\ At(w, "anchor")
    /\ Continue(w, <<[This(w) EXCEPT !.do = "insert", !.version = current]>>)
    /\ UNCHANGED <<cand, requests, current, home>>

\* A new row; or fresh evidence for a row nobody has drafted yet, which keeps
\* its status and, with no new anchor, its anchor; or a refusal.
InsertCandidate(w) ==
    /\ At(w, "insert")
    /\ LET new == [status |-> IF Row(w).status = "none" THEN "candidate" ELSE Row(w).status,
                   old |-> FALSE,
                   anchor |-> IF This(w).version # 0 THEN This(w).version ELSE Row(w).anchor,
                   weak |-> This(w).weak]
           ok == Row(w).status \in PreDraft \cup {"none"}
       IN  /\ cand' = IF ok THEN [cand EXCEPT ![This(w).content] = new] ELSE cand
           /\ Guarded(w, ok, <<>>)
    /\ UNCHANGED <<requests, current, home>>

\* Mutant: the draft is written before the content is validated.
EvaluateContent_draft_first(w) ==
    /\ At(w, "evaluate")
    /\ Guarded(w, Row(w).status \in PreDraft \cup {"draft"},
               Transition(This(w).content, "evaluating") \o <<Do("draft", This(w).content)>>)
    /\ UNCHANGED <<cand, requests, current, home>>

\* evaluate_candidate_content reads the status once and derives the rest of
\* its program from it; content that fails validation stays where it is.
EvaluateContent(w) ==
    /\ At(w, "evaluate")
    /\ Guarded(w, Row(w).status \in PreDraft \cup {"draft"},
               IF This(w).content \in Valid THEN Evaluation(This(w).content, Row(w).status)
               ELSE <<>>)
    /\ UNCHANGED <<cand, requests, current, home>>

CheckTransition(w) ==
    /\ At(w, "check")
    /\ Guarded(w, CanTransition(Row(w).status, This(w).to), <<>>)
    /\ UNCHANGED <<cand, requests, current, home>>

\* UPDATE ... WHERE candidate_id = ?: whatever the row says by now.
WriteTransition(w) ==
    /\ At(w, "write")
    /\ SetStatus(This(w).content, This(w).to)
    /\ Continue(w, <<>>)
    /\ UNCHANGED <<requests, current, home>>

CheckPromotion(w) ==
    /\ At(w, "promote")
    /\ Guarded(w, CanTransition(Row(w).status, "draft") /\ This(w).content \in Valid, <<>>)
    /\ UNCHANGED <<cand, requests, current, home>>

\* UPDATE ... AND status = 'evaluating'; no row changed is no error.
WritePromotion(w) ==
    /\ At(w, "draft")
    /\ IF Row(w).status = "evaluating" THEN SetStatus(This(w).content, "draft")
       ELSE UNCHANGED cand
    /\ Continue(w, <<>>)
    /\ UNCHANGED <<requests, current, home>>

\* The row for the candidate and the anchor a closure carries.
NewRequest(i, action, root, parent) ==
    [status |-> "pending", age |-> "fresh", anchor |-> i.version, candidate |-> i.content,
     action |-> action, root |-> root, parent |-> parent]

\* A request that waits for the same action on the same candidate in this
\* workspace and is not yet due is the same interaction.
CreateRequest(w) ==
    /\ At(w, "request")
    /\ requests' =
          IF \E r \in DOMAIN requests :
                /\ requests[r].candidate = This(w).content
                /\ requests[r].action = This(w).to /\ requests[r].root = Root(w)
                /\ requests[r].status = "pending" /\ requests[r].age = "fresh"
          THEN requests
          ELSE Append(requests, NewRequest(This(w), This(w).to, Root(w), 0))
    /\ Len(requests') <= MaxRequests
    /\ Continue(w, <<>>)
    /\ UNCHANGED <<cand, current, home>>

\* respond's second closure: the candidate must be what the human was shown.
ReadCandidate(w) ==
    /\ At(w, "candidate")
    /\ LET r == This(w).request
           k == This(w).content
       IN  IF Row(w).status # "validated" \/ Row(w).anchor # requests[r].anchor
           THEN Return(w)
           ELSE \/ \E response \in {"approve", "reject", "defer"} :
                      Continue(w, Answer(r, response, k))
                \/ \E m \in Contents \ {k} : Continue(w, Answer(r, "modify", m))
    /\ UNCHANGED <<cand, requests, current, home>>

\* The gates of approve_skill_candidate; an anchor is only checked when there
\* is one and the skill exists.
PublishGate(w) ==
    /\ At(w, "gate")
    /\ LET open == /\ Row(w).status = "validated" /\ ~Row(w).weak
                   /\ This(w).content \in Valid
                   /\ current = 0 \/ Row(w).anchor \in {0, current}
       IN  IF ~open THEN Return(w)
           ELSE worker' = [worker EXCEPT ![w] =
                   <<[worker[w][2] EXCEPT !.version = current + 1]>> \o Tail(Tail(worker[w]))]
    /\ UNCHANGED <<cand, requests, current, home>>

\* The transaction: the version slot must still be free; the candidate's
\* status is not looked at again.
Publish(w) ==
    /\ At(w, "publish")
    /\ \/ /\ This(w).version <= current
          /\ Return(w)
          /\ UNCHANGED <<cand, current>>
       \/ /\ This(w).version > current
          /\ SetStatus(This(w).content, "active")
          /\ This(w).version <= MaxPublished
          /\ current' = This(w).version
          /\ Continue(w, <<>>)
    /\ UNCHANGED <<requests, home>>

\* Mutant: the answered request names its successor before the parent is closed.
Fork_parent_last(w) ==
    /\ At(w, "fork")
    /\ LET r == This(w).request
           parent == requests[r].candidate
       IN  Continue(w,
              IF Row(w).status = "validated"
              THEN <<[This(w) EXCEPT !.do = "successor", !.version = Row(w).anchor],
                     Close(r, "replaced")>> \o Transition(parent, "superseded")
              ELSE <<Close(r, "superseded")>>)
    /\ UNCHANGED <<cand, requests, current, home>>

\* The end of a modification: a valid one gets its own request, and its
\* parent is superseded; the answered request is consumed either way.
Fork(w) ==
    /\ At(w, "fork")
    /\ LET r == This(w).request
           parent == requests[r].candidate
       IN  Continue(w,
              IF Row(w).status = "validated"
              THEN <<[This(w) EXCEPT !.do = "successor", !.version = Row(w).anchor]>>
                   \o Transition(parent, "superseded") \o <<Close(r, "replaced")>>
              ELSE <<Close(r, "superseded")>>)
    /\ UNCHANGED <<cand, requests, current, home>>

\* It has its parent's action and workspace, whatever else is pending.
InsertSuccessor(w) ==
    /\ At(w, "successor")
    /\ Len(requests) < MaxRequests
    /\ LET parent == This(w).request
       IN  requests' = Append(requests, NewRequest(This(w), requests[parent].action,
                                                   requests[parent].root, parent))
    /\ Continue(w, <<>>)
    /\ UNCHANGED <<cand, current, home>>

\* Mutant: the update does not ask for a pending row.
CloseRequest_any_status(w) ==
    /\ At(w, "close")
    /\ requests' = [requests EXCEPT ![This(w).request].status = This(w).to]
    /\ Continue(w, <<>>)
    /\ UNCHANGED <<cand, current, home>>

\* transition_approval_request: UPDATE ... AND status = 'pending'.
CloseRequest(w) ==
    /\ At(w, "close")
    /\ requests' = IF requests[This(w).request].status = "pending"
                   THEN [requests EXCEPT ![This(w).request].status = This(w).to]
                   ELSE requests
    /\ Continue(w, <<>>)
    /\ UNCHANGED <<cand, current, home>>

\* expire_skill_approval_requests, run by a late answer.
SweepRequests(w) ==
    /\ At(w, "sweep")
    /\ requests' = [r \in DOMAIN requests |->
          IF requests[r].status = "pending" /\ requests[r].age = "past"
          THEN [requests[r] EXCEPT !.status = "expired"] ELSE requests[r]]
    /\ Return(w)
    /\ UNCHANGED <<cand, current, home>>

----------------------------------------------------------------------------
(* Time and failure *)

\* expire_skill_candidates: one statement, a handler of its own.
ExpireCandidates(w) ==
    /\ LockFree(w)
    /\ cand' = [k \in Contents |->
          IF cand[k].status \in PreDraft /\ cand[k].old
          THEN [cand[k] EXCEPT !.status = "expired"] ELSE cand[k]]
    /\ UNCHANGED <<requests, current, worker, home>>

\* Time passes; only rows that can still expire are worth ageing.
CandidateAges(k) ==
    /\ cand[k].status \in PreDraft /\ ~cand[k].old
    /\ cand' = [cand EXCEPT ![k].old = TRUE]
    /\ UNCHANGED <<requests, current, worker, home>>

RequestAges(r) ==
    /\ requests[r].status = "pending" /\ requests[r].age # "past"
    /\ requests' = [requests EXCEPT ![r].age = IF @ = "fresh" THEN "due" ELSE "past"]
    /\ UNCHANGED <<cand, current, worker, home>>

\* The process dies, a database call fails, publication is refused by the
\* file system, or a second request of one second has the same id.  At the
\* bounds on requests and versions a handler can only be cut off.
Abort(w) ==
    /\ worker[w] # <<>>
    /\ Return(w)
    /\ UNCHANGED <<cand, requests, current, home>>

Closure(w) ==
    \/ ReadAnchor(w) \/ InsertCandidate(w) \/ EvaluateContent(w)
    \/ CheckTransition(w) \/ WriteTransition(w) \/ CheckPromotion(w) \/ WritePromotion(w)
    \/ CreateRequest(w) \/ ReadCandidate(w) \/ PublishGate(w) \/ Publish(w)
    \/ Fork(w) \/ InsertSuccessor(w) \/ CloseRequest(w) \/ SweepRequests(w)

Next ==
    \/ \E w \in Workers :
          \/ \E k \in Contents :
                Propose(w, k) \/ Evaluate(w, k) \/ Reject(w, k) \/ Approve(w, k)
                \/ RequestApproval(w, k)
          \/ \E r \in DOMAIN requests : Respond(w, r)
          \/ Closure(w)
          \/ Abort(w)
          \/ ExpireCandidates(w)
    \/ \E k \in Contents : CandidateAges(k)
    \/ \E r \in DOMAIN requests : RequestAges(r)

Spec == Init /\ [][Next]_vars

----------------------------------------------------------------------------
(* Properties of every interleaving and every cut-off handler *)

(***************************************************************************)
(* Content that fails validation is never drafted, validated or published: *)
(* no order of two evaluations, rejections, modifications and publications *)
(* whose closures interleave carries it past the automated pass.           *)
(***************************************************************************)
ValidOnly ==
    \A k \in Contents : cand[k].status \in {"draft", "validated", "active"} => k \in Valid

(***************************************************************************)
(* "A request is single-use (pending -> terminal exactly once)": of two    *)
(* answers, or an answer and the expiry sweep, that race past the pending  *)
(* check one is recorded and the row never changes again.                  *)
(***************************************************************************)
SingleUse ==
    [][\A r \in DOMAIN requests :
          requests[r].status # "pending" => requests'[r].status = requests[r].status]_vars

----------------------------------------------------------------------------
(* Properties of handlers that take turns on one mutation_lock *)

OneLock == \A v, w \in Workers : home[v] = home[w]

(***************************************************************************)
(* A consumed request tells the truth about its candidate, also when other *)
(* requests for it wait, the handler that consumed it was cut off anywhere *)
(* and somebody answered again: approved means published, rejected means   *)
(* rejected, and one that names its successor has closed the candidate the *)
(* successor replaces, for good.                                           *)
(***************************************************************************)
ConsumedMeansDone ==
    OneLock => \A r \in DOMAIN requests :
        LET s == cand[requests[r].candidate].status
        IN  /\ requests[r].status = "approved" => s = "active"
            /\ requests[r].status = "rejected" => s = "rejected"
            /\ requests[r].status = "replaced" => s = "superseded"

==============================================================================
