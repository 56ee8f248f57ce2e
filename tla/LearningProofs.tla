--------------------------- MODULE LearningProofs ---------------------------
(***************************************************************************)
(* Proofs about Learning, for every number of handlers, workspaces, events *)
(* and records, every threshold and any interleaving.                      *)
(***************************************************************************)
EXTENDS Learning, TLAPS, SequenceTheorems, FiniteSetTheorems

----------------------------------------------------------------------------
(* Type correctness *)

LEMMA NoRowType == NoRow \in CandidateRow
  BY BoundsAssumption DEF NoRow, CandidateRow, Statuses

LEMMA IdleType == Idle \in CallRecord
  <1>1. 0 \in 0 .. MaxRecords /\ 0 \in 0 .. MaxNow
    BY BoundsAssumption
  <1> QED
    BY <1>1, NoRowType DEF Idle, CallRecord, Operations, Steps, Statuses

\* The edits the handlers make to their locals.
LEMMA StartType ==
    ASSUME NEW op \in Operations, NEW pc \in Steps, NEW at \in 0 .. MaxNow
    PROVE  [Idle EXCEPT !.op = op, !.pc = pc, !.at = at] \in CallRecord
  BY IdleType DEF CallRecord

LEMMA PcType ==
    ASSUME NEW k \in CallRecord, NEW pc \in Steps
    PROVE  [k EXCEPT !.pc = pc] \in CallRecord
  BY DEF CallRecord

LEMMA DetectType ==
    ASSUME NEW k \in CallRecord, NEW pc \in Steps, NEW s \in Nat, NEW c \in Nat
    PROVE  [k EXCEPT !.pc = pc, !.sup = s, !.con = c] \in CallRecord
  BY DEF CallRecord

LEMMA ReadType ==
    ASSUME NEW k \in CallRecord, NEW pc \in Steps, NEW row \in CandidateRow
    PROVE  [k EXCEPT !.pc = pc, !.row = row] \in CallRecord
  BY DEF CallRecord

LEMMA BeginType ==
    ASSUME NEW k \in CallRecord, NEW pc \in Steps, NEW s \in Nat, NEW c \in Nat,
           NEW verdict \in Statuses
    PROVE  [k EXCEPT !.verdict = verdict, !.sup = s, !.con = c, !.pc = pc] \in CallRecord
  BY DEF CallRecord

LEMMA FoundType ==
    ASSUME NEW k \in CallRecord, NEW pc \in Steps, NEW r \in 0 .. MaxRecords
    PROVE  /\ [k EXCEPT !.pc = pc, !.record = r] \in CallRecord
           /\ [k EXCEPT !.record = r, !.pc = pc] \in CallRecord
  BY DEF CallRecord

\* The edits of the candidate row.
LEMMA StatusType ==
    ASSUME NEW row \in CandidateRow, NEW status \in Statuses
    PROVE  /\ [row EXCEPT !.status = status] \in CandidateRow
           /\ [row EXCEPT !.status = status].status = status
  BY DEF CandidateRow

LEMMA RefreshType ==
    ASSUME NEW row \in CandidateRow, NEW s \in Nat, NEW c \in Nat
    PROVE  [row EXCEPT !.sup = s, !.con = c, !.old = FALSE] \in CandidateRow
  BY DEF CandidateRow

LEMMA AfreshType ==
    ASSUME NEW s \in Nat, NEW c \in Nat
    PROVE  [status |-> "candidate", sup |-> s, con |-> c, inference |-> 0, old |-> FALSE]
               \in CandidateRow
  BY BoundsAssumption DEF CandidateRow, Statuses

LEMMA VerdictType ==
    ASSUME NEW row \in CandidateRow, NEW status \in Statuses, NEW s \in Nat, NEW c \in Nat,
           NEW r \in 0 .. MaxRecords
    PROVE  /\ [row EXCEPT !.status = status, !.inference = r] \in CandidateRow
           /\ [row EXCEPT !.status = status, !.sup = s, !.con = c, !.inference = r]
                  \in CandidateRow
  BY DEF CandidateRow

LEMMA AgedType ==
    ASSUME NEW row \in CandidateRow
    PROVE  [row EXCEPT !.old = TRUE] \in CandidateRow
  BY DEF CandidateRow

\* Rows of context_records.
LEMMA NewRecordType ==
    ASSUME NEW a \in {"AI_INFERRED", "USER_CONFIRMED"}, NEW e \in Nat,
           NEW old \in 0 .. MaxRecords, NEW at \in 0 .. MaxNow
    PROVE  NewRecord(a, e, old, at) \in RecordRow
  BY DEF NewRecord, RecordRow

LEMMA RecordStatusType ==
    ASSUME NEW row \in RecordRow, NEW st \in {"superseded", "rejected", "removed"}
    PROVE  /\ [row EXCEPT !.status = st] \in RecordRow
           /\ [row EXCEPT !.status = st].authority = row.authority
  BY DEF RecordRow

LEMMA Rewritten ==
    ASSUME NEW s \in Seq(RecordRow), NEW r \in DOMAIN s, NEW row \in RecordRow
    PROVE  /\ [s EXCEPT ![r] = row] \in Seq(RecordRow)
           /\ Len([s EXCEPT ![r] = row]) = Len(s)
           /\ DOMAIN [s EXCEPT ![r] = row] = DOMAIN s
           /\ [s EXCEPT ![r] = row][r] = row
           /\ \A q \in DOMAIN s : q # r => [s EXCEPT ![r] = row][q] = s[q]
  BY ExceptSeq

LEMMA Appended ==
    ASSUME NEW s \in Seq(RecordRow), NEW row \in RecordRow
    PROVE  /\ Append(s, row) \in Seq(RecordRow)
           /\ Len(Append(s, row)) = Len(s) + 1
           /\ DOMAIN s \subseteq DOMAIN Append(s, row)
           /\ Len(s) + 1 \in DOMAIN Append(s, row)
           /\ Append(s, row)[Len(s) + 1] = row
           /\ \A q \in DOMAIN s : Append(s, row)[q] = s[q]
  BY AppendProperties

\* reject_record changes a status and nothing else.
LEMMA RejectedStep ==
    ASSUME TypeOK, NEW r \in 0 .. MaxRecords, records' = Rejected(r)
    PROVE  /\ records' \in Seq(RecordRow) /\ Len(records') <= MaxRecords
           /\ DOMAIN records' = DOMAIN records
           /\ \A q \in DOMAIN records : /\ q # r => records'[q] = records[q]
                                        /\ records'[q].authority = records[q].authority
  <1>1. records \in Seq(RecordRow) /\ Len(records) <= MaxRecords
    BY DEF TypeOK
  <1>2. CASE ~Active(r)
    BY <1>1, <1>2 DEF Rejected
  <1>3. CASE Active(r)
    <2> DEFINE row == [records[r] EXCEPT !.status = "rejected"]
    <2>1. r \in DOMAIN records /\ records' = [records EXCEPT ![r] = row]
      BY <1>3 DEF Active, Rejected
    <2>2. records[r] \in RecordRow
      BY <1>1, <2>1, ElementOfSeq
    <2>3. row \in RecordRow /\ row.authority = records[r].authority
      BY <2>2, RecordStatusType
    <2> HIDE DEF row
    <2> QED
      BY <1>1, <2>1, <2>3, Rewritten
  <1> QED
    BY <1>2, <1>3

----------------------------------------------------------------------------
(* The inductive invariant: what a handler took from a row it read some    *)
(* closures ago still holds when it acts on it.                            *)

\* r is a record that learning itself has written.
Inferred(rs, r) == r \in DOMAIN rs /\ rs[r].authority = "AI_INFERRED"

\* The row an evaluation retires or a confirmation replaces was accepted when
\* it was read, and accepted rows link inferences; so do the records found.
CallLinked(rs, k) ==
    /\ k.row.status = "accepted" => Inferred(rs, k.row.inference)
    /\ k.pc = "persist" /\ k.op = "confirm" => k.row.status = "accepted"
    /\ k.pc = "retire" /\ k.op # "reject" => k.row.status = "accepted" /\ k.verdict # "accepted"
    /\ k.record # 0 /\ k.op # "confirm" => Inferred(rs, k.record)
    /\ k.pc = "mark" /\ k.op \notin {"confirm", "reject"} /\ k.verdict = "accepted"
          => k.record # 0
    /\ k.pc \in {"begin", "lookup"} => k.op \notin {"confirm", "reject"}

Backlinks ==
    /\ cand.status = "accepted" => Inferred(records, cand.inference)
    /\ \A w \in Workers : CallLinked(records, call[w])

\* Records are never dropped and never change their authority.
RecordsKept ==
    /\ DOMAIN records \subseteq DOMAIN records'
    /\ \A q \in DOMAIN records : records'[q].authority = records[q].authority

LEMMA KeptInferred ==
    ASSUME RecordsKept, NEW r, Inferred(records, r)
    PROVE  Inferred(records', r)
  BY DEF RecordsKept, Inferred

LEMMA KeptCall ==
    ASSUME RecordsKept, NEW k, CallLinked(records, k)
    PROVE  CallLinked(records', k)
  BY DEF RecordsKept, CallLinked, Inferred

LEMMA IdleLinked == CallLinked(records', Idle)
  BY DEF CallLinked, Idle, NoRow

LEMMA UnchangedKept ==
    ASSUME records' = records
    PROVE  RecordsKept
  BY DEF RecordsKept

\* One handler moves from call[w] to k.
LEMMA StepInv ==
    ASSUME TypeOK, Backlinks, NEW w \in Workers, NEW k \in CallRecord,
           call' = [call EXCEPT ![w] = k], CallLinked(records', k), RecordsKept,
           records' \in Seq(RecordRow), Len(records') <= MaxRecords,
           cand' \in CandidateRow,
           cand'.status = "accepted" => Inferred(records', cand'.inference),
           support' = support, contra' = contra, home' = home, now' = now, cut' \in BOOLEAN,
           missed' \in 0 .. MaxMissed
    PROVE  TypeOK' /\ Backlinks'
  <1>1. call \in [Workers -> CallRecord]
    BY DEF TypeOK
  <1>2. call' \in [Workers -> CallRecord]
    BY <1>1
  <1>3. TypeOK'
    BY <1>2 DEF TypeOK
  <1>4. ASSUME NEW v \in Workers PROVE CallLinked(records', call'[v])
    <2>1. CASE v = w
      <3>1. call'[v] = k
        BY <1>1, <2>1
      <3> QED
        BY <3>1 DEF CallLinked, Inferred
    <2>2. CASE v # w
      <3>1. call'[v] = call[v]
        BY <1>1, <2>2
      <3>2. CallLinked(records, call[v])
        BY DEF Backlinks
      <3> QED
        BY <3>1, <3>2 DEF CallLinked, Inferred, RecordsKept
    <2> QED
      BY <2>1, <2>2
  <1> QED
    BY <1>3, <1>4 DEF Backlinks

----------------------------------------------------------------------------
(* One lemma per kind of step *)

\* Steps that touch no record.
LEMMA StartInv ==
    ASSUME TypeOK, Backlinks, NEW w \in Workers, NEW op \in Operations, NEW pc \in Steps,
           Start(w, op, pc), pc \in {"sweep", "detect", "read"}
    PROVE  TypeOK' /\ Backlinks'
  <1> DEFINE k == [Idle EXCEPT !.op = op, !.pc = pc, !.at = now]
  <1>1. now \in 0 .. MaxNow
    BY DEF TypeOK
  <1>2. k \in CallRecord
    BY <1>1, StartType
  <1>3. CallLinked(records', k)
    BY DEF CallLinked, Idle, NoRow
  <1>4. call' = [call EXCEPT ![w] = k] /\ records' = records /\ cand' = cand
    BY DEF Start
  <1>5. cand'.status = "accepted" => Inferred(records', cand'.inference)
    BY <1>4 DEF Backlinks, Inferred
  <1> HIDE DEF k
  <1> QED
    BY <1>2, <1>3, <1>4, <1>5, StepInv, UnchangedKept DEF Start, TypeOK

LEMMA ReturnInv ==
    ASSUME TypeOK, Backlinks, NEW w \in Workers, Return(w), RecordsKept,
           records' \in Seq(RecordRow), Len(records') <= MaxRecords,
           cand' \in CandidateRow,
           cand'.status = "accepted" => Inferred(records', cand'.inference),
           support' = support, contra' = contra, home' = home, now' = now, cut' \in BOOLEAN,
           missed' \in 0 .. MaxMissed
    PROVE  TypeOK' /\ Backlinks'
  <1>1. call' = [call EXCEPT ![w] = Idle]
    BY DEF Return
  <1> QED
    BY <1>1, IdleType, IdleLinked, StepInv

\* The handler only moves on, to a step at which nothing is expected of it.
LEMMA GotoInv ==
    ASSUME TypeOK, Backlinks, NEW w \in Workers, NEW pc \in Steps, Goto(w, pc), RecordsKept,
           \/ pc \in {"detect", "read"}
           \/ pc = "mark" /\ call[w].pc = "retire"
           \/ pc = "persist" /\ call[w].op # "confirm",
           records' \in Seq(RecordRow), Len(records') <= MaxRecords,
           cand' \in CandidateRow,
           cand'.status = "accepted" => Inferred(records', cand'.inference),
           support' = support, contra' = contra, home' = home, now' = now, cut' \in BOOLEAN,
           missed' \in 0 .. MaxMissed
    PROVE  TypeOK' /\ Backlinks'
  <1> DEFINE k == [call[w] EXCEPT !.pc = pc]
  <1>1. call[w] \in CallRecord /\ CallLinked(records, call[w])
    BY DEF TypeOK, Backlinks
  <1>2. k \in CallRecord
    BY <1>1, PcType
  <1>3. CallLinked(records, k)
    BY <1>1 DEF CallLinked, CallRecord
  <1>4. call' = [call EXCEPT ![w] = k]
    BY DEF Goto
  <1> HIDE DEF k
  <1>5. CallLinked(records', k)
    BY <1>3, KeptCall
  <1> QED
    BY <1>2, <1>4, <1>5, StepInv

LEMMA SweepInv ==
    ASSUME TypeOK, Backlinks, NEW w \in Workers, Sweep(w)
    PROVE  TypeOK' /\ Backlinks'
  <1>1. "expired" \in Statuses /\ "detect" \in Steps
    BY DEF Statuses, Steps
  <1>2. cand \in CandidateRow /\ [cand EXCEPT !.status = "expired"] \in CandidateRow
    BY <1>1, StatusType DEF TypeOK
  <1>3. cand' \in CandidateRow
    BY <1>2 DEF Sweep
  <1>4. cand'.status = "accepted" => cand' = cand
    BY <1>2 DEF Sweep, CandidateRow
  <1>5. cand'.status = "accepted" => Inferred(records', cand'.inference)
    BY <1>4 DEF Sweep, Backlinks, Inferred
  <1> QED
    BY <1>1, <1>3, <1>5, GotoInv, UnchangedKept DEF Sweep, TypeOK

LEMMA DetectInv ==
    ASSUME TypeOK, Backlinks, NEW w \in Workers, Detect(w)
    PROVE  TypeOK' /\ Backlinks'
  <1>1. cand'.status = "accepted" => Inferred(records', cand'.inference)
    BY DEF Detect, Backlinks, Inferred
  <1>2. CASE Return(w)
    BY <1>1, <1>2, ReturnInv, UnchangedKept DEF Detect, TypeOK
  <1>3. CASE call' = [call EXCEPT ![w].pc = "upsert", ![w].sup = support, ![w].con = contra]
    <2> DEFINE k == [call[w] EXCEPT !.pc = "upsert", !.sup = support, !.con = contra]
    <2>1. call[w] \in CallRecord /\ CallLinked(records, call[w])
      BY DEF TypeOK, Backlinks
    <2>2. support \in Nat /\ contra \in Nat /\ "upsert" \in Steps
      BY DEF TypeOK, Steps
    <2>3. k \in CallRecord
      BY <2>1, <2>2, DetectType
    <2>4. CallLinked(records', k)
      BY <2>1 DEF CallLinked, CallRecord, Detect
    <2>5. call' = [call EXCEPT ![w] = k]
      BY <1>3
    <2> HIDE DEF k
    <2> QED
      BY <1>1, <2>3, <2>4, <2>5, StepInv, UnchangedKept DEF Detect, TypeOK
  <1> QED
    BY <1>2, <1>3 DEF Detect

LEMMA UpsertInv ==
    ASSUME TypeOK, Backlinks, NEW w \in Workers, Upsert(w)
    PROVE  TypeOK' /\ Backlinks'
  <1> DEFINE s == call[w].sup
             c == call[w].con
  <1>1. s \in Nat /\ c \in Nat /\ cand \in CandidateRow
    BY DEF TypeOK, CallRecord
  <1> HIDE DEF s, c
  <1>2. cand' = Upserted(s, c)
    BY DEF Upsert, s, c
  <1>3. /\ [cand EXCEPT !.sup = s, !.con = c, !.old = FALSE] \in CandidateRow
        /\ [status |-> "candidate", sup |-> s, con |-> c, inference |-> 0, old |-> FALSE]
               \in CandidateRow
    BY <1>1, RefreshType, AfreshType
  <1>4. cand' \in CandidateRow
    BY <1>1, <1>2, <1>3 DEF Upserted
  <1>5. cand'.status = "accepted" => cand.status = "accepted" /\ cand'.inference = cand.inference
    BY <1>1, <1>2 DEF Upserted, CandidateRow
  <1>6. cand'.status = "accepted" => Inferred(records', cand'.inference)
    BY <1>5 DEF Upsert, Backlinks, Inferred
  <1>7. "read" \in Steps
    BY DEF Steps
  <1>8. CASE Goto(w, "read")
    BY <1>4, <1>6, <1>7, <1>8, GotoInv, UnchangedKept DEF Upsert, TypeOK
  <1>9. CASE Return(w)
    BY <1>4, <1>6, <1>9, ReturnInv, UnchangedKept DEF Upsert, TypeOK
  <1> QED
    BY <1>8, <1>9 DEF Upsert

LEMMA ReadInv ==
    ASSUME TypeOK, Backlinks, NEW w \in Workers, ReadCandidate(w)
    PROVE  TypeOK' /\ Backlinks'
  <1>1. cand'.status = "accepted" => Inferred(records', cand'.inference)
    BY DEF ReadCandidate, Backlinks, Inferred
  <1>2. CASE Return(w)
    BY <1>1, <1>2, ReturnInv, UnchangedKept DEF ReadCandidate, TypeOK
  <1>3. CASE ~Return(w)
    <2> DEFINE next == CASE call[w].op = "confirm" -> "persist"
                         [] call[w].op = "reject" -> "retire"
                         [] OTHER -> "begin"
               k == [call[w] EXCEPT !.pc = next, !.row = cand]
    <2>1. call[w] \in CallRecord /\ CallLinked(records, call[w]) /\ cand \in CandidateRow
      BY DEF TypeOK, Backlinks
    <2>2. next \in Steps
      BY DEF Steps
    <2>3. k \in CallRecord
      BY <2>1, <2>2, ReadType
    <2>4. call' = [call EXCEPT ![w] = k]
      BY <1>3 DEF ReadCandidate
    <2>5. call[w].op = "confirm" => cand.status = "accepted"
      BY <1>3 DEF ReadCandidate
    <2>6. /\ next = "persist" <=> call[w].op = "confirm"
          /\ next = "retire" <=> call[w].op = "reject"
          /\ next = "begin" <=> call[w].op \notin {"confirm", "reject"}
          /\ next \notin {"mark", "lookup"}
      OBVIOUS
    <2> HIDE DEF next
    <2>7. /\ k.pc = next /\ k.row = cand /\ k.op = call[w].op /\ k.record = call[w].record
      BY <2>1 DEF CallRecord
    <2>8. records' = records
      BY DEF ReadCandidate
    <2> HIDE DEF k
    <2>9. CallLinked(records', k)
      BY <2>1, <2>5, <2>6, <2>7, <2>8 DEF CallLinked, Backlinks, Inferred
    <2> QED
      BY <1>1, <2>3, <2>4, <2>9, StepInv, UnchangedKept DEF ReadCandidate, TypeOK
  <1> QED
    BY <1>2, <1>3

LEMMA VerdictsType ==
    ASSUME NEW s \in Nat, NEW c \in Nat, NEW verdict \in Verdicts(s, c)
    PROVE  verdict \in {"accepted", "deferred", "rejected"}
  <1>1. MinSupport \in Nat
    BY BoundsAssumption
  <1> QED
    BY <1>1 DEF Verdicts

LEMMA BeginInv ==
    ASSUME TypeOK, Backlinks, NEW w \in Workers, BeginEvaluation(w)
    PROVE  TypeOK' /\ Backlinks'
  <1> DEFINE s == Voiced(call[w].row.sup, support)
             c == Voiced(call[w].row.con, contra)
  <1>1. call[w] \in CallRecord /\ CallLinked(records, call[w]) /\ cand \in CandidateRow
    BY DEF TypeOK, Backlinks
  <1>2. s \in Nat /\ c \in Nat
    BY <1>1 DEF TypeOK, CallRecord, CandidateRow, Voiced
  <1>3. PICK verdict \in Verdicts(s, c) :
           call' = [call EXCEPT ![w].verdict = verdict, ![w].sup = s, ![w].con = c,
                      ![w].pc = IF verdict = "accepted" THEN "lookup"
                                ELSE IF call[w].row.status = "accepted" THEN "retire"
                                ELSE "mark"]
    BY DEF BeginEvaluation
  <1>4. verdict \in {"accepted", "deferred", "rejected"}
    BY <1>2, <1>3, VerdictsType
  <1> HIDE DEF s, c
  <1> DEFINE next == IF verdict = "accepted" THEN "lookup"
                     ELSE IF call[w].row.status = "accepted" THEN "retire" ELSE "mark"
             k == [call[w] EXCEPT !.verdict = verdict, !.sup = s, !.con = c, !.pc = next]
  <1>5. next \in Steps /\ verdict \in Statuses
    BY <1>4 DEF Steps, Statuses
  <1>6. k \in CallRecord
    BY <1>1, <1>2, <1>5, BeginType
  <1>7. call' = [call EXCEPT ![w] = k]
    BY <1>3
  <1>8. /\ k.pc = next /\ k.row = call[w].row /\ k.op = call[w].op
        /\ k.record = call[w].record /\ k.verdict = verdict
    BY <1>1 DEF CallRecord
  <1>9. call[w].op \notin {"confirm", "reject"} /\ records' = records
    BY <1>1 DEF BeginEvaluation, CallLinked
  <1> HIDE DEF k
  <1>10. CallLinked(records', k)
    BY <1>1, <1>8, <1>9 DEF CallLinked
  <1>11. cand' = [cand EXCEPT !.status = "evaluating"] /\ "evaluating" \in Statuses
    BY DEF BeginEvaluation, Statuses
  <1>12. cand' \in CandidateRow /\ cand'.status = "evaluating"
    BY <1>1, <1>11, StatusType
  <1> QED
    BY <1>6, <1>7, <1>10, <1>12, StepInv, UnchangedKept DEF BeginEvaluation, TypeOK

LEMMA LookupInv ==
    ASSUME TypeOK, Backlinks, NEW w \in Workers, Lookup(w)
    PROVE  TypeOK' /\ Backlinks'
  <1>1. call[w] \in CallRecord /\ CallLinked(records, call[w])
    BY DEF TypeOK, Backlinks
  <1>2. cand'.status = "accepted" => Inferred(records', cand'.inference)
    BY DEF Lookup, Backlinks, Inferred
  <1>3. call[w].op \notin {"confirm", "reject"} /\ records' = records
    BY <1>1 DEF Lookup, CallLinked
  <1>6. missed' \in 0 .. MaxMissed
    BY BoundsAssumption DEF Lookup, TypeOK
  <1>4. CASE Goto(w, "persist")
    <2>1. "persist" \in Steps
      BY DEF Steps
    <2> QED
      BY <1>2, <1>3, <1>4, <1>6, <2>1, GotoInv, UnchangedKept DEF Lookup, TypeOK
  <1>5. ASSUME NEW r \in Inferences,
               call' = [call EXCEPT ![w].record = r,
                          ![w].pc = IF r = call[w].row.inference /\ call[w].row.sup = call[w].sup
                                    THEN "mark" ELSE "persist"]
        PROVE  TypeOK' /\ Backlinks'
    <2> DEFINE next == IF r = call[w].row.inference /\ call[w].row.sup = call[w].sup
                       THEN "mark" ELSE "persist"
               k == [call[w] EXCEPT !.record = r, !.pc = next]
    <2>1. next \in Steps /\ next \in {"mark", "persist"}
      BY DEF Steps
    <2>2. Inferred(records, r) /\ records \in Seq(RecordRow) /\ Len(records) <= MaxRecords
      BY DEF Inferences, Inferred, TypeOK
    <2>3. r \in 0 .. MaxRecords /\ r # 0
      BY <2>2, BoundsAssumption DEF Inferred
    <2>4. k \in CallRecord
      BY <1>1, <2>1, <2>3, FoundType
    <2>5. call' = [call EXCEPT ![w] = k]
      BY <1>5
    <2> HIDE DEF next
    <2>6. k.pc = next /\ k.row = call[w].row /\ k.op = call[w].op /\ k.record = r
      BY <1>1 DEF CallRecord
    <2> HIDE DEF k
    <2>7. CallLinked(records', k)
      BY <1>1, <1>3, <2>1, <2>2, <2>3, <2>6 DEF CallLinked
    <2> QED
      BY <1>2, <1>6, <2>4, <2>5, <2>7, StepInv, UnchangedKept DEF Lookup, TypeOK
  <1> QED
    BY <1>4, <1>5 DEF Lookup

\* A handler that has written its record goes on to the closing update.
LEMMA WrittenInv ==
    ASSUME TypeOK, Backlinks, NEW w \in Workers, NEW r \in 0 .. MaxRecords, r # 0,
           call' = [call EXCEPT ![w].pc = "mark", ![w].record = r], RecordsKept,
           call[w].op # "confirm" => Inferred(records', r),
           records' \in Seq(RecordRow), Len(records') <= MaxRecords,
           cand' = cand, support' = support, contra' = contra, home' = home, now' = now,
           missed' = missed, cut' = cut
    PROVE  TypeOK' /\ Backlinks'
  <1> DEFINE k == [call[w] EXCEPT !.pc = "mark", !.record = r]
  <1>1. call[w] \in CallRecord /\ CallLinked(records', call[w])
    BY KeptCall DEF TypeOK, Backlinks
  <1>2. "mark" \in Steps
    BY DEF Steps
  <1>3. k \in CallRecord
    BY <1>1, <1>2, FoundType
  <1>4. call' = [call EXCEPT ![w] = k]
    OBVIOUS
  <1>5. k.pc = "mark" /\ k.row = call[w].row /\ k.op = call[w].op /\ k.record = r
    BY <1>1 DEF CallRecord
  <1> HIDE DEF k
  <1>6. CallLinked(records', k)
    BY <1>1, <1>5 DEF CallLinked
  <1>7. cand'.status = "accepted" => Inferred(records', cand'.inference)
    BY KeptInferred DEF Backlinks
  <1> QED
    BY <1>3, <1>4, <1>6, <1>7, StepInv DEF TypeOK

LEMMA AppendKept ==
    ASSUME TypeOK, Len(records) < MaxRecords, NEW row \in RecordRow,
           records' = Append(records, row)
    PROVE  /\ RecordsKept
           /\ records' \in Seq(RecordRow) /\ Len(records') <= MaxRecords
           /\ Len(records) + 1 \in 0 .. MaxRecords /\ Len(records) + 1 # 0
           /\ Len(records) + 1 \in DOMAIN records'
           /\ records'[Len(records) + 1] = row
           /\ \A q \in DOMAIN records : records'[q] = records[q]
  <1>1. records \in Seq(RecordRow) /\ Len(records) \in Nat /\ MaxRecords \in Nat
    BY BoundsAssumption DEF TypeOK
  <1> QED
    BY <1>1, Appended DEF RecordsKept

LEMMA RewriteKept ==
    ASSUME TypeOK, NEW r \in DOMAIN records, NEW row \in RecordRow,
           row.authority = records[r].authority, records' = [records EXCEPT ![r] = row]
    PROVE  /\ RecordsKept
           /\ records' \in Seq(RecordRow) /\ Len(records') <= MaxRecords
           /\ records'[r] = row
           /\ \A q \in DOMAIN records : q # r => records'[q] = records[q]
  <1>1. records \in Seq(RecordRow) /\ Len(records) <= MaxRecords
    BY DEF TypeOK
  <1> QED
    BY <1>1, Rewritten DEF RecordsKept

\* put_record writes an inference: a new row, or the inference of that id.
LEMMA PutStep ==
    ASSUME TypeOK, Backlinks, NEW w \in Workers, PutInference(w)
    PROVE  /\ TypeOK' /\ Backlinks'
           /\ \A q \in DOMAIN records :
                 records[q].authority = "USER_CONFIRMED" => records'[q] = records[q]
  <1> DEFINE new == NewRecord("AI_INFERRED", call[w].sup, 0, call[w].at)
  <1>1. call[w] \in CallRecord
    BY DEF TypeOK
  <1>2. call[w].sup \in Nat /\ call[w].at \in 0 .. MaxNow /\ 0 \in 0 .. MaxRecords
    BY <1>1, BoundsAssumption DEF CallRecord
  <1>3. new \in RecordRow
    BY <1>2, NewRecordType
  <1>4. new.authority = "AI_INFERRED"
    BY DEF NewRecord
  <1>5. \/ \E r \in SameId(call[w].at) :
              /\ records' = [records EXCEPT ![r] = new]
              /\ call' = [call EXCEPT ![w].pc = "mark", ![w].record = r]
        \/ /\ Len(records) < MaxRecords
           /\ records' = Append(records, new)
           /\ call' = [call EXCEPT ![w].pc = "mark", ![w].record = Len(records) + 1]
    BY DEF PutInference
  <1> HIDE DEF new
  <1>6. ASSUME NEW r \in SameId(call[w].at),
               records' = [records EXCEPT ![r] = new],
               call' = [call EXCEPT ![w].pc = "mark", ![w].record = r]
        PROVE  /\ TypeOK' /\ Backlinks'
               /\ \A q \in DOMAIN records :
                     records[q].authority = "USER_CONFIRMED" => records'[q] = records[q]
    <2>1. r \in DOMAIN records /\ records[r].authority = "AI_INFERRED"
      BY DEF SameId
    <2>2. r \in 0 .. MaxRecords /\ r # 0
      BY <2>1, BoundsAssumption DEF TypeOK
    <2>3. /\ RecordsKept /\ records' \in Seq(RecordRow) /\ Len(records') <= MaxRecords
          /\ \A q \in DOMAIN records : q # r => records'[q] = records[q]
      BY <1>3, <1>4, <1>6, <2>1, RewriteKept
    <2>4. Inferred(records', r)
      BY <2>1, <2>3 DEF RecordsKept, Inferred
    <2>5. TypeOK' /\ Backlinks'
      BY <1>6, <2>2, <2>3, <2>4, WrittenInv DEF PutInference
    <2> QED
      BY <2>1, <2>3, <2>5
  <1>7. ASSUME Len(records) < MaxRecords, records' = Append(records, new),
               call' = [call EXCEPT ![w].pc = "mark", ![w].record = Len(records) + 1]
        PROVE  /\ TypeOK' /\ Backlinks'
               /\ \A q \in DOMAIN records : records'[q] = records[q]
    <2> DEFINE r == Len(records) + 1
    <2>1. /\ RecordsKept /\ records' \in Seq(RecordRow) /\ Len(records') <= MaxRecords
          /\ r \in 0 .. MaxRecords /\ r # 0
          /\ r \in DOMAIN records' /\ records'[r] = new
          /\ \A q \in DOMAIN records : records'[q] = records[q]
      BY <1>3, <1>7, AppendKept
    <2>2. Inferred(records', r)
      BY <1>4, <2>1 DEF Inferred
    <2>3. call' = [call EXCEPT ![w].pc = "mark", ![w].record = r]
      BY <1>7
    <2> HIDE DEF r
    <2>4. TypeOK' /\ Backlinks'
      BY <2>1, <2>2, <2>3, WrittenInv DEF PutInference
    <2> QED
      BY <2>1, <2>4
  <1> QED
    BY <1>5, <1>6, <1>7

\* supersede_impl replaces an inference and nothing else.
LEMMA ReplacedKept ==
    ASSUME TypeOK, NEW old \in DOMAIN records, NEW new \in RecordRow,
           Len(records) < MaxRecords, records' = Replaced(old, new)
    PROVE  /\ RecordsKept
           /\ records' \in Seq(RecordRow) /\ Len(records') <= MaxRecords
           /\ Len(records) + 1 \in 0 .. MaxRecords /\ Len(records) + 1 # 0
           /\ Len(records) + 1 \in DOMAIN records'
           /\ records'[Len(records) + 1] = new
           /\ \A q \in DOMAIN records : q # old => records'[q] = records[q]
  <1> DEFINE row == [records[old] EXCEPT !.status = "superseded"]
             mid == [records EXCEPT ![old] = row]
  <1>1. records \in Seq(RecordRow) /\ Len(records) \in Nat /\ MaxRecords \in Nat
    BY BoundsAssumption DEF TypeOK
  <1>2. records[old] \in RecordRow
    BY <1>1, ElementOfSeq
  <1>3. row \in RecordRow /\ row.authority = records[old].authority
    BY <1>2, RecordStatusType
  <1>4. records' = Append(mid, new)
    BY DEF Replaced
  <1> HIDE DEF row
  <1>5. /\ mid \in Seq(RecordRow) /\ Len(mid) = Len(records) /\ DOMAIN mid = DOMAIN records
        /\ mid[old] = row /\ \A q \in DOMAIN records : q # old => mid[q] = records[q]
    BY <1>1, <1>3, Rewritten
  <1> HIDE DEF mid
  <1>6. /\ records' \in Seq(RecordRow) /\ Len(records') = Len(mid) + 1
        /\ DOMAIN mid \subseteq DOMAIN records'
        /\ Len(mid) + 1 \in DOMAIN records' /\ records'[Len(mid) + 1] = new
        /\ \A q \in DOMAIN mid : records'[q] = mid[q]
    BY <1>4, <1>5, Appended
  <1>7. RecordsKept
    BY <1>3, <1>5, <1>6 DEF RecordsKept
  <1> QED
    BY <1>1, <1>5, <1>6, <1>7

LEMMA SupersedeStep ==
    ASSUME TypeOK, Backlinks, NEW w \in Workers, Supersede(w)
    PROVE  /\ TypeOK' /\ Backlinks'
           /\ \A q \in DOMAIN records :
                 records[q].authority = "USER_CONFIRMED" => records'[q] = records[q]
  <1> DEFINE confirm == call[w].op = "confirm"
             old == IF confirm THEN call[w].row.inference ELSE call[w].record
             new == IF confirm
                    THEN NewRecord("USER_CONFIRMED", records[old].evidence, old, call[w].at)
                    ELSE NewRecord("AI_INFERRED", call[w].sup, old, call[w].at)
  <1>1. call[w] \in CallRecord /\ CallLinked(records, call[w])
    BY DEF TypeOK, Backlinks
  <1>2. call[w].pc = "persist" /\ (confirm \/ call[w].record # 0)
    BY DEF Supersede
  <1>3. Inferred(records, old)
    BY <1>1, <1>2 DEF CallLinked
  <1>4. \/ /\ Len(records) < MaxRecords
           /\ records' = Replaced(old, new)
           /\ call' = [call EXCEPT ![w].pc = "mark", ![w].record = Len(records) + 1]
        \/ Return(w) /\ UNCHANGED records
    BY DEF Supersede
  <1>5. CASE Return(w) /\ UNCHANGED records
    <2>1. cand'.status = "accepted" => Inferred(records', cand'.inference)
      BY <1>5 DEF Supersede, Backlinks, Inferred
    <2>2. TypeOK' /\ Backlinks'
      BY <1>5, <2>1, ReturnInv, UnchangedKept DEF Supersede, TypeOK
    <2> QED
      BY <1>5, <2>2
  <1>6. CASE /\ Len(records) < MaxRecords
             /\ records' = Replaced(old, new)
             /\ call' = [call EXCEPT ![w].pc = "mark", ![w].record = Len(records) + 1]
    <2> DEFINE r == Len(records) + 1
    <2>1. old \in DOMAIN records /\ records[old].authority = "AI_INFERRED"
      BY <1>3 DEF Inferred
    <2>2. records[old] \in RecordRow /\ old \in 0 .. MaxRecords
      BY <2>1, BoundsAssumption, ElementOfSeq DEF TypeOK
    <2>3. /\ records[old].evidence \in Nat /\ call[w].sup \in Nat
          /\ call[w].at \in 0 .. MaxNow
      BY <1>1, <2>2 DEF RecordRow, CallRecord
    <2> HIDE DEF old
    <2>4. /\ NewRecord("USER_CONFIRMED", records[old].evidence, old, call[w].at) \in RecordRow
          /\ NewRecord("AI_INFERRED", call[w].sup, old, call[w].at) \in RecordRow
      BY <2>2, <2>3, NewRecordType
    <2>5. new \in RecordRow
      BY <2>4
    <2>6. ~confirm => new.authority = "AI_INFERRED"
      BY DEF NewRecord
    <2> HIDE DEF new
    <2>7. /\ RecordsKept /\ records' \in Seq(RecordRow) /\ Len(records') <= MaxRecords
          /\ r \in 0 .. MaxRecords /\ r # 0
          /\ r \in DOMAIN records' /\ records'[r] = new
          /\ \A q \in DOMAIN records : q # old => records'[q] = records[q]
      BY <1>6, <2>1, <2>5, ReplacedKept
    <2>8. call[w].op # "confirm" => Inferred(records', r)
      BY <2>6, <2>7 DEF Inferred
    <2>9. call' = [call EXCEPT ![w].pc = "mark", ![w].record = r]
      BY <1>6
    <2> HIDE DEF r
    <2>10. TypeOK' /\ Backlinks'
      BY <2>7, <2>8, <2>9, WrittenInv DEF Supersede
    <2> QED
      BY <2>1, <2>7, <2>10
  <1> QED
    BY <1>4, <1>5, <1>6

\* Retire changes the linked record only; that is an inference unless the
\* user rejects.
LEMMA RetireStep ==
    ASSUME TypeOK, Backlinks, NEW w \in Workers, Retire(w)
    PROVE  /\ TypeOK' /\ Backlinks'
           /\ \/ call[w].op = "reject" /\ call'[w] # call[w]
              \/ \A q \in DOMAIN records :
                    records[q].authority = "USER_CONFIRMED" => records'[q] = records[q]
  <1> DEFINE r == call[w].row.inference
  <1>1. call[w] \in CallRecord /\ CallLinked(records, call[w])
    BY DEF TypeOK, Backlinks
  <1>2. r \in 0 .. MaxRecords /\ records' = Rejected(r)
    BY <1>1 DEF CallRecord, CandidateRow, Retire
  <1>3. call[w].op # "reject" => Inferred(records, r)
    BY <1>1 DEF Retire, CallLinked
  <1> HIDE DEF r
  <1>4. /\ records' \in Seq(RecordRow) /\ Len(records') <= MaxRecords
        /\ DOMAIN records' = DOMAIN records
        /\ \A q \in DOMAIN records : /\ q # r => records'[q] = records[q]
                                     /\ records'[q].authority = records[q].authority
    BY <1>2, RejectedStep
  <1>5. RecordsKept
    BY <1>4 DEF RecordsKept
  <1>6. "mark" \in Steps /\ Goto(w, "mark") /\ call[w].pc = "retire"
    BY DEF Steps, Retire
  <1>7. cand'.status = "accepted" => Inferred(records', cand'.inference)
    BY <1>5, KeptInferred DEF Retire, Backlinks
  <1>8. TypeOK' /\ Backlinks'
    BY <1>4, <1>5, <1>6, <1>7, GotoInv DEF Retire, TypeOK
  <1>9. call'[w].pc = "mark"
    BY <1>1, <1>6 DEF Goto, TypeOK, CallRecord
  <1>10. call'[w] # call[w]
    BY <1>6, <1>9
  <1> QED
    BY <1>3, <1>4, <1>8, <1>10 DEF Inferred

LEMMA MarkInv ==
    ASSUME TypeOK, Backlinks, NEW w \in Workers, Mark(w)
    PROVE  TypeOK' /\ Backlinks'
  <1>1. call[w] \in CallRecord /\ CallLinked(records, call[w]) /\ cand \in CandidateRow
    BY DEF TypeOK, Backlinks
  <1>2. /\ call[w].verdict \in Statuses /\ call[w].sup \in Nat /\ call[w].con \in Nat
        /\ call[w].record \in 0 .. MaxRecords /\ cand.inference \in 0 .. MaxRecords
    BY <1>1 DEF CallRecord, CandidateRow
  <1>3. cand' = Marked(w) /\ records' = records
    BY DEF Mark
  <1>4. CASE call[w].op = "confirm"
    <2>1. cand' = [cand EXCEPT !.status = "superseded", !.inference = call[w].record]
      BY <1>3, <1>4 DEF Marked
    <2>2. "superseded" \in Statuses
      BY DEF Statuses
    <2>3. cand' \in CandidateRow /\ cand'.status # "accepted"
      BY <1>1, <1>2, <2>1, <2>2 DEF CandidateRow
    <2> QED
      BY <1>3, <2>3, ReturnInv, UnchangedKept DEF Mark, TypeOK
  <1>5. CASE call[w].op = "reject"
    <2>1. cand' = [cand EXCEPT !.status = "rejected"] /\ "rejected" \in Statuses
      BY <1>3, <1>5 DEF Marked, Statuses
    <2>2. cand' \in CandidateRow /\ cand'.status = "rejected"
      BY <1>1, <2>1, StatusType
    <2> QED
      BY <1>3, <2>2, ReturnInv, UnchangedKept DEF Mark, TypeOK
  <1>6. CASE call[w].op \notin {"confirm", "reject"}
    <2> DEFINE r == IF call[w].verdict = "accepted" THEN call[w].record ELSE cand.inference
    <2>1. cand' = [cand EXCEPT !.status = call[w].verdict, !.sup = call[w].sup,
                      !.con = call[w].con, !.inference = r]
      BY <1>3, <1>6 DEF Marked
    <2>2. r \in 0 .. MaxRecords
      BY <1>2
    <2>3. call[w].verdict = "accepted" => Inferred(records', r)
      BY <1>1, <1>3, <1>6 DEF CallLinked, Mark
    <2> HIDE DEF r
    <2>4. cand' \in CandidateRow
      BY <1>1, <1>2, <2>1, <2>2, VerdictType
    <2>5. cand'.status = call[w].verdict /\ cand'.inference = r
      BY <1>1, <2>1 DEF CandidateRow
    <2> QED
      BY <1>3, <2>3, <2>4, <2>5, ReturnInv, UnchangedKept DEF Mark, TypeOK
  <1> QED
    BY <1>4, <1>5, <1>6

LEMMA CutOffInv ==
    ASSUME TypeOK, Backlinks, NEW w \in Workers, CutOff(w)
    PROVE  TypeOK' /\ Backlinks'
  <1>1. cand'.status = "accepted" => Inferred(records', cand'.inference)
    BY DEF CutOff, Backlinks, Inferred
  <1> QED
    BY <1>1, ReturnInv, UnchangedKept DEF CutOff, TypeOK

\* Steps in which no handler moves.
LEMMA StillInv ==
    ASSUME TypeOK, Backlinks, RecordsKept, call' = call, home' = home, cut' = cut,
           missed' = missed, records' \in Seq(RecordRow), Len(records') <= MaxRecords,
           cand' \in CandidateRow,
           cand'.status = "accepted" => cand.status = "accepted" /\ cand'.inference = cand.inference,
           support' \in 0 .. MaxSupport, contra' \in 0 .. MaxContra, now' \in 0 .. MaxNow
    PROVE  TypeOK' /\ Backlinks'
  <1>1. TypeOK'
    BY DEF TypeOK
  <1>2. cand'.status = "accepted" => Inferred(records', cand'.inference)
    BY KeptInferred DEF Backlinks
  <1>3. ASSUME NEW v \in Workers PROVE CallLinked(records', call'[v])
    BY KeptCall DEF Backlinks
  <1> QED
    BY <1>1, <1>2, <1>3 DEF Backlinks

LEMMA ForgetInv ==
    ASSUME TypeOK, Backlinks, NEW w \in Workers, NEW r \in DOMAIN records, Forget(w, r)
    PROVE  TypeOK' /\ Backlinks'
  <1>1. /\ records \in Seq(RecordRow) /\ r \in 0 .. MaxRecords
        /\ records[r] \in RecordRow
    BY BoundsAssumption, ElementOfSeq DEF TypeOK
  <1>2. CASE records' = Rejected(r)
    <2>1. /\ records' \in Seq(RecordRow) /\ Len(records') <= MaxRecords
          /\ DOMAIN records' = DOMAIN records
          /\ \A q \in DOMAIN records : records'[q].authority = records[q].authority
      BY <1>1, <1>2, RejectedStep
    <2>2. RecordsKept
      BY <2>1 DEF RecordsKept
    <2> QED
      BY <2>1, <2>2, StillInv DEF Forget, TypeOK
  <1>3. CASE records' = [records EXCEPT ![r].status = "removed"]
    <2> DEFINE row == [records[r] EXCEPT !.status = "removed"]
    <2>1. row \in RecordRow /\ row.authority = records[r].authority
      BY <1>1, RecordStatusType
    <2>2. records' = [records EXCEPT ![r] = row]
      BY <1>3
    <2> HIDE DEF row
    <2>3. RecordsKept /\ records' \in Seq(RecordRow) /\ Len(records') <= MaxRecords
      BY <2>1, <2>2, RewriteKept
    <2> QED
      BY <2>3, StillInv DEF Forget, TypeOK
  <1> QED
    BY <1>2, <1>3 DEF Forget

LEMMA SurroundingsInv ==
    ASSUME TypeOK, Backlinks, Observe \/ CandidateAges \/ Tick
    PROVE  TypeOK' /\ Backlinks'
  <1>1. CASE Observe
    <2>1. support' \in 0 .. MaxSupport /\ contra' \in 0 .. MaxContra
      BY <1>1, BoundsAssumption DEF Observe, TypeOK
    <2> QED
      BY <1>1, <2>1, StillInv, UnchangedKept DEF Observe, TypeOK
  <1>2. CASE CandidateAges
    <2>1. cand \in CandidateRow /\ cand' = [cand EXCEPT !.old = TRUE]
      BY <1>2 DEF CandidateAges, TypeOK
    <2>2. cand' \in CandidateRow
      BY <2>1, AgedType
    <2>3. cand'.status = cand.status /\ cand'.inference = cand.inference
      BY <2>1 DEF CandidateRow
    <2> QED
      BY <1>2, <2>2, <2>3, StillInv, UnchangedKept DEF CandidateAges, TypeOK
  <1>3. CASE Tick
    <2>1. now' \in 0 .. MaxNow
      BY <1>3, BoundsAssumption DEF Tick, TypeOK
    <2> QED
      BY <1>3, <2>1, StillInv, UnchangedKept DEF Tick, TypeOK
  <1> QED
    BY <1>1, <1>2, <1>3

----------------------------------------------------------------------------
(* The theorems *)

LEMMA InitInv == Init => TypeOK /\ Backlinks
  <1> SUFFICES ASSUME Init PROVE TypeOK /\ Backlinks
    OBVIOUS
  <1>1. records \in Seq(RecordRow) /\ Len(records) <= MaxRecords
    BY BoundsAssumption DEF Init
  <1>2. TypeOK
    <2>1. /\ support \in 0 .. MaxSupport /\ contra \in 0 .. MaxContra
          /\ now \in 0 .. MaxNow /\ missed \in 0 .. MaxMissed
      BY BoundsAssumption DEF Init
    <2>2. call \in [Workers -> CallRecord]
      BY IdleType DEF Init
    <2>3. cand \in CandidateRow
      BY NoRowType DEF Init
    <2> QED
      BY <1>1, <2>1, <2>2, <2>3 DEF Init, TypeOK
  <1>3. cand.status # "accepted"
    BY DEF Init, NoRow
  <1>4. ASSUME NEW w \in Workers PROVE CallLinked(records, call[w])
    <2>1. call[w] = Idle
      BY DEF Init
    <2> QED
      BY <2>1 DEF CallLinked, Idle, NoRow
  <1> QED
    BY <1>2, <1>3, <1>4 DEF Backlinks

\* A step that is neither a user's rejection nor forget keeps the user's records.
UserKept ==
    \/ call' = call
    \/ \E w \in Workers : call[w].op = "reject" /\ call'[w] # call[w]
    \/ \A q \in DOMAIN records :
          records[q].authority = "USER_CONFIRMED" => records'[q] = records[q]

LEMMA StepOk ==
    ASSUME TypeOK, Backlinks, Next
    PROVE  TypeOK' /\ Backlinks' /\ UserKept
  <1>1. ASSUME NEW w \in Workers,
               Run(w) \/ Propose(w) \/ Evaluate(w) \/ Confirm(w) \/ Reject(w)
        PROVE  TypeOK' /\ Backlinks' /\ records' = records
    <2>1. /\ {"run", "propose", "evaluate", "confirm", "reject"} \subseteq Operations
          /\ {"sweep", "detect", "read"} \subseteq Steps
      BY DEF Operations, Steps
    <2>2. PICK op \in Operations, pc \in {"sweep", "detect", "read"} : Start(w, op, pc)
      BY <1>1, <2>1 DEF Run, Propose, Evaluate, Confirm, Reject
    <2>3. TypeOK' /\ Backlinks'
      BY <2>1, <2>2, StartInv
    <2>4. records' = records
      BY <2>2 DEF Start
    <2> QED
      BY <2>3, <2>4
  <1>2. ASSUME NEW w \in Workers, Sweep(w) \/ Detect(w) \/ Upsert(w) \/ ReadCandidate(w)
        PROVE  TypeOK' /\ Backlinks' /\ records' = records
    <2>1. TypeOK' /\ Backlinks'
      BY <1>2, SweepInv, DetectInv, UpsertInv, ReadInv
    <2>2. records' = records
      BY <1>2 DEF Sweep, Detect, Upsert, ReadCandidate
    <2> QED
      BY <2>1, <2>2
  <1>3. ASSUME NEW w \in Workers, BeginEvaluation(w) \/ Lookup(w) \/ Mark(w) \/ CutOff(w)
        PROVE  TypeOK' /\ Backlinks' /\ records' = records
    <2>1. TypeOK' /\ Backlinks'
      BY <1>3, BeginInv, LookupInv, MarkInv, CutOffInv
    <2>2. records' = records
      BY <1>3 DEF BeginEvaluation, Lookup, Mark, CutOff
    <2> QED
      BY <2>1, <2>2
  <1>4. ASSUME NEW w \in Workers, PutInference(w) \/ Supersede(w)
        PROVE  TypeOK' /\ Backlinks' /\ UserKept
    BY <1>4, PutStep, SupersedeStep DEF UserKept
  <1>5. ASSUME NEW w \in Workers, Retire(w)
        PROVE  TypeOK' /\ Backlinks' /\ UserKept
    BY <1>5, RetireStep DEF UserKept
  <1>6. ASSUME NEW w \in Workers, NEW r \in DOMAIN records, Forget(w, r)
        PROVE  TypeOK' /\ Backlinks' /\ UserKept
    <2>1. call' = call
      BY <1>6 DEF Forget
    <2> QED
      BY <1>6, <2>1, ForgetInv DEF UserKept
  <1>7. ASSUME Observe \/ CandidateAges \/ Tick
        PROVE  TypeOK' /\ Backlinks' /\ UserKept
    <2>1. call' = call
      BY <1>7 DEF Observe, CandidateAges, Tick
    <2> QED
      BY <1>7, <2>1, SurroundingsInv DEF UserKept
  <1>8. records' = records => UserKept
    BY DEF UserKept
  <1> QED
    BY <1>1, <1>2, <1>3, <1>4, <1>5, <1>6, <1>7, <1>8 DEF Next

LEMMA StutterOk ==
    ASSUME TypeOK, Backlinks, UNCHANGED vars
    PROVE  TypeOK' /\ Backlinks'
  BY DEF vars, TypeOK, Backlinks, CallLinked, Inferred

\* The tables keep their schema and every backlink that a handler may act on
\* points at an inference, whatever handlers race and wherever one is cut off.
THEOREM BacklinksCorrect == Spec => [](TypeOK /\ Backlinks)
  <1>1. Init => TypeOK /\ Backlinks
    BY InitInv
  <1>2. TypeOK /\ Backlinks /\ [Next]_vars => (TypeOK /\ Backlinks)'
    BY StepOk, StutterOk
  <1> QED
    BY <1>1, <1>2, PTL DEF Spec

\* "only the user can create USER_CONFIRMED truth", and only the user ends it:
\* for any number of handlers, workspaces, events and cut-offs, an active
\* confirmed record is retired by learn reject or forget alone.
THEOREM UserWordCorrect == Spec => UserWordStands
  <1>1. TypeOK /\ Backlinks /\ [Next]_vars =>
        [\A r \in DOMAIN records :
          /\ records[r].authority = "USER_CONFIRMED" /\ Active(r)
          /\ records'[r].status # "active"
          => call' = call \/ \E w \in Workers : call[w].op = "reject" /\ call'[w] # call[w]]_vars
    <2> SUFFICES ASSUME TypeOK, Backlinks, Next
                 PROVE  \A r \in DOMAIN records :
                    /\ records[r].authority = "USER_CONFIRMED" /\ Active(r)
                    /\ records'[r].status # "active"
                    => call' = call \/ \E w \in Workers : call[w].op = "reject" /\ call'[w] # call[w]
      OBVIOUS
    <2>1. UserKept
      BY StepOk
    <2> QED
      BY <2>1 DEF UserKept, Active
  <1>2. Spec => [](TypeOK /\ Backlinks)
    BY BacklinksCorrect
  <1> QED
    BY <1>1, <1>2, PTL DEF Spec, UserWordStands

----------------------------------------------------------------------------
(* Handlers that take turns on one mutation_lock *)

Evaluations == {"run", "evaluate"}

\* An active inference is the one an accepted row links.
Linked(row, inferences) ==
    \A r \in inferences : row.status = "accepted" /\ row.inference = r

\* No handler was cut off and no search fell short.
Clean == ~cut /\ missed = 0

\* What a handler k with nobody else at work finds: what the row says, where
\* the active inference is and, if all is clean, that it is the one the handler
\* has read, found or written.
TurnOK(k, row, inferences, misses, clean) ==
    /\ k.pc \in {"sweep", "detect", "upsert", "read", "begin", "lookup"} => k.record = 0
    /\ k.pc \in {"begin", "lookup"} => k.op \in Evaluations
    /\ k.pc = "persist" => k.op \in Evaluations \cup {"confirm"}
    /\ k.pc = "retire" => k.op \in Evaluations \cup {"reject"}
    /\ k.pc = "mark" => k.op \in Evaluations \cup {"confirm", "reject"}
    /\ k.pc = "begin" => row.status \notin Terminal
    /\ k.pc \in {"lookup", "persist", "retire", "mark"} /\ k.op \in Evaluations
          => row.status = "evaluating"
    /\ k.pc \in {"lookup", "persist"} /\ k.op \in Evaluations => k.verdict = "accepted"
    /\ k.pc \in {"persist", "mark"} /\ k.op = "confirm" => row.status = "accepted"
    /\ k.pc = "begin" \/ (k.pc = "persist" /\ k.op = "confirm")
          => k.row.status = row.status /\ k.row.inference = row.inference
    /\ k.pc = "persist" /\ k.op \in Evaluations
          => IF k.record = 0 THEN Cardinality(inferences) <= misses ELSE k.record \in inferences
    /\ clean =>
          /\ k.pc \in {"sweep", "detect", "upsert", "read", "begin"}
             \/ (k.pc = "persist" /\ k.op = "confirm") => Linked(row, inferences)
          /\ k.pc \in {"lookup", "retire"} => inferences \subseteq {k.row.inference}
          /\ k.pc = "lookup" => k.row.sup = k.sup
          /\ k.pc = "persist" /\ k.op \in Evaluations => k.record = 0
          /\ k.pc = "mark" /\ k.op \in Evaluations /\ k.verdict = "accepted"
                => inferences \subseteq {k.record}
          /\ k.pc = "mark" /\ ~(k.op \in Evaluations /\ k.verdict = "accepted")
                => inferences = {}

\* Evidence is never cited before it exists, so all that is cited resolves; and
\* the candidate is read by those that evaluate or answer.
CitedInv ==
    /\ cand.sup <= support
    /\ \A w \in Workers :
          /\ call[w].row.sup <= support /\ call[w].sup <= support
          /\ call[w].pc = "read" => call[w].op \in Evaluations \cup {"confirm", "reject"}

TurnsInv ==
    OneLock =>
        /\ \A v, w \in Workers : call[v].pc # "idle" /\ call[w].pc # "idle" => v = w
        /\ Cardinality(Inferences) <= 1 + missed
        /\ \A w \in Workers : call[w].pc # "idle" => TurnOK(call[w], cand, Inferences, missed, Clean)
        /\ Clean /\ (\A w \in Workers : call[w].pc = "idle") => Linked(cand, Inferences)

\* A handler moves to k, alone among those of its lock.
LEMMA TurnStep ==
    ASSUME TypeOK, TurnsInv, CitedInv, NEW w \in Workers, NEW k \in CallRecord,
           call' = [call EXCEPT ![w] = k], support' = support, home' = home,
           call[w].pc # "idle" \/ LockFree(w),
           cand'.sup <= support, k.row.sup <= support, k.sup <= support,
           k.pc = "read" => k.op \in Evaluations \cup {"confirm", "reject"},
           OneLock => Cardinality(Inferences') <= 1 + missed',
           OneLock /\ k.pc # "idle" => TurnOK(k, cand', Inferences', missed', Clean'),
           OneLock /\ k.pc = "idle" /\ Clean' => Linked(cand', Inferences')
    PROVE  TurnsInv' /\ CitedInv'
  <1>1. /\ call \in [Workers -> CallRecord] /\ call'[w] = k
        /\ \A v \in Workers \ {w} : call'[v] = call[v]
    BY DEF TypeOK
  <1>2. CitedInv'
    BY <1>1 DEF CitedInv
  <1>3. OneLock => \A v \in Workers \ {w} : call[v].pc = "idle"
    <2>1. CASE call[w].pc # "idle"
      BY <2>1 DEF TurnsInv
    <2>2. CASE LockFree(w)
      BY <2>2 DEF LockFree, Running, OneLock
    <2> QED
      BY <2>1, <2>2
  <1>4. OneLock' => OneLock
    BY DEF OneLock
  <1>5. OneLock => \A v \in Workers : call'[v].pc # "idle" => v = w
    BY <1>1, <1>3
  <1>6. TurnsInv'
    BY <1>1, <1>4, <1>5 DEF TurnsInv
  <1> QED
    BY <1>2, <1>6

LEMMA Turn ==
    ASSUME TypeOK, TurnsInv, CitedInv, NEW w \in Workers, call[w].pc # "idle"
    PROVE  /\ call[w] \in CallRecord /\ cand \in CandidateRow
           /\ OneLock => TurnOK(call[w], cand, Inferences, missed, Clean)
           /\ OneLock => Cardinality(Inferences) <= 1 + missed
           /\ cand.sup <= support /\ call[w].row.sup <= support /\ call[w].sup <= support
           /\ support \in Nat
           /\ call[w].pc = "read" => call[w].op \in Evaluations \cup {"confirm", "reject"}
  BY DEF TypeOK, TurnsInv, CitedInv

LEMMA IdleFields ==
    Idle.pc = "idle" /\ Idle.row.sup = 0 /\ Idle.sup = 0 /\ Idle.record = 0
  BY DEF Idle, NoRow

LEMMA SameInferences ==
    ASSUME records' = records
    PROVE  Inferences' = Inferences
  BY DEF Inferences, Active

LEMMA SameClean ==
    ASSUME cut' = cut, missed' = missed
    PROVE  Clean' = Clean
  BY DEF Clean

\* The inferences are among the records, so there are finitely many of them.
LEMMA FiniteInferences ==
    ASSUME TypeOK
    PROVE  /\ IsFiniteSet(Inferences) /\ Cardinality(Inferences) \in Nat
           /\ missed \in Nat
  <1>1. records \in Seq(RecordRow) /\ Len(records) \in Nat
    BY DEF TypeOK
  <1>2. IsFiniteSet(1 .. Len(records))
    BY <1>1, FS_Interval
  <1>3. Inferences \subseteq 1 .. Len(records)
    BY <1>1 DEF Inferences
  <1>4. IsFiniteSet(Inferences)
    BY <1>2, <1>3, FS_Subset
  <1> QED
    BY <1>4, FS_CardinalityType DEF TypeOK

\* Fewer inferences, or one more.
LEMMA FewerInferences ==
    ASSUME TypeOK, Inferences' \subseteq Inferences
    PROVE  Cardinality(Inferences) <= 1 + missed => Cardinality(Inferences') <= 1 + missed
  <1> DEFINE I == Inferences
             J == Inferences'
  <1>1. IsFiniteSet(I) /\ Cardinality(I) \in Nat /\ J \subseteq I /\ missed \in Nat
    BY FiniteInferences
  <1> HIDE DEF I, J
  <1>2. Cardinality(J) <= Cardinality(I) /\ Cardinality(J) \in Nat
    BY <1>1, FS_Subset, FS_CardinalityType
  <1>3. Cardinality(I) <= 1 + missed => Cardinality(J) <= 1 + missed
    BY <1>1, <1>2
  <1> QED
    BY <1>3 DEF I, J

LEMMA OneMoreInference ==
    ASSUME TypeOK, NEW r, Inferences' \subseteq Inferences \cup {r}
    PROVE  Cardinality(Inferences) <= missed => Cardinality(Inferences') <= 1 + missed
  <1> DEFINE I == Inferences
             J == Inferences'
  <1>1. IsFiniteSet(I) /\ Cardinality(I) \in Nat /\ J \subseteq I \cup {r} /\ missed \in Nat
    BY FiniteInferences
  <1> HIDE DEF I, J
  <1>2. /\ IsFiniteSet(I \cup {r})
        /\ Cardinality(I \cup {r}) = IF r \in I THEN Cardinality(I) ELSE Cardinality(I) + 1
    BY <1>1, FS_AddElement
  <1>3. Cardinality(J) <= Cardinality(I \cup {r}) /\ IsFiniteSet(J)
    BY <1>1, <1>2, FS_Subset
  <1>4. Cardinality(J) \in Nat /\ Cardinality(I \cup {r}) \in Nat
    BY <1>2, <1>3, FS_CardinalityType
  <1>5. Cardinality(I) <= missed => Cardinality(J) <= 1 + missed
    BY <1>1, <1>2, <1>3, <1>4
  <1> QED
    BY <1>5 DEF I, J

\* One inference makes room for another.
LEMMA ReplacedInference ==
    ASSUME TypeOK, NEW old \in Inferences, NEW r,
           Inferences' \subseteq (Inferences \ {old}) \cup {r}
    PROVE  Cardinality(Inferences) <= 1 + missed => Cardinality(Inferences') <= 1 + missed
  <1> DEFINE I == Inferences
             J == Inferences'
             K == I \ {old}
  <1>1. /\ IsFiniteSet(I) /\ Cardinality(I) \in Nat /\ J \subseteq K \cup {r} /\ old \in I
        /\ missed \in Nat
    BY FiniteInferences
  <1> HIDE DEF I, J
  <1>2. IsFiniteSet(K) /\ Cardinality(K) = Cardinality(I) - 1
    BY <1>1, FS_RemoveElement
  <1> HIDE DEF K
  <1>3. /\ IsFiniteSet(K \cup {r})
        /\ Cardinality(K \cup {r}) = IF r \in K THEN Cardinality(K) ELSE Cardinality(K) + 1
    BY <1>2, FS_AddElement
  <1>4. Cardinality(J) <= Cardinality(K \cup {r}) /\ IsFiniteSet(J)
    BY <1>1, <1>3, FS_Subset
  <1>5. Cardinality(J) \in Nat /\ Cardinality(K) \in Nat
    BY <1>2, <1>4, FS_CardinalityType
  <1>6. Cardinality(I) <= 1 + missed => Cardinality(J) <= 1 + missed
    BY <1>1, <1>2, <1>3, <1>4, <1>5
  <1> QED
    BY <1>6 DEF I, J

LEMMA ReturnTurn ==
    ASSUME TypeOK, TurnsInv, CitedInv, NEW w \in Workers, call[w].pc # "idle", Return(w),
           support' = support, home' = home, cand'.sup <= support,
           OneLock => Cardinality(Inferences') <= 1 + missed',
           OneLock /\ Clean' => Linked(cand', Inferences')
    PROVE  TurnsInv' /\ CitedInv'
  <1>1. call' = [call EXCEPT ![w] = Idle] /\ support \in Nat
    BY DEF Return, TypeOK
  <1>2. Idle.row.sup <= support /\ Idle.sup <= support /\ Idle.pc = "idle"
    BY <1>1, IdleFields
  <1> QED
    BY <1>1, <1>2, IdleType, TurnStep

LEMMA GotoFields ==
    ASSUME NEW k \in CallRecord, NEW pc \in Steps
    PROVE  LET n == [k EXCEPT !.pc = pc]
           IN  /\ n \in CallRecord /\ n.pc = pc /\ n.op = k.op /\ n.row = k.row
               /\ n.sup = k.sup /\ n.verdict = k.verdict /\ n.record = k.record
  BY DEF CallRecord

LEMMA StartTurn ==
    ASSUME TypeOK, TurnsInv, CitedInv, NEW w \in Workers, NEW op \in Operations,
           NEW pc \in {"sweep", "detect", "read"}, Start(w, op, pc),
           pc = "read" => op \in Evaluations \cup {"confirm", "reject"}
    PROVE  TurnsInv' /\ CitedInv'
  <1> DEFINE k == [Idle EXCEPT !.op = op, !.pc = pc, !.at = now]
  <1>1. pc \in Steps /\ now \in 0 .. MaxNow /\ support \in Nat
    BY DEF Steps, TypeOK
  <1>2. k \in CallRecord
    BY <1>1, StartType
  <1>3. k.pc = pc /\ k.op = op /\ k.record = 0 /\ k.row.sup = 0 /\ k.sup = 0
    BY DEF Idle, NoRow
  <1>4. /\ call' = [call EXCEPT ![w] = k] /\ LockFree(w)
        /\ UNCHANGED <<support, home, cand, records, missed, cut>>
    BY DEF Start
  <1>5. Inferences' = Inferences /\ Clean' = Clean
    BY <1>4, SameInferences, SameClean
  <1>6. OneLock => \A v \in Workers : call[v].pc = "idle"
    BY <1>4 DEF LockFree, Running, OneLock
  <1>7. OneLock /\ Clean => Linked(cand, Inferences)
    BY <1>6 DEF TurnsInv
  <1>8. OneLock => Cardinality(Inferences) <= 1 + missed
    BY DEF TurnsInv
  <1> HIDE DEF k
  <1>9. OneLock => TurnOK(k, cand', Inferences', missed', Clean')
    BY <1>3, <1>4, <1>5, <1>7 DEF TurnOK
  <1>10. cand'.sup <= support /\ k.row.sup <= support /\ k.sup <= support
    BY <1>1, <1>3, <1>4 DEF CitedInv
  <1> QED
    BY <1>2, <1>3, <1>4, <1>5, <1>8, <1>9, <1>10, TurnStep

LEMMA SweepTurn ==
    ASSUME TypeOK, TurnsInv, CitedInv, NEW w \in Workers, Sweep(w)
    PROVE  TurnsInv' /\ CitedInv'
  <1> DEFINE k == [call[w] EXCEPT !.pc = "detect"]
  <1>1. /\ call[w].pc = "sweep" /\ call' = [call EXCEPT ![w] = k]
        /\ UNCHANGED <<support, home, records, missed, cut>>
    BY DEF Sweep, Goto
  <1>2. /\ call[w] \in CallRecord /\ cand \in CandidateRow
        /\ OneLock => TurnOK(call[w], cand, Inferences, missed, Clean)
        /\ OneLock => Cardinality(Inferences) <= 1 + missed
        /\ cand.sup <= support /\ call[w].row.sup <= support /\ call[w].sup <= support
    BY <1>1, Turn
  <1>3. /\ k \in CallRecord /\ k.pc = "detect" /\ k.row = call[w].row
        /\ k.sup = call[w].sup /\ k.record = call[w].record
    BY <1>2, GotoFields DEF Steps
  <1>4. /\ cand'.sup = cand.sup
        /\ cand.status = "accepted" =>
              cand'.status = cand.status /\ cand'.inference = cand.inference
    BY <1>2 DEF Sweep, Undecided, CandidateRow
  <1>5. Inferences' = Inferences /\ Clean' = Clean
    BY <1>1, SameInferences, SameClean
  <1> HIDE DEF k
  <1>6. OneLock => TurnOK(k, cand', Inferences', missed', Clean')
    BY <1>1, <1>2, <1>3, <1>4, <1>5 DEF TurnOK, Linked
  <1> QED
    BY <1>1, <1>2, <1>3, <1>4, <1>5, <1>6, TurnStep

LEMMA DetectTurn ==
    ASSUME TypeOK, TurnsInv, CitedInv, NEW w \in Workers, Detect(w)
    PROVE  TurnsInv' /\ CitedInv'
  <1>1. call[w].pc = "detect" /\ UNCHANGED <<support, home, cand, records, missed, cut>>
    BY DEF Detect
  <1>2. /\ call[w] \in CallRecord
        /\ OneLock => TurnOK(call[w], cand, Inferences, missed, Clean)
        /\ OneLock => Cardinality(Inferences) <= 1 + missed
        /\ cand.sup <= support /\ call[w].row.sup <= support /\ support \in Nat
    BY <1>1, Turn
  <1>3. Inferences' = Inferences /\ Clean' = Clean
    BY <1>1, SameInferences, SameClean
  <1>4. OneLock /\ Clean => Linked(cand, Inferences)
    BY <1>1, <1>2 DEF TurnOK
  <1>5. CASE Return(w)
    BY <1>1, <1>2, <1>3, <1>4, <1>5, ReturnTurn
  <1>6. CASE call' = [call EXCEPT ![w].pc = "upsert", ![w].sup = support, ![w].con = contra]
    <2> DEFINE k == [call[w] EXCEPT !.pc = "upsert", !.sup = support, !.con = contra]
    <2>1. call' = [call EXCEPT ![w] = k]
      BY <1>6
    <2>2. "upsert" \in Steps /\ contra \in Nat
      BY DEF Steps, TypeOK
    <2>3. k \in CallRecord
      BY <1>2, <2>2, DetectType
    <2>4. k.pc = "upsert" /\ k.sup = support /\ k.row = call[w].row /\ k.record = call[w].record
      BY <1>2 DEF CallRecord
    <2> HIDE DEF k
    <2>5. OneLock => TurnOK(k, cand', Inferences', missed', Clean')
      BY <1>1, <1>2, <1>3, <1>4, <2>4 DEF TurnOK
    <2>6. k.sup <= support
      BY <1>2, <2>4
    <2> QED
      BY <1>1, <1>2, <1>3, <2>1, <2>3, <2>4, <2>5, <2>6, TurnStep
  <1> QED
    BY <1>5, <1>6 DEF Detect

LEMMA RefreshFields ==
    ASSUME NEW row \in CandidateRow, NEW s \in Nat, NEW c \in Nat
    PROVE  LET n == [row EXCEPT !.sup = s, !.con = c, !.old = FALSE]
           IN  n.sup = s /\ n.status = row.status /\ n.inference = row.inference
  BY DEF CandidateRow

LEMMA UpsertTurn ==
    ASSUME TypeOK, TurnsInv, CitedInv, NEW w \in Workers, Upsert(w)
    PROVE  TurnsInv' /\ CitedInv'
  <1> DEFINE s == call[w].sup
             c == call[w].con
  <1>1. call[w].pc = "upsert" /\ UNCHANGED <<support, home, records, missed, cut>>
    BY DEF Upsert
  <1>2. /\ call[w] \in CallRecord /\ cand \in CandidateRow
        /\ OneLock => TurnOK(call[w], cand, Inferences, missed, Clean)
        /\ OneLock => Cardinality(Inferences) <= 1 + missed
        /\ cand.sup <= support /\ call[w].row.sup <= support /\ s <= support
    BY <1>1, Turn
  <1>3. Inferences' = Inferences /\ Clean' = Clean
    BY <1>1, SameInferences, SameClean
  <1>4. cand' = Upserted(s, c)
    BY DEF Upsert
  <1>5. /\ cand'.sup \in {s, cand.sup}
        /\ cand.status = "accepted" =>
              cand'.status = cand.status /\ cand'.inference = cand.inference
    <2>1. CASE cand.status = "accepted"
      <3>1. cand' = [cand EXCEPT !.sup = s, !.con = c, !.old = FALSE]
        BY <1>4, <2>1 DEF Upserted, Undecided
      <3>2. s \in Nat /\ c \in Nat /\ cand \in CandidateRow
        BY <1>2 DEF CallRecord
      <3> HIDE DEF s, c
      <3>3. /\ [cand EXCEPT !.sup = s, !.con = c, !.old = FALSE].sup = s
            /\ [cand EXCEPT !.sup = s, !.con = c, !.old = FALSE].status = cand.status
            /\ [cand EXCEPT !.sup = s, !.con = c, !.old = FALSE].inference = cand.inference
        BY <3>2, RefreshFields
      <3> QED
        BY <3>1, <3>3, Zenon
    <2>2. CASE cand.status \in Undecided \cup {"none"}
      <3>1. cand.status # "accepted"
        BY <2>2 DEF Undecided
      <3>2. cand' = [old |-> FALSE, status |-> "candidate", sup |-> s, con |-> c,
                     inference |-> 0]
        BY <1>4, <2>2, <3>1 DEF Upserted
      <3>3. cand'.sup = s
        BY <3>2
      <3> QED
        BY <3>1, <3>3
    <2>3. CASE cand.status \notin Undecided \cup {"none", "accepted"}
      BY <1>4, <2>3 DEF Upserted
    <2> QED
      BY <2>1, <2>2, <2>3
  <1> HIDE DEF s
  <1>6. cand'.sup <= support
    BY <1>2, <1>5
  <1>7. OneLock /\ Clean => Linked(cand', Inferences')
    BY <1>1, <1>2, <1>3, <1>5 DEF TurnOK, Linked
  <1>8. CASE Return(w)
    BY <1>1, <1>2, <1>3, <1>6, <1>7, <1>8, ReturnTurn
  <1>9. CASE Goto(w, "read") /\ call[w].op = "run"
    <2> DEFINE k == [call[w] EXCEPT !.pc = "read"]
    <2>1. call' = [call EXCEPT ![w] = k]
      BY <1>9 DEF Goto
    <2>2. /\ k \in CallRecord /\ k.pc = "read" /\ k.row = call[w].row /\ k.op = call[w].op
          /\ k.sup = s /\ k.record = call[w].record
      BY <1>2, GotoFields DEF Steps, s
    <2> HIDE DEF k
    <2>3. OneLock => TurnOK(k, cand', Inferences', missed', Clean')
      BY <1>1, <1>2, <1>3, <1>7, <2>2 DEF TurnOK
    <2>4. k.op \in Evaluations
      BY <1>9, <2>2 DEF Evaluations
    <2> QED
      BY <1>1, <1>2, <1>3, <1>6, <2>1, <2>2, <2>3, <2>4, TurnStep
  <1> QED
    BY <1>8, <1>9 DEF Upsert

LEMMA ReadFields ==
    ASSUME NEW k \in CallRecord, NEW pc \in Steps, NEW row \in CandidateRow
    PROVE  LET n == [k EXCEPT !.pc = pc, !.row = row]
           IN  /\ n \in CallRecord /\ n.pc = pc /\ n.op = k.op /\ n.row = row
               /\ n.sup = k.sup /\ n.verdict = k.verdict /\ n.record = k.record
  BY DEF CallRecord

LEMMA ReadTurn ==
    ASSUME TypeOK, Backlinks, TurnsInv, CitedInv, NEW w \in Workers, ReadCandidate(w)
    PROVE  TurnsInv' /\ CitedInv'
  <1>1. call[w].pc = "read" /\ UNCHANGED <<support, home, cand, records, missed, cut>>
    BY DEF ReadCandidate
  <1>2. /\ call[w] \in CallRecord /\ cand \in CandidateRow
        /\ OneLock => TurnOK(call[w], cand, Inferences, missed, Clean)
        /\ OneLock => Cardinality(Inferences) <= 1 + missed
        /\ cand.sup <= support /\ call[w].row.sup <= support /\ call[w].sup <= support
    BY <1>1, Turn
  <1>3. Inferences' = Inferences /\ Clean' = Clean
    BY <1>1, SameInferences, SameClean
  <1>4. OneLock /\ Clean => Linked(cand, Inferences)
    BY <1>1, <1>2 DEF TurnOK
  <1>5. CASE Return(w)
    BY <1>1, <1>2, <1>3, <1>4, <1>5, ReturnTurn
  <1>6. ASSUME NEW pc \in {"persist", "retire", "begin"},
               call' = [call EXCEPT ![w].pc = pc, ![w].row = cand],
               pc = "persist" => call[w].op = "confirm" /\ cand.status = "accepted",
               pc = "retire" => call[w].op = "reject",
               pc = "begin" => call[w].op \in Evaluations /\ cand.status \notin Terminal
        PROVE  TurnsInv' /\ CitedInv'
    <2> DEFINE k == [call[w] EXCEPT !.pc = pc, !.row = cand]
    <2>1. call' = [call EXCEPT ![w] = k]
      BY <1>6
    <2>0. pc \in Steps /\ call[w] \in CallRecord /\ cand \in CandidateRow
      BY <1>2 DEF Steps
    <2>2. /\ k \in CallRecord /\ k.pc = pc /\ k.row = cand /\ k.op = call[w].op
          /\ k.sup = call[w].sup /\ k.record = call[w].record
      <3>1. k \in CallRecord
        BY <2>0, ReadType
      <3> QED
        BY <2>0, <3>1 DEF CallRecord
    <2> HIDE DEF k
    <2>3. call[w].op = "confirm" => call[w].op \notin Evaluations
      BY DEF Evaluations
    <2>4. OneLock => TurnOK(k, cand, Inferences, missed, Clean)
      <3>1. OneLock => k.record = 0
        BY <1>1, <1>2, <2>2 DEF TurnOK
      <3>2. CASE pc = "persist"
        BY <1>4, <1>6, <2>2, <2>3, <3>1, <3>2 DEF TurnOK
      <3>3. CASE pc = "retire"
        <4>1. OneLock /\ Clean => Inferences \subseteq {cand.inference}
          BY <1>4 DEF Linked
        <4> QED
          BY <1>6, <2>2, <3>1, <3>3, <4>1 DEF TurnOK, Evaluations
      <3>4. CASE pc = "begin"
        BY <1>4, <1>6, <2>2, <3>1, <3>4 DEF TurnOK
      <3> QED
        BY <3>2, <3>3, <3>4
    <2> QED
      BY <1>1, <1>2, <1>3, <2>1, <2>2, <2>4, TurnStep
  <1>7. call[w].op \in {"run", "evaluate", "confirm", "reject"}
    BY <1>1, Turn DEF Evaluations
  <1>8. CASE call[w].op = "confirm"
    BY <1>5, <1>6, <1>8 DEF ReadCandidate
  <1>9. CASE call[w].op = "reject"
    BY <1>5, <1>6, <1>9 DEF ReadCandidate
  <1>10. CASE call[w].op \in {"run", "evaluate"}
    BY <1>5, <1>6, <1>10 DEF ReadCandidate, Evaluations
  <1> QED
    BY <1>7, <1>8, <1>9, <1>10

LEMMA BeginTurn ==
    ASSUME TypeOK, TurnsInv, CitedInv, NEW w \in Workers, BeginEvaluation(w)
    PROVE  TurnsInv' /\ CitedInv'
  <1> DEFINE s == Voiced(call[w].row.sup, support)
             c == Voiced(call[w].row.con, contra)
  <1>1. call[w].pc = "begin" /\ UNCHANGED <<support, home, records, missed, cut>>
    BY DEF BeginEvaluation
  <1>2. /\ call[w] \in CallRecord /\ cand \in CandidateRow
        /\ OneLock => TurnOK(call[w], cand, Inferences, missed, Clean)
        /\ OneLock => Cardinality(Inferences) <= 1 + missed
        /\ cand.sup <= support /\ call[w].row.sup <= support
    BY <1>1, Turn
  <1>3. Inferences' = Inferences /\ Clean' = Clean
    BY <1>1, SameInferences, SameClean
  <1>4. s = call[w].row.sup /\ s \in Nat /\ c \in Nat
    BY <1>2 DEF TypeOK, CallRecord, CandidateRow, Voiced
  <1>5. PICK verdict \in Verdicts(s, c) :
           call' = [call EXCEPT ![w].verdict = verdict, ![w].sup = s, ![w].con = c,
                      ![w].pc = IF verdict = "accepted" THEN "lookup"
                                ELSE IF call[w].row.status = "accepted" THEN "retire"
                                ELSE "mark"]
    BY DEF BeginEvaluation
  <1>6. verdict \in {"accepted", "deferred", "rejected"}
    BY <1>4, <1>5, VerdictsType
  <1> HIDE DEF s, c
  <1> DEFINE next == IF verdict = "accepted" THEN "lookup"
                     ELSE IF call[w].row.status = "accepted" THEN "retire" ELSE "mark"
             k == [call[w] EXCEPT !.verdict = verdict, !.sup = s, !.con = c, !.pc = next]
  <1>7. next \in Steps /\ verdict \in Statuses
    BY <1>6 DEF Steps, Statuses
  <1>8. k \in CallRecord
    BY <1>2, <1>4, <1>7, BeginType
  <1>9. call' = [call EXCEPT ![w] = k]
    BY <1>5
  <1>10. /\ k.pc = next /\ k.row = call[w].row /\ k.op = call[w].op /\ k.sup = s
         /\ k.record = call[w].record /\ k.verdict = verdict
    BY <1>2 DEF CallRecord
  <1>11. cand' = [cand EXCEPT !.status = "evaluating"]
    BY DEF BeginEvaluation
  <1>12. /\ cand'.status = "evaluating" /\ cand'.sup = cand.sup
         /\ cand'.inference = cand.inference
    BY <1>2, <1>11 DEF CandidateRow
  <1> HIDE DEF k
  <1>13. OneLock =>
            /\ call[w].op \in Evaluations /\ call[w].record = 0
            /\ call[w].row.status = cand.status /\ call[w].row.inference = cand.inference
            /\ Clean => Linked(cand, Inferences)
    BY <1>1, <1>2 DEF TurnOK
  <1>14. call[w].op \in Evaluations => call[w].op # "confirm"
    BY DEF Evaluations
  <1>15. OneLock => TurnOK(k, cand', Inferences, missed, Clean)
    <2>1. CASE verdict = "accepted"
      <3>1. OneLock /\ Clean => Inferences \subseteq {call[w].row.inference}
        BY <1>13 DEF Linked
      <3> QED
        BY <1>4, <1>10, <1>12, <1>13, <1>14, <2>1, <3>1 DEF TurnOK
    <2>2. CASE verdict # "accepted" /\ call[w].row.status = "accepted"
      <3>1. OneLock /\ Clean => Inferences \subseteq {call[w].row.inference}
        BY <1>13 DEF Linked
      <3> QED
        BY <1>10, <1>12, <1>13, <1>14, <2>2, <3>1 DEF TurnOK
    <2>3. CASE verdict # "accepted" /\ call[w].row.status # "accepted"
      <3>1. OneLock /\ Clean => Inferences = {}
        BY <1>13, <2>3 DEF Linked
      <3> QED
        BY <1>10, <1>12, <1>13, <1>14, <2>3, <3>1 DEF TurnOK
    <2> QED
      BY <2>1, <2>2, <2>3
  <1>16. k.pc # "idle" /\ k.pc # "read"
    BY <1>10
  <1> HIDE DEF next
  <1> QED
    BY <1>1, <1>2, <1>3, <1>4, <1>8, <1>9, <1>10, <1>12, <1>15, <1>16, TurnStep

LEMMA LookupTurn ==
    ASSUME TypeOK, TurnsInv, CitedInv, NEW w \in Workers, Lookup(w)
    PROVE  TurnsInv' /\ CitedInv'
  <1>1. call[w].pc = "lookup" /\ UNCHANGED <<support, home, cand, records, cut>>
    BY DEF Lookup
  <1>2. /\ call[w] \in CallRecord
        /\ OneLock => TurnOK(call[w], cand, Inferences, missed, Clean)
        /\ OneLock => Cardinality(Inferences) <= 1 + missed
        /\ cand.sup <= support /\ call[w].row.sup <= support /\ call[w].sup <= support
    BY <1>1, Turn
  <1>3. Inferences' = Inferences 
    BY <1>1, SameInferences
  <1>4. OneLock =>
           /\ call[w].op \in Evaluations /\ call[w].record = 0
           /\ cand.status = "evaluating" /\ call[w].verdict = "accepted"
           /\ Clean => /\ Inferences \subseteq {call[w].row.inference}
                      /\ call[w].row.sup = call[w].sup
    BY <1>1, <1>2 DEF TurnOK
  <1>5. call[w].op \in Evaluations => call[w].op # "confirm"
    BY DEF Evaluations
  <1>6. CASE /\ Goto(w, "persist")
             /\ \/ Inferences = {} /\ UNCHANGED missed
                \/ missed < MaxMissed /\ missed' = missed + 1
    <2> DEFINE k == [call[w] EXCEPT !.pc = "persist"]
    <2>1. call' = [call EXCEPT ![w] = k]
      BY <1>6 DEF Goto
    <2>2. /\ k \in CallRecord /\ k.pc = "persist" /\ k.row = call[w].row /\ k.op = call[w].op
          /\ k.sup = call[w].sup /\ k.record = call[w].record /\ k.verdict = call[w].verdict
      BY <1>2, GotoFields DEF Steps
    <2> HIDE DEF k
    <2>3. missed \in Nat /\ missed' \in Nat /\ Cardinality(Inferences) \in Nat
      BY <1>6, FiniteInferences
    <2>4. Inferences = {} => Cardinality(Inferences) = 0
      BY FS_EmptySet
    <2>5. OneLock => Cardinality(Inferences) <= missed'
      BY <1>2, <1>6, <2>3, <2>4
    <2>6. Clean' => Clean
      BY <1>1, <1>6, <2>3 DEF Clean
    <2>7. OneLock => TurnOK(k, cand, Inferences, missed', Clean')
      BY <1>4, <1>5, <2>2, <2>5, <2>6 DEF TurnOK
    <2>8. OneLock => Cardinality(Inferences) <= 1 + missed'
      BY <2>3, <2>5
    <2> QED
      BY <1>1, <1>2, <1>3, <2>1, <2>2, <2>7, <2>8, TurnStep
  <1>7. ASSUME NEW r \in Inferences,
               call' = [call EXCEPT ![w].record = r,
                          ![w].pc = IF r = call[w].row.inference /\ call[w].row.sup = call[w].sup
                                    THEN "mark" ELSE "persist"],
               missed' = missed
        PROVE  TurnsInv' /\ CitedInv'
    <2> DEFINE next == IF r = call[w].row.inference /\ call[w].row.sup = call[w].sup
                       THEN "mark" ELSE "persist"
               k == [call[w] EXCEPT !.record = r, !.pc = next]
    <2>1. call' = [call EXCEPT ![w] = k]
      BY <1>7
    <2>2. next \in Steps
      BY DEF Steps
    <2>3. r \in 0 .. MaxRecords /\ r # 0
      BY BoundsAssumption DEF Inferences, TypeOK
    <2>4. /\ k \in CallRecord /\ k.pc = next /\ k.row = call[w].row /\ k.op = call[w].op
          /\ k.sup = call[w].sup /\ k.record = r /\ k.verdict = call[w].verdict
      <3>1. call[w] \in CallRecord
        BY <1>2
      <3> HIDE DEF next
      <3>2. k \in CallRecord
        BY <2>2, <2>3, <3>1, FoundType
      <3> QED
        BY <2>2, <2>3, <3>1, <3>2 DEF CallRecord
    <2> HIDE DEF k
    <2>7. Clean' = Clean
      BY <1>1, <1>7, SameClean
    <2>5. OneLock => TurnOK(k, cand, Inferences, missed', Clean')
      <3>1. CASE next = "mark"
        <4>1. OneLock /\ Clean => Inferences \subseteq {r}
          BY <1>4, <1>7
        <4> HIDE DEF next
        <4> QED
          BY <1>4, <1>5, <2>3, <2>4, <2>7, <3>1, <4>1 DEF TurnOK
      <3>2. CASE next = "persist"
        <4>1. OneLock => ~Clean
          BY <1>4, <1>7, <3>2
        <4> HIDE DEF next
        <4> QED
          BY <1>4, <1>5, <1>7, <2>3, <2>4, <2>7, <3>2, <4>1 DEF TurnOK
      <3> QED
        BY <3>1, <3>2
    <2>6. k.pc # "idle" /\ k.pc # "read"
      BY <2>4
    <2> QED
      BY <1>1, <1>2, <1>3, <1>7, <2>1, <2>4, <2>5, <2>6, TurnStep
  <1> QED
    BY <1>6, <1>7 DEF Lookup

LEMMA AppendedDomain ==
    ASSUME NEW s \in Seq(RecordRow), NEW row \in RecordRow
    PROVE  DOMAIN Append(s, row) = DOMAIN s \cup {Len(s) + 1}
  BY AppendProperties

\* A handler that has written record r goes on to the closing update.
LEMMA WrittenTurn ==
    ASSUME TypeOK, TurnsInv, CitedInv, NEW w \in Workers, NEW r \in 0 .. MaxRecords,
           call[w].pc = "persist", call' = [call EXCEPT ![w].pc = "mark", ![w].record = r],
           support' = support, home' = home, cand' = cand, cut' = cut,
           missed' = missed, OneLock => Cardinality(Inferences') <= 1 + missed,
           OneLock /\ Clean => Inferences' \subseteq {r},
           OneLock /\ Clean /\ call[w].op = "confirm" => Inferences' = {}
    PROVE  TurnsInv' /\ CitedInv'
  <1> DEFINE k == [call[w] EXCEPT !.pc = "mark", !.record = r]
  <1>1. call' = [call EXCEPT ![w] = k]
    OBVIOUS
  <1>2. /\ call[w] \in CallRecord
        /\ OneLock => TurnOK(call[w], cand, Inferences, missed, Clean)
        /\ cand.sup <= support /\ call[w].row.sup <= support /\ call[w].sup <= support
    BY Turn
  <1>3. call[w] \in CallRecord /\ "mark" \in Steps
    BY <1>2 DEF Steps
  <1>4. k \in CallRecord
    BY <1>3, FoundType
  <1>5. /\ k.pc = "mark" /\ k.row = call[w].row /\ k.op = call[w].op
        /\ k.sup = call[w].sup /\ k.record = r /\ k.verdict = call[w].verdict
    BY <1>3, <1>4 DEF CallRecord
  <1> HIDE DEF k
  <1>6. OneLock =>
           /\ call[w].op \in Evaluations \cup {"confirm"}
           /\ call[w].op \in Evaluations => cand.status = "evaluating" /\ call[w].verdict = "accepted"
           /\ call[w].op = "confirm" => cand.status = "accepted"
    BY <1>2 DEF TurnOK
  <1>0. Clean' = Clean
    BY SameClean
  <1>7. OneLock => TurnOK(k, cand', Inferences', missed', Clean')
    <2>1. call[w].op = "confirm" => call[w].op \notin Evaluations
      BY DEF Evaluations
    <2>2. CASE call[w].op \in Evaluations
      BY <1>0, <1>5, <1>6, <2>1, <2>2 DEF TurnOK
    <2>3. CASE call[w].op = "confirm"
      BY <1>0, <1>5, <1>6, <2>1, <2>3 DEF TurnOK
    <2> QED
      BY <1>6, <2>2, <2>3
  <1>8. OneLock => Cardinality(Inferences') <= 1 + missed'
    OBVIOUS
  <1> QED
    BY <1>1, <1>2, <1>4, <1>5, <1>7, <1>8, TurnStep

LEMMA PutTurn ==
    ASSUME TypeOK, TurnsInv, CitedInv, NEW w \in Workers, PutInference(w)
    PROVE  TurnsInv' /\ CitedInv'
  <1> DEFINE new == NewRecord("AI_INFERRED", call[w].sup, 0, call[w].at)
  <1>1. /\ call[w].pc = "persist" /\ call[w].op # "confirm" /\ call[w].record = 0
        /\ UNCHANGED <<support, home, cand, missed, cut>>
    BY DEF PutInference
  <1>2. call[w] \in CallRecord /\ (OneLock => TurnOK(call[w], cand, Inferences, missed, Clean))
    BY <1>1, Turn
  <1>3. OneLock => Cardinality(Inferences) <= missed
    BY <1>1, <1>2 DEF TurnOK
  <1>10. OneLock /\ Clean => Inferences = {}
    <2>1. OneLock /\ Clean => Cardinality(Inferences) = 0
      BY <1>3, FiniteInferences DEF Clean
    <2> QED
      BY <2>1, FiniteInferences, FS_EmptySet
  <1>11. ASSUME NEW r, Inferences' \subseteq Inferences \cup {r}
         PROVE  /\ OneLock => Cardinality(Inferences') <= 1 + missed
                /\ OneLock /\ Clean => Inferences' \subseteq {r}
    <2>1. OneLock => Cardinality(Inferences') <= 1 + missed
      BY <1>3, <1>11, OneMoreInference
    <2> QED
      BY <1>10, <1>11, <2>1
  <1>4. call[w].sup \in Nat /\ call[w].at \in 0 .. MaxNow /\ 0 \in 0 .. MaxRecords
    BY <1>2, BoundsAssumption DEF CallRecord
  <1>5. new \in RecordRow
    BY <1>4, NewRecordType
  <1>6. \/ \E r \in SameId(call[w].at) :
              /\ records' = [records EXCEPT ![r] = new]
              /\ call' = [call EXCEPT ![w].pc = "mark", ![w].record = r]
        \/ /\ Len(records) < MaxRecords
           /\ records' = Append(records, new)
           /\ call' = [call EXCEPT ![w].pc = "mark", ![w].record = Len(records) + 1]
    BY DEF PutInference
  <1> HIDE DEF new
  <1>7. records \in Seq(RecordRow) /\ Len(records) \in Nat /\ MaxRecords \in Nat
    BY BoundsAssumption DEF TypeOK
  <1>8. ASSUME NEW r \in SameId(call[w].at), records' = [records EXCEPT ![r] = new],
               call' = [call EXCEPT ![w].pc = "mark", ![w].record = r]
        PROVE  TurnsInv' /\ CitedInv'
    <2>1. r \in DOMAIN records
      BY DEF SameId
    <2>2. r \in 0 .. MaxRecords
      BY <2>1, BoundsAssumption DEF TypeOK
    <2>3. /\ DOMAIN records' = DOMAIN records
          /\ \A q \in DOMAIN records : q # r => records'[q] = records[q]
      BY <1>5, <1>7, <1>8, <2>1, Rewritten
    <2>4. Inferences' \subseteq Inferences \cup {r}
      BY <2>3 DEF Inferences, Active
    <2> QED
      BY <1>1, <1>8, <1>11, <2>2, <2>4, WrittenTurn
  <1>9. ASSUME Len(records) < MaxRecords, records' = Append(records, new),
               call' = [call EXCEPT ![w].pc = "mark", ![w].record = Len(records) + 1]
        PROVE  TurnsInv' /\ CitedInv'
    <2> DEFINE r == Len(records) + 1
    <2>1. /\ r \in 0 .. MaxRecords
          /\ \A q \in DOMAIN records : records'[q] = records[q]
      BY <1>5, <1>9, AppendKept
    <2>2. DOMAIN records' = DOMAIN records \cup {r}
      BY <1>5, <1>7, <1>9, AppendedDomain
    <2>3. call' = [call EXCEPT ![w].pc = "mark", ![w].record = r]
      BY <1>9
    <2> HIDE DEF r
    <2>4. Inferences' \subseteq Inferences \cup {r}
      BY <2>1, <2>2 DEF Inferences, Active
    <2> QED
      BY <1>1, <1>11, <2>1, <2>3, <2>4, WrittenTurn
  <1> QED
    BY <1>6, <1>8, <1>9

LEMMA ReplacedStatus ==
    ASSUME TypeOK, NEW old \in DOMAIN records, NEW new \in RecordRow,
           records' = Replaced(old, new)
    PROVE  /\ records'[old].status = "superseded"
           /\ DOMAIN records' = DOMAIN records \cup {Len(records) + 1}
  <1> DEFINE row == [records[old] EXCEPT !.status = "superseded"]
             mid == [records EXCEPT ![old] = row]
  <1>1. records \in Seq(RecordRow)
    BY DEF TypeOK
  <1>2. records[old] \in RecordRow
    BY <1>1, ElementOfSeq
  <1>3. row \in RecordRow /\ row.status = "superseded"
    BY <1>2, RecordStatusType DEF RecordRow
  <1>4. records' = Append(mid, new)
    BY DEF Replaced
  <1> HIDE DEF row
  <1>5. /\ mid \in Seq(RecordRow) /\ Len(mid) = Len(records) /\ DOMAIN mid = DOMAIN records
        /\ mid[old] = row
    BY <1>1, <1>3, Rewritten
  <1> HIDE DEF mid
  <1>6. /\ DOMAIN Append(mid, new) = DOMAIN mid \cup {Len(mid) + 1}
        /\ \A q \in DOMAIN mid : Append(mid, new)[q] = mid[q]
    BY <1>5, Appended, AppendedDomain
  <1> QED
    BY <1>3, <1>4, <1>5, <1>6

LEMMA SupersedeTurn ==
    ASSUME TypeOK, Backlinks, TurnsInv, CitedInv, NEW w \in Workers, Supersede(w)
    PROVE  TurnsInv' /\ CitedInv'
  <1> DEFINE confirm == call[w].op = "confirm"
             old == IF confirm THEN call[w].row.inference ELSE call[w].record
             new == IF confirm
                    THEN NewRecord("USER_CONFIRMED", records[old].evidence, old, call[w].at)
                    ELSE NewRecord("AI_INFERRED", call[w].sup, old, call[w].at)
  <1>1. /\ call[w].pc = "persist" /\ (confirm \/ call[w].record # 0)
        /\ UNCHANGED <<support, home, cand, missed, cut>>
    BY DEF Supersede
  <1>2. /\ call[w] \in CallRecord /\ CallLinked(records, call[w])
        /\ OneLock => TurnOK(call[w], cand, Inferences, missed, Clean)
        /\ OneLock => Cardinality(Inferences) <= 1 + missed
        /\ cand.sup <= support /\ cand'.sup <= support
    BY <1>1, Turn DEF Backlinks
  <1>3. Inferred(records, old)
    BY <1>1, <1>2 DEF CallLinked
  <1>4. \/ /\ Active(old) /\ Len(records) < MaxRecords
           /\ records' = Replaced(old, new)
           /\ call' = [call EXCEPT ![w].pc = "mark", ![w].record = Len(records) + 1]
        \/ Return(w) /\ UNCHANGED records
    BY DEF Supersede
  <1>5. CASE Return(w) /\ UNCHANGED records
    <2>1. Inferences' = Inferences /\ Clean' = Clean
      BY <1>1, <1>5, SameInferences, SameClean
    <2>2. OneLock /\ Clean => Linked(cand, Inferences)
      <3>1. CASE confirm
        BY <1>1, <1>2, <3>1 DEF TurnOK
      <3>2. CASE ~confirm
        BY <1>1, <1>2, <3>2 DEF TurnOK
      <3> QED
        BY <3>1, <3>2
    <2> QED
      BY <1>1, <1>2, <1>5, <2>1, <2>2, ReturnTurn
  <1>6. CASE /\ Active(old) /\ Len(records) < MaxRecords
             /\ records' = Replaced(old, new)
             /\ call' = [call EXCEPT ![w].pc = "mark", ![w].record = Len(records) + 1]
    <2> DEFINE r == Len(records) + 1
    <2>1. old \in DOMAIN records /\ records[old].authority = "AI_INFERRED"
      BY <1>3 DEF Inferred
    <2>2. records[old] \in RecordRow /\ old \in 0 .. MaxRecords
      BY <2>1, BoundsAssumption, ElementOfSeq DEF TypeOK
    <2>3. /\ records[old].evidence \in Nat /\ call[w].sup \in Nat
          /\ call[w].at \in 0 .. MaxNow
      BY <1>2, <2>2 DEF RecordRow, CallRecord
    <2>4. OneLock /\ Clean => Inferences \subseteq {old}
      <3>1. CASE confirm
        BY <1>1, <1>2, <3>1 DEF TurnOK, Linked
      <3>2. CASE ~confirm
        BY <1>1, <1>2, <3>2 DEF TurnOK
      <3> QED
        BY <3>1, <3>2
    <2>13. old \in Inferences
      BY <1>6, <2>1 DEF Inferences
    <2> HIDE DEF old
    <2>5. /\ NewRecord("USER_CONFIRMED", records[old].evidence, old, call[w].at) \in RecordRow
          /\ NewRecord("AI_INFERRED", call[w].sup, old, call[w].at) \in RecordRow
      BY <2>2, <2>3, NewRecordType
    <2>6. new \in RecordRow
      BY <2>5
    <2>7. confirm => new.authority = "USER_CONFIRMED"
      BY DEF NewRecord
    <2> HIDE DEF new
    <2>8. /\ r \in 0 .. MaxRecords /\ records'[r] = new
          /\ \A q \in DOMAIN records : q # old => records'[q] = records[q]
      BY <1>6, <2>1, <2>6, ReplacedKept
    <2>9. /\ records'[old].status = "superseded"
          /\ DOMAIN records' = DOMAIN records \cup {r}
      BY <1>6, <2>1, <2>6, ReplacedStatus
    <2>10. call' = [call EXCEPT ![w].pc = "mark", ![w].record = r]
      BY <1>6
    <2> HIDE DEF r
    <2>11. Inferences' \subseteq (Inferences \ {old}) \cup {r}
      BY <2>8, <2>9 DEF Inferences, Active
    <2>12. OneLock /\ Clean => Inferences' \subseteq {r}
      BY <2>4, <2>11
    <2>14. OneLock /\ Clean /\ confirm => Inferences' = {}
      BY <2>7, <2>8, <2>12 DEF Inferences
    <2>15. OneLock => Cardinality(Inferences') <= 1 + missed
      BY <1>2, <2>11, <2>13, ReplacedInference
    <2> QED
      BY <1>1, <2>8, <2>10, <2>12, <2>14, <2>15, WrittenTurn
  <1> QED
    BY <1>4, <1>5, <1>6

\* A rejection takes record r out of the active inferences and adds none.
LEMMA RejectedInferences ==
    ASSUME TypeOK, NEW r \in 0 .. MaxRecords, records' = Rejected(r)
    PROVE  Inferences' \subseteq Inferences \ {r}
  <1>1. /\ DOMAIN records' = DOMAIN records
        /\ \A q \in DOMAIN records : q # r => records'[q] = records[q]
    BY RejectedStep
  <1>2. ~(r \in DOMAIN records' /\ records'[r].status = "active")
    <2>1. CASE ~Active(r)
      BY <2>1 DEF Rejected, Active
    <2>2. CASE Active(r)
      <3> DEFINE row == [records[r] EXCEPT !.status = "rejected"]
      <3>1. /\ records \in Seq(RecordRow) /\ r \in DOMAIN records
            /\ records' = [records EXCEPT ![r] = row]
        BY <2>2 DEF Active, Rejected, TypeOK
      <3>2. records[r] \in RecordRow
        BY <3>1, ElementOfSeq
      <3>3. row \in RecordRow /\ row.status = "rejected"
        BY <3>2, RecordStatusType DEF RecordRow
      <3> HIDE DEF row
      <3> QED
        BY <3>1, <3>3, Rewritten
    <2> QED
      BY <2>1, <2>2
  <1> QED
    BY <1>1, <1>2 DEF Inferences, Active

LEMMA RetireTurn ==
    ASSUME TypeOK, Backlinks, TurnsInv, CitedInv, NEW w \in Workers, Retire(w)
    PROVE  TurnsInv' /\ CitedInv'
  <1> DEFINE k == [call[w] EXCEPT !.pc = "mark"]
             r == call[w].row.inference
  <1>1. /\ call[w].pc = "retire" /\ call' = [call EXCEPT ![w] = k]
        /\ records' = Rejected(r) /\ UNCHANGED <<support, home, cand, missed, cut>>
    BY DEF Retire, Goto
  <1>2. /\ call[w] \in CallRecord /\ CallLinked(records, call[w])
        /\ OneLock => TurnOK(call[w], cand, Inferences, missed, Clean)
        /\ OneLock => Cardinality(Inferences) <= 1 + missed
        /\ cand.sup <= support /\ call[w].row.sup <= support /\ call[w].sup <= support
    BY <1>1, Turn DEF Backlinks
  <1>3. /\ k \in CallRecord /\ k.pc = "mark" /\ k.op = call[w].op /\ k.row = call[w].row
        /\ k.sup = call[w].sup /\ k.record = call[w].record /\ k.verdict = call[w].verdict
    BY <1>2, GotoFields DEF Steps
  <1> HIDE DEF k
  <1>4. r \in 0 .. MaxRecords
    BY <1>2 DEF CallRecord, CandidateRow
  <1>5. Inferences' \subseteq Inferences \ {r}
    BY <1>1, <1>4, RejectedInferences
  <1>6. OneLock =>
           /\ call[w].op \in Evaluations \cup {"reject"}
           /\ call[w].op \in Evaluations => cand.status = "evaluating"
           /\ Clean => Inferences \subseteq {r}
    BY <1>1, <1>2 DEF TurnOK
  <1>7. call[w].op \in Evaluations => call[w].verdict # "accepted" /\ call[w].op # "confirm"
    BY <1>1, <1>2 DEF CallLinked, Evaluations
  <1>8. OneLock /\ Clean => Inferences' = {}
    BY <1>5, <1>6
  <1>11. Clean' = Clean
    BY <1>1, SameClean
  <1>9. OneLock => TurnOK(k, cand', Inferences', missed', Clean')
    BY <1>1, <1>3, <1>6, <1>7, <1>8, <1>11 DEF TurnOK
  <1>12. Inferences' \subseteq Inferences
    BY <1>5
  <1>10. OneLock => Cardinality(Inferences') <= 1 + missed'
    BY <1>1, <1>2, <1>12, FewerInferences
  <1> QED
    BY <1>1, <1>2, <1>3, <1>9, <1>10, TurnStep

\* Under one lock the closing update ends no verdict but by a user's answer.
LEMMA MarkTurn ==
    ASSUME TypeOK, TurnsInv, CitedInv, NEW w \in Workers, Mark(w)
    PROVE  /\ TurnsInv' /\ CitedInv'
           /\ OneLock /\ cand.status \in Terminal => cand'.status = "rejected"
  <1>1. /\ call[w].pc = "mark" /\ cand' = Marked(w) /\ Return(w)
        /\ UNCHANGED <<support, home, records, missed, cut>>
    BY DEF Mark
  <1>2. /\ call[w] \in CallRecord /\ cand \in CandidateRow
        /\ OneLock => TurnOK(call[w], cand, Inferences, missed, Clean)
        /\ OneLock => Cardinality(Inferences) <= 1 + missed
        /\ cand.sup <= support /\ call[w].sup <= support
    BY <1>1, Turn
  <1>3. Inferences' = Inferences /\ Clean' = Clean
    BY <1>1, SameInferences, SameClean
  <1>4. OneLock => call[w].op \in Evaluations \cup {"confirm", "reject"}
    BY <1>1, <1>2 DEF TurnOK
  <1>5. CASE call[w].op = "confirm"
    <2>1. cand' = [cand EXCEPT !.status = "superseded", !.inference = call[w].record]
      BY <1>1, <1>5 DEF Marked
    <2>2. cand'.sup = cand.sup
      BY <1>2, <2>1 DEF CandidateRow
    <2>3. OneLock => cand.status = "accepted" /\ (Clean => Inferences = {})
      BY <1>1, <1>2, <1>5 DEF TurnOK, Evaluations
    <2>4. OneLock /\ Clean => Linked(cand', Inferences)
      BY <2>3 DEF Linked
    <2>5. OneLock => cand.status \notin Terminal
      BY <2>3 DEF Terminal
    <2> QED
      BY <1>1, <1>2, <1>3, <2>2, <2>4, <2>5, ReturnTurn
  <1>6. CASE call[w].op = "reject"
    <2>1. cand' = [cand EXCEPT !.status = "rejected"]
      BY <1>1, <1>6 DEF Marked
    <2>2. cand'.sup = cand.sup /\ cand'.status = "rejected"
      BY <1>2, <2>1 DEF CandidateRow
    <2>3. OneLock /\ Clean => Inferences = {}
      BY <1>1, <1>2, <1>6 DEF TurnOK, Evaluations
    <2>4. OneLock /\ Clean => Linked(cand', Inferences)
      BY <2>3 DEF Linked
    <2> QED
      BY <1>1, <1>2, <1>3, <2>2, <2>4, ReturnTurn
  <1>7. CASE call[w].op \notin {"confirm", "reject"}
    <2> DEFINE r == IF call[w].verdict = "accepted" THEN call[w].record ELSE cand.inference
    <2>1. cand' = [cand EXCEPT !.status = call[w].verdict, !.sup = call[w].sup,
                      !.con = call[w].con, !.inference = r]
      BY <1>1, <1>7 DEF Marked
    <2> HIDE DEF r
    <2>2. cand'.status = call[w].verdict /\ cand'.inference = r /\ cand'.sup = call[w].sup
      BY <1>2, <2>1 DEF CandidateRow
    <2>3. OneLock => call[w].op \in Evaluations /\ cand.status = "evaluating"
      BY <1>1, <1>2, <1>4, <1>7 DEF TurnOK
    <2>4. CASE call[w].verdict = "accepted"
      <3>1. OneLock /\ Clean => Inferences \subseteq {r}
        BY <1>1, <1>2, <2>3, <2>4 DEF TurnOK, r
      <3> QED
        BY <1>1, <1>2, <1>3, <2>2, <2>3, <2>4, <3>1, ReturnTurn DEF Linked, Terminal
    <2>5. CASE call[w].verdict # "accepted"
      <3>1. OneLock /\ Clean => Inferences = {}
        BY <1>1, <1>2, <2>3, <2>5 DEF TurnOK
      <3> QED
        BY <1>1, <1>2, <1>3, <2>2, <2>3, <2>5, <3>1, ReturnTurn DEF Linked, Terminal
    <2> QED
      BY <2>4, <2>5
  <1> QED
    BY <1>5, <1>6, <1>7

LEMMA CutOffTurn ==
    ASSUME TypeOK, TurnsInv, CitedInv, NEW w \in Workers, CutOff(w)
    PROVE  TurnsInv' /\ CitedInv'
  <1>1. /\ call[w].pc # "idle" /\ Return(w) /\ cut' = TRUE
        /\ UNCHANGED <<support, home, cand, records, missed>>
    BY DEF CutOff
  <1>2. cand.sup <= support /\ (OneLock => Cardinality(Inferences) <= 1 + missed)
    BY <1>1, Turn
  <1>3. Inferences' = Inferences /\ ~Clean'
    BY <1>1, SameInferences DEF Clean
  <1> QED
    BY <1>1, <1>2, <1>3, ReturnTurn

\* Nobody moves: evidence grows, the row ages, records are taken away while no
\* handler of the lock is at work.
LEMMA StillTurn ==
    ASSUME TypeOK, TurnsInv, CitedInv, call' = call, home' = home, cut' = cut,
           missed' = missed,
           support' \in Nat, support <= support',
           cand'.sup = cand.sup, cand'.status = cand.status, cand'.inference = cand.inference,
           \/ Inferences' = Inferences
           \/ Inferences' \subseteq Inferences /\ (OneLock => \A w \in Workers : call[w].pc = "idle")
    PROVE  TurnsInv' /\ CitedInv'
  <1>1. /\ support \in Nat /\ cand.sup \in Nat
        /\ \A w \in Workers : call[w].sup \in Nat /\ call[w].row.sup \in Nat
    BY DEF TypeOK, CallRecord, CandidateRow
  <1>2. CitedInv'
    BY <1>1 DEF CitedInv
  <1>3. OneLock' => OneLock
    BY DEF OneLock
  <1>6. Clean' = Clean
    BY SameClean
  <1>4. CASE Inferences' = Inferences
    <2>1. ASSUME NEW k, TurnOK(k, cand, Inferences, missed, Clean)
          PROVE  TurnOK(k, cand', Inferences', missed', Clean')
      BY <1>4, <1>6, <2>1 DEF TurnOK, Linked
    <2> QED
      BY <1>2, <1>3, <1>4, <1>6, <2>1 DEF TurnsInv, Linked
  <1>5. CASE /\ Inferences' \subseteq Inferences
             /\ OneLock => \A w \in Workers : call[w].pc = "idle"
    <2>1. OneLock => Cardinality(Inferences') <= 1 + missed
      BY <1>5, FewerInferences DEF TurnsInv
    <2> QED
      BY <1>2, <1>3, <1>5, <1>6, <2>1 DEF TurnsInv, Linked
  <1> QED
    BY <1>4, <1>5

LEMMA ForgetTurn ==
    ASSUME TypeOK, TurnsInv, CitedInv, NEW w \in Workers, NEW r \in DOMAIN records,
           Forget(w, r)
    PROVE  TurnsInv' /\ CitedInv'
  <1>1. /\ UNCHANGED <<support, cand, call, home, missed, cut>> /\ LockFree(w)
        /\ \/ records' = Rejected(r)
           \/ records' = [records EXCEPT ![r].status = "removed"]
    BY DEF Forget
  <1>2. OneLock => \A v \in Workers : call[v].pc = "idle"
    BY <1>1 DEF LockFree, Running, OneLock
  <1>3. /\ records \in Seq(RecordRow) /\ r \in 0 .. MaxRecords
        /\ records[r] \in RecordRow
    BY BoundsAssumption, ElementOfSeq DEF TypeOK
  <1>4. Inferences' \subseteq Inferences
    <2>1. CASE records' = Rejected(r)
      BY <1>3, <2>1, RejectedInferences
    <2>2. CASE records' = [records EXCEPT ![r].status = "removed"]
      <3> DEFINE row == [records[r] EXCEPT !.status = "removed"]
      <3>1. row \in RecordRow /\ row.status = "removed"
        BY <1>3, RecordStatusType DEF RecordRow
      <3>2. records' = [records EXCEPT ![r] = row]
        BY <2>2
      <3> HIDE DEF row
      <3>3. /\ DOMAIN records' = DOMAIN records /\ records'[r].status = "removed"
            /\ \A q \in DOMAIN records : q # r => records'[q] = records[q]
        BY <1>3, <3>1, <3>2, Rewritten
      <3> QED
        BY <3>3 DEF Inferences, Active
    <2> QED
      BY <1>1, <2>1, <2>2
  <1>5. support' \in Nat /\ support <= support'
    BY <1>1 DEF TypeOK
  <1> QED
    BY <1>1, <1>2, <1>4, <1>5, StillTurn

LEMMA SurroundingsTurn ==
    ASSUME TypeOK, TurnsInv, CitedInv, Observe \/ CandidateAges \/ Tick
    PROVE  TurnsInv' /\ CitedInv' /\ cand'.status = cand.status
  <1>1. UNCHANGED <<call, home, records, missed, cut>>
    BY DEF Observe, CandidateAges, Tick
  <1>2. Inferences' = Inferences /\ Clean' = Clean
    BY <1>1, SameInferences, SameClean
  <1>3. support' \in Nat /\ support <= support'
    BY BoundsAssumption DEF Observe, CandidateAges, Tick, TypeOK
  <1>4. /\ cand'.sup = cand.sup /\ cand'.status = cand.status
        /\ cand'.inference = cand.inference
    <2>1. CASE cand' = cand
      BY <2>1
    <2>2. CASE cand' = [cand EXCEPT !.old = TRUE]
      <3>1. cand \in CandidateRow
        BY DEF TypeOK
      <3> QED
        BY <2>2, <3>1 DEF CandidateRow
    <2> QED
      BY <2>1, <2>2 DEF Observe, CandidateAges, Tick
  <1> QED
    BY <1>1, <1>2, <1>3, <1>4, StillTurn

LEMMA InitTurns == Init => TurnsInv /\ CitedInv
  <1> SUFFICES ASSUME Init PROVE TurnsInv /\ CitedInv
    OBVIOUS
  <1>1. Inferences = {}
    BY DEF Init, Inferences, Active
  <1>2. \A w \in Workers : call[w].pc = "idle" /\ call[w].row.sup = 0 /\ call[w].sup = 0
    BY IdleFields DEF Init
  <1>3. cand.sup = 0 /\ support = 0
    BY DEF Init, NoRow
  <1>4. TurnsInv
    <2>1. missed = 0 /\ Cardinality(Inferences) = 0
      BY <1>1, FS_EmptySet DEF Init
    <2> QED
      BY <1>1, <1>2, <2>1 DEF TurnsInv, Linked
  <1>5. CitedInv
    BY <1>2, <1>3 DEF CitedInv
  <1> QED
    BY <1>4, <1>5

\* Every verdict stands among handlers that take turns.
VerdictStands ==
    OneLock /\ cand.status \in Terminal => cand'.status \in {cand.status, "rejected"}

LEMMA TurnsStep ==
    ASSUME TypeOK, Backlinks, TurnsInv, CitedInv, Next
    PROVE  TurnsInv' /\ CitedInv' /\ VerdictStands
  <1>1. cand' = cand => VerdictStands
    BY DEF VerdictStands
  <1>2. ASSUME NEW w \in Workers,
               Run(w) \/ Propose(w) \/ Evaluate(w) \/ Confirm(w) \/ Reject(w)
        PROVE  TurnsInv' /\ CitedInv' /\ VerdictStands
    <2>1. {"run", "propose", "evaluate", "confirm", "reject"} \subseteq Operations
      BY DEF Operations
    <2>2. PICK op \in Operations, pc \in {"sweep", "detect", "read"} :
             /\ Start(w, op, pc)
             /\ pc = "read" => op \in Evaluations \cup {"confirm", "reject"}
      BY <1>2, <2>1 DEF Run, Propose, Evaluate, Confirm, Reject, Evaluations
    <2>3. TurnsInv' /\ CitedInv'
      BY <2>2, StartTurn
    <2> QED
      BY <1>1, <2>2, <2>3 DEF Start
  <1>3. ASSUME NEW w \in Workers, Sweep(w)
        PROVE  TurnsInv' /\ CitedInv' /\ VerdictStands
    BY <1>3, SweepTurn DEF Sweep, Undecided, Terminal, VerdictStands
  <1>4. ASSUME NEW w \in Workers, Upsert(w)
        PROVE  TurnsInv' /\ CitedInv' /\ VerdictStands
    <2>1. cand.status \in Terminal => cand' = cand
      BY <1>4 DEF Upsert, Upserted, Terminal, Undecided
    <2> QED
      BY <1>4, <2>1, UpsertTurn DEF VerdictStands
  <1>5. ASSUME NEW w \in Workers, Detect(w) \/ ReadCandidate(w) \/ Lookup(w) \/ PutInference(w)
        PROVE  TurnsInv' /\ CitedInv' /\ VerdictStands
    <2>1. cand' = cand
      BY <1>5 DEF Detect, ReadCandidate, Lookup, PutInference
    <2> QED
      BY <1>1, <1>5, <2>1, DetectTurn, ReadTurn, LookupTurn, PutTurn
  <1>6. ASSUME NEW w \in Workers, BeginEvaluation(w)
        PROVE  TurnsInv' /\ CitedInv' /\ VerdictStands
    <2>1. call[w].pc = "begin"
      BY <1>6 DEF BeginEvaluation
    <2>2. OneLock => cand.status \notin Terminal
      BY <2>1, Turn DEF TurnOK
    <2> QED
      BY <1>6, <2>2, BeginTurn DEF VerdictStands
  <1>7. ASSUME NEW w \in Workers, Supersede(w) \/ Retire(w) \/ CutOff(w)
        PROVE  TurnsInv' /\ CitedInv' /\ VerdictStands
    <2>1. cand' = cand
      BY <1>7 DEF Supersede, Retire, CutOff
    <2> QED
      BY <1>1, <1>7, <2>1, SupersedeTurn, RetireTurn, CutOffTurn
  <1>8. ASSUME NEW w \in Workers, Mark(w)
        PROVE  TurnsInv' /\ CitedInv' /\ VerdictStands
    BY <1>8, MarkTurn DEF VerdictStands
  <1>9. ASSUME NEW w \in Workers, NEW r \in DOMAIN records, Forget(w, r)
        PROVE  TurnsInv' /\ CitedInv' /\ VerdictStands
    BY <1>1, <1>9, ForgetTurn DEF Forget
  <1>10. ASSUME Observe \/ CandidateAges \/ Tick
         PROVE  TurnsInv' /\ CitedInv' /\ VerdictStands
    BY <1>10, SurroundingsTurn DEF VerdictStands
  <1> QED
    BY <1>2, <1>3, <1>4, <1>5, <1>6, <1>7, <1>8, <1>9, <1>10 DEF Next

LEMMA TurnsStutter ==
    ASSUME TurnsInv, CitedInv, UNCHANGED vars
    PROVE  TurnsInv' /\ CitedInv'
  <1>1. Inferences' = Inferences /\ (OneLock' <=> OneLock)
    BY DEF vars, Inferences, Active, OneLock
  <1>2. Clean' = Clean
    BY SameClean DEF vars
  <1> QED
    BY <1>1, <1>2 DEF vars, TurnsInv, CitedInv

\* What handlers that take turns leave and find, wherever one is cut off.
LEMMA TurnsCorrect == Spec => [](TurnsInv /\ CitedInv)
  <1>1. /\ TypeOK /\ Backlinks /\ TurnsInv /\ CitedInv /\ [Next]_vars
        => TurnsInv' /\ CitedInv'
    BY TurnsStep, TurnsStutter
  <1>2. Spec => [](TypeOK /\ Backlinks)
    BY BacklinksCorrect
  <1> QED
    BY <1>1, <1>2, InitTurns, PTL DEF Spec

\* OneActiveInference: re-running learning converges.  Handlers that take
\* turns on the mutation_lock leave no second active inference of one
\* hypothesis but one at the most for each search that met its limit, for any
\* number of handlers and wherever one is cut off.
THEOREM OneInferenceCorrect == Spec => []OneActiveInference
  <1>1. TurnsInv => OneActiveInference
    BY DEF TurnsInv, OneActiveInference
  <1> QED
    BY <1>1, TurnsCorrect, PTL

\* LinkedKnowledge: when no handler was cut off, no search fell short and none
\* is at work, an active inference is the one an accepted row links, so no lapsed, rejected or
\* confirmed hypothesis leaves stale knowledge active beside it.
THEOREM LinkedCorrect == Spec => []LinkedKnowledge
  <1>1. TurnsInv => LinkedKnowledge
    BY DEF TurnsInv, LinkedKnowledge, Running, Linked, Clean
  <1> QED
    BY <1>1, TurnsCorrect, PTL

\* VerdictKept: among handlers that take turns a terminal row is rewritten by
\* nothing but a user's rejection, whatever evidence arrives and wherever a
\* handler is cut off.
THEOREM VerdictCorrect == Spec => VerdictKept
  <1>1. /\ TypeOK /\ Backlinks /\ TurnsInv /\ CitedInv /\ [Next]_vars
        => [(OneLock /\ cand.status \in Terminal)
              => cand'.status \in {cand.status, "rejected"}]_vars
    BY TurnsStep DEF VerdictStands
  <1>2. Spec => [](TypeOK /\ Backlinks)
    BY BacklinksCorrect
  <1> QED
    BY <1>1, <1>2, TurnsCorrect, PTL DEF Spec, VerdictKept
=============================================================================
