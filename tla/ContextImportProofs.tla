------------------------ MODULE ContextImportProofs ------------------------
(***************************************************************************)
(* Proofs about ContextImport, and with it about Sessions and Records: for *)
(* any set of tool calls, any bundle of another device, any rows that are  *)
(* here already and any number of imports that are cut off.                *)
(***************************************************************************)
EXTENDS ContextImport, TLAPS, FiniteSetTheorems, SequenceTheorems

----------------------------------------------------------------------------
(* Types *)

Happenings == ({"capture", "observation"} \X Calls) \cup ({"local", "ended", "observed"} \X Nat)

ImportKeys == {"import"} \X ({"observed"} \X Nat) \X {Here, There}

Keys == {NoKey} \cup ({"session-ended", "own"} \X Nat) \cup ImportKeys

EventRow ==
    [what : Happenings, dedup_key : Keys, session_id : Nat \cup {NoSession}, ws : {Here, There}]

SessionRow == [ws : {Here, There}, status : {"active", "completed", "abandoned"}, event_count : Nat]

CallPcs == {"idle", "ensure", "open", "record", "check", "update", "ended", "observe", "look",
            "mint", "put", "forget", "done"}

CallRecord ==
    [pc : CallPcs, now : Nat, session : Nat \cup {NoSession},
     status : {"active", "completed", "abandoned", "expired"}, target : Nat \X Nat,
     id : Nat \X Nat, authority : Authorities, evidence : Nat, since : Nat, missed : BOOLEAN]

RecordRow ==
    [by : Calls \cup {"local", "bundle"}, status : Statuses, updated_at : Nat,
     authority : Authorities, about : Happenings \cup {<<"user", 0>>}, evidence : Nat,
     supersedes : Nat, version : Nat \ {0}]

SessionsType == sessions \in [DOMAIN sessions -> SessionRow] /\ DOMAIN sessions \subseteq Nat

RecordsType(recs) ==
    /\ recs \in [DOMAIN recs -> RecordRow]
    /\ DOMAIN recs \subseteq Nat \X Nat
    /\ IsFiniteSet(DOMAIN recs)

ImportPcs == {"none", "idle", "session", "event", "record", "done"}

ImportType(x) ==
    /\ DOMAIN x = {"pc", "mapped", "status", "i", "inserted", "failures", "local", "event_map"}
    /\ x.status \in {"active", "completed", "abandoned"}
    /\ x.pc \in ImportPcs
    /\ x.i \in Nat \ {0}
    /\ x.event_map \in [DOMAIN BundleEvents -> Nat]

TypeOK ==
    /\ clock \in Nat
    /\ SessionsType
    /\ events \in Seq(EventRow)
    /\ call \in [Calls -> CallRecord]
    /\ RecordsType(records)
    /\ written \in Nat
    /\ ImportType(imp)

----------------------------------------------------------------------------
(* The inductive invariant *)

\* The key an event of the bundle is stored under, in workspace w.
BundleKey(n, w) ==
    IF BundleEvents[n].dedup_key = NoKey THEN <<"import", BundleEvents[n].what, w>>
    ELSE BundleEvents[n].dedup_key

\* An ending, or an event of the bundle, is here under the key that names it,
\* and nothing else is.
Keyed(e, w) ==
    /\ \A s \in Nat : e.what = <<"ended", s>> <=> e.dedup_key = <<"session-ended", s>>
    /\ \A n \in DOMAIN BundleEvents : e.what = BundleEvents[n].what <=> e.dedup_key = BundleKey(n, w)

\* Sessions are numbered without a gap, but for the bundle's.
Numbered(S) == \E k \in Nat : S \cup {0} = 0 .. k

EventsInv ==
    /\ \A i \in DOMAIN events : events[i].session_id \in DOMAIN sessions \cup {NoSession}
    /\ \A i \in DOMAIN events : Keyed(events[i], mapped_workspace)
    /\ Len(events) >= 1 /\ events[1].what = <<"local", 0>>

HistoryInv == Numbered(DOMAIN sessions) /\ EventsInv /\ CountsMatch /\ HappenedOnce

\* A row brought by an import names a predecessor, but never took its place.
Foreign(row) == row.by = "bundle"

\* No two rows are of one version, and none that is still active has a
\* successor that was stored by a call.
Versions(recs, w) ==
    /\ \A d \in DOMAIN recs : recs[d].version <= w /\ recs[d].supersedes <= w
    /\ \A d, e \in DOMAIN recs : recs[d].version = recs[e].version => d = e
    /\ \A d, e \in DOMAIN recs :
          Active(recs[d]) /\ ~Foreign(recs[e]) => recs[d].version # recs[e].supersedes
    /\ \A d, e \in DOMAIN recs :
          /\ recs[d].supersedes = recs[e].supersedes /\ recs[d].supersedes # 0
          /\ ~Foreign(recs[d]) /\ ~Foreign(recs[e])
          => d = e

Cites(row, evs) ==
    row.evidence # 0 => row.evidence \in DOMAIN evs /\ evs[row.evidence].what = row.about

Cited(recs, evs) == \A d \in DOMAIN recs : Cites(recs[d], evs)

RecordsInv == Versions(records, written) /\ Cited(records, events)

\* What a call knows stays true while others work: its session is there, its
\* observation is the row it noted, and whatever became active since its
\* search had seen everything and found nothing was written since.
CallOK(r, c, S, evs, recs, w) ==
    /\ r.session \in S \cup {NoSession}
    /\ r.pc \in {"check", "update", "ended"} => r.session \in S
    /\ r.pc \in {"check", "update"} => r.status \in {"completed", "abandoned"}
    /\ r.pc \in {"observe", "look", "mint", "put"} => r.status \in {"active", "expired"}
    /\ r.evidence # 0 => r.evidence \in DOMAIN evs /\ evs[r.evidence].what = <<"observation", c>>
    /\ r.since <= w
    /\ r.pc \in {"mint", "put"} /\ r.target = NoRecord /\ r.status = "active" /\ ~r.missed =>
          \A d \in DOMAIN recs : Active(recs[d]) => r.since < recs[d].version

\* A call's capture is its last act, its observation is its first.
Unrecorded(r, c, evs) ==
    \A i \in DOMAIN evs :
        /\ evs[i].what = <<"capture", c>> => r.pc = "done"
        /\ evs[i].what = <<"observation", c>> => r.pc \notin {"idle", "observe"}

CallsInv ==
    \A c \in Calls :
        /\ CallOK(call[c], c, DOMAIN sessions, events, records, written)
        /\ Unrecorded(call[c], c, events)

\* The ids given to the bundle's events so far.
MapsTo(id, n, evs) == id \in DOMAIN evs /\ evs[id].what = BundleEvents[n].what

ImportOK(x, evs) ==
    /\ x.pc = "session" => x.i = 1
    /\ x.pc = "event" => \A n \in DOMAIN BundleEvents : n < x.i => MapsTo(x.event_map[n], n, evs)
    /\ x.pc = "record" => \A n \in DOMAIN BundleEvents : MapsTo(x.event_map[n], n, evs)

IInv == TypeOK /\ HistoryInv /\ RecordsInv /\ CallsInv /\ ImportOK(imp, events)

----------------------------------------------------------------------------
(* The bundle *)

LEMMA BundleFacts ==
    /\ Len(BundleEvents) \in Nat
    /\ DOMAIN BundleEvents = 1 .. Len(BundleEvents)
    /\ \A n \in DOMAIN BundleEvents : BundleEvents[n] \in OwnEvent \cup {SessionEnding}
<1>1. BundleEvents \in Seq(OwnEvent \cup {SessionEnding})  BY BundleAssumption
<1> QED  BY <1>1, LenProperties, ElementOfSeq

\* An event of the bundle is the other device's own, or the ending.
LEMMA BundleShape ==
    ASSUME NEW n \in DOMAIN BundleEvents
    PROVE  \/ /\ BundleEvents[n].what \in {"observed"} \X Nat
              /\ BundleEvents[n].dedup_key \in {NoKey} \cup ({"own"} \X Nat)
              /\ BundleEvents[n].session_id \in {NoSession, BundleSession}
           \/ /\ BundleEvents[n].what = <<"ended", BundleSession>>
              /\ BundleEvents[n].dedup_key = <<"session-ended", BundleSession>>
              /\ BundleEvents[n].session_id = BundleSession
<1>1. BundleEvents[n] \in OwnEvent \cup {SessionEnding}  BY BundleFacts
<1>2. CASE BundleEvents[n] \in OwnEvent  BY <1>2 DEF OwnEvent
<1>3. CASE BundleEvents[n] = SessionEnding  BY <1>3 DEF SessionEnding
<1> QED  BY <1>1, <1>2, <1>3

LEMMA WorkspaceType == mapped_workspace \in {Here, There}
  BY DEF mapped_workspace

LEMMA ImportKeyIsBundleKey ==
    ASSUME NEW n \in DOMAIN BundleEvents
    PROVE  ImportKey(BundleEvents[n]) = BundleKey(n, mapped_workspace)
  BY DEF ImportKey, BundleKey

\* The key of a bundle event: its own, one made of its contents, or the
\* ending's; never none.
LEMMA BundleKeyShape ==
    ASSUME NEW n \in DOMAIN BundleEvents, NEW w \in {Here, There}
    PROVE  /\ BundleKey(n, w) \in Keys
           /\ BundleKey(n, w) # NoKey
           /\ \A s \in Nat : BundleKey(n, w) = <<"session-ended", s>>
                                <=> BundleEvents[n].what = <<"ended", s>>
<1>1. CASE BundleEvents[n].what = <<"ended", BundleSession>>
           /\ BundleEvents[n].dedup_key = <<"session-ended", BundleSession>>
  <2>1. BundleSession \in Nat  BY DEF BundleSession
  <2>2. <<"session-ended", BundleSession>> \in {"session-ended", "own"} \X Nat  BY <2>1
  <2>3. <<"session-ended", BundleSession>> # NoKey
    BY <2>1, SessionsAssumption
  <2>4. BundleKey(n, w) = <<"session-ended", BundleSession>>  BY <1>1, <2>3 DEF BundleKey
  <2>5. \A s \in Nat : <<"session-ended", BundleSession>> = <<"session-ended", s>>
                          <=> <<"ended", BundleSession>> = <<"ended", s>>
    OBVIOUS
  <2> QED  BY <1>1, <2>2, <2>3, <2>4, <2>5 DEF Keys
<1>2. CASE /\ BundleEvents[n].what \in {"observed"} \X Nat
           /\ BundleEvents[n].dedup_key \in {NoKey} \cup ({"own"} \X Nat)
  <2>1. \A s \in Nat : BundleEvents[n].what # <<"ended", s>>  BY <1>2
  <2>2. CASE BundleEvents[n].dedup_key = NoKey
    <3> DEFINE k == <<"import", BundleEvents[n].what, w>>
    <3>1. BundleKey(n, w) = k  BY <2>2 DEF BundleKey
    <3>2. k \in ImportKeys  BY <1>2 DEF ImportKeys
    <3>3. k # NoKey  BY <3>2, BundleAssumption DEF ImportKeys
    <3>4. \A s \in Nat : k # <<"session-ended", s>>
      <4>1. k[1] = "import"  OBVIOUS
      <4>2. \A s \in Nat : <<"session-ended", s>>[1] = "session-ended"  OBVIOUS
      <4> HIDE DEF k
      <4> QED  BY <4>1, <4>2
    <3> HIDE DEF k
    <3> QED  BY <2>1, <3>1, <3>2, <3>3, <3>4 DEF Keys
  <2>3. CASE BundleEvents[n].dedup_key # NoKey
    <3>1. BundleKey(n, w) = BundleEvents[n].dedup_key  BY <2>3 DEF BundleKey
    <3>2. BundleEvents[n].dedup_key \in {"own"} \X Nat  BY <1>2, <2>3
    <3>3. \A s \in Nat : BundleEvents[n].dedup_key # <<"session-ended", s>>  BY <3>2
    <3>4. BundleEvents[n].dedup_key \in Keys  BY <3>2 DEF Keys
    <3> QED  BY <2>1, <2>3, <3>1, <3>3, <3>4
  <2> QED  BY <2>2, <2>3
<1> QED  BY <1>1, <1>2, BundleShape

\* Two events of the bundle never share a key.
LEMMA BundleKeyInjective ==
    ASSUME NEW m \in DOMAIN BundleEvents, NEW n \in DOMAIN BundleEvents, NEW w \in {Here, There}
    PROVE  /\ BundleKey(m, w) = BundleKey(n, w) => m = n
           /\ BundleEvents[m].what = BundleEvents[n].what => m = n
<1>1. BundleEvents[m].what = BundleEvents[n].what => m = n  BY BundleAssumption
<1>2. BundleEvents[m].dedup_key = BundleEvents[n].dedup_key /\ BundleEvents[m].dedup_key # NoKey => m = n
  BY BundleAssumption
<1> DEFINE made(k) == <<"import", BundleEvents[k].what, w>>
<1>3. made(m) = made(n) => BundleEvents[m].what = BundleEvents[n].what  OBVIOUS
<1>4. \A k \in DOMAIN BundleEvents : made(k)[1] = "import"  OBVIOUS
<1>5. \A k \in DOMAIN BundleEvents : BundleEvents[k].dedup_key # NoKey
                                        => BundleEvents[k].dedup_key[1] \in {"own", "session-ended"}
  <2> TAKE k \in DOMAIN BundleEvents
  <2>1. CASE BundleEvents[k].dedup_key = <<"session-ended", BundleSession>>  BY <2>1
  <2>2. CASE BundleEvents[k].dedup_key \in {NoKey} \cup ({"own"} \X Nat)  BY <2>2
  <2> QED  BY <2>1, <2>2, BundleShape
<1>6. \A k \in DOMAIN BundleEvents :
         BundleKey(k, w) = IF BundleEvents[k].dedup_key = NoKey THEN made(k) ELSE BundleEvents[k].dedup_key
  BY DEF BundleKey
<1> HIDE DEF made
<1>7. BundleKey(m, w) = BundleKey(n, w) => m = n
  <2>1. CASE BundleEvents[m].dedup_key = NoKey /\ BundleEvents[n].dedup_key = NoKey
    BY <1>1, <1>3, <1>6, <2>1
  <2>2. CASE BundleEvents[m].dedup_key # NoKey /\ BundleEvents[n].dedup_key # NoKey
    BY <1>2, <1>6, <2>2
  <2>3. CASE BundleEvents[m].dedup_key = NoKey /\ BundleEvents[n].dedup_key # NoKey
    BY <1>4, <1>5, <1>6, <2>3
  <2>4. CASE BundleEvents[m].dedup_key # NoKey /\ BundleEvents[n].dedup_key = NoKey
    BY <1>4, <1>5, <1>6, <2>4
  <2> QED  BY <2>1, <2>2, <2>3, <2>4
<1> QED  BY <1>1, <1>7

----------------------------------------------------------------------------
(* The four events the system records *)

CaptureEvent(c, s) ==
    [what |-> <<"capture", c>>, dedup_key |-> NoKey, session_id |-> s, ws |-> Here]

ObservationEvent(c) ==
    [what |-> <<"observation", c>>, dedup_key |-> NoKey, session_id |-> NoSession, ws |-> Here]

EndedEvent(s) ==
    [what |-> <<"ended", s>>, dedup_key |-> <<"session-ended", s>>, session_id |-> s, ws |-> Here]

ImportedEvent(n, s) ==
    [what |-> BundleEvents[n].what, dedup_key |-> BundleKey(n, mapped_workspace),
     ws |-> mapped_workspace, session_id |-> s]

\* What a call does under its own name is keyless and not in any bundle.
LEMMA OwnKeyed ==
    ASSUME NEW c \in Calls, NEW w \in {Here, There}, NEW e,
           e.what \in {<<"capture", c>>, <<"observation", c>>}, e.dedup_key = NoKey
    PROVE  Keyed(e, w)
<1>1. \A s \in Nat : e.what # <<"ended", s>>  OBVIOUS
<1>2. \A s \in Nat : NoKey # <<"session-ended", s>>  BY SessionsAssumption
<1>3. \A n \in DOMAIN BundleEvents : e.what # BundleEvents[n].what
  <2> TAKE n \in DOMAIN BundleEvents
  <2>1. CASE BundleEvents[n].what \in {"observed"} \X Nat  BY <2>1
  <2>2. CASE BundleEvents[n].what = <<"ended", BundleSession>>  BY <2>2
  <2> QED  BY <2>1, <2>2, BundleShape
<1>4. \A n \in DOMAIN BundleEvents : BundleKey(n, w) # NoKey  BY BundleKeyShape
<1> QED  BY <1>1, <1>2, <1>3, <1>4 DEF Keyed

LEMMA EndedKeyed ==
    ASSUME NEW k \in Nat, NEW w \in {Here, There}, NEW e,
           e.what = <<"ended", k>>, e.dedup_key = <<"session-ended", k>>
    PROVE  Keyed(e, w)
<1>1. \A s \in Nat : e.what = <<"ended", s>> <=> e.dedup_key = <<"session-ended", s>>  OBVIOUS
<1>2. \A n \in DOMAIN BundleEvents : e.what = BundleEvents[n].what <=> e.dedup_key = BundleKey(n, w)
  <2> TAKE n \in DOMAIN BundleEvents
  <2>1. BundleKey(n, w) = <<"session-ended", k>> <=> BundleEvents[n].what = <<"ended", k>>
    BY BundleKeyShape
  <2> QED  BY <2>1
<1> QED  BY <1>1, <1>2 DEF Keyed

LEMMA ImportedKeyed ==
    ASSUME NEW m \in DOMAIN BundleEvents, NEW w \in {Here, There}, NEW e,
           e.what = BundleEvents[m].what, e.dedup_key = BundleKey(m, w)
    PROVE  Keyed(e, w)
<1>1. \A s \in Nat : BundleKey(m, w) = <<"session-ended", s>> <=> BundleEvents[m].what = <<"ended", s>>
  BY BundleKeyShape
<1>2. \A n \in DOMAIN BundleEvents : BundleEvents[m].what = BundleEvents[n].what <=> BundleKey(m, w) = BundleKey(n, w)
  BY BundleKeyInjective
<1> QED  BY <1>1, <1>2 DEF Keyed

LEMMA LocalKeyed ==
    ASSUME NEW w \in {Here, There}, NEW e, e.what = <<"local", 0>>, e.dedup_key = NoKey
    PROVE  Keyed(e, w)
<1>1. \A s \in Nat : e.what # <<"ended", s>>  OBVIOUS
<1>2. \A s \in Nat : NoKey # <<"session-ended", s>>  BY SessionsAssumption
<1>3. \A n \in DOMAIN BundleEvents : e.what # BundleEvents[n].what
  <2> TAKE n \in DOMAIN BundleEvents
  <2>1. CASE BundleEvents[n].what \in {"observed"} \X Nat  BY <2>1
  <2>2. CASE BundleEvents[n].what = <<"ended", BundleSession>>  BY <2>2
  <2> QED  BY <2>1, <2>2, BundleShape
<1>4. \A n \in DOMAIN BundleEvents : BundleKey(n, w) # NoKey  BY BundleKeyShape
<1> QED  BY <1>1, <1>2, <1>3, <1>4 DEF Keyed

LEMMA EventTypes ==
    /\ \A c \in Calls, s \in Nat \cup {NoSession} : CaptureEvent(c, s) \in EventRow
    /\ \A c \in Calls : ObservationEvent(c) \in EventRow
    /\ \A s \in Nat : EndedEvent(s) \in EventRow
    /\ \A n \in DOMAIN BundleEvents, s \in Nat \cup {NoSession} : ImportedEvent(n, s) \in EventRow
<1>1. \A c \in Calls, s \in Nat \cup {NoSession} : CaptureEvent(c, s) \in EventRow
  BY DEF CaptureEvent, EventRow, Happenings, Keys
<1>2. \A c \in Calls : ObservationEvent(c) \in EventRow
  BY DEF ObservationEvent, EventRow, Happenings, Keys
<1>3. \A s \in Nat : EndedEvent(s) \in EventRow
  BY DEF EndedEvent, EventRow, Happenings, Keys
<1>4. ASSUME NEW n \in DOMAIN BundleEvents, NEW s \in Nat \cup {NoSession}
      PROVE  ImportedEvent(n, s) \in EventRow
  <2>1. BundleEvents[n].what \in Happenings
    <3>1. CASE BundleEvents[n].what \in {"observed"} \X Nat  BY <3>1 DEF Happenings
    <3>2. CASE BundleEvents[n].what = <<"ended", BundleSession>>
      BY <3>2 DEF Happenings, BundleSession
    <3> QED  BY <3>1, <3>2, BundleShape
  <2>2. BundleKey(n, mapped_workspace) \in Keys  BY BundleKeyShape, WorkspaceType
  <2> QED  BY <2>1, <2>2, WorkspaceType DEF ImportedEvent, EventRow
<1> QED  BY <1>1, <1>2, <1>3, <1>4

----------------------------------------------------------------------------
(* The history *)

LEMMA LinkedFinite ==
    ASSUME NEW evs \in Seq(EventRow), NEW s
    PROVE  IsFiniteSet(Linked(evs, s)) /\ Cardinality(Linked(evs, s)) \in Nat
<1>1. Len(evs) \in Nat /\ DOMAIN evs = 1 .. Len(evs)  BY LenProperties
<1>2. IsFiniteSet(1 .. Len(evs))  BY <1>1, FS_Interval
<1>3. Linked(evs, s) \in SUBSET (1 .. Len(evs))  BY <1>1 DEF Linked
<1>4. IsFiniteSet(Linked(evs, s))  BY <1>2, <1>3, FS_Subset
<1> QED  BY <1>4, FS_CardinalityType

\* An event counts for its session and for no other.
LEMMA LinkedAppend ==
    ASSUME NEW evs \in Seq(EventRow), NEW e \in EventRow, NEW s
    PROVE  Cardinality(Linked(Append(evs, e), s)) =
              IF e.session_id = s THEN Cardinality(Linked(evs, s)) + 1 ELSE Cardinality(Linked(evs, s))
<1> DEFINE n == Len(evs) + 1
           all == Append(evs, e)
<1>1. Len(evs) \in Nat /\ DOMAIN evs = 1 .. Len(evs)  BY LenProperties
<1>2. all \in Seq(EventRow) /\ Len(all) = n /\ all[n] = e /\ \A i \in 1 .. Len(evs) : all[i] = evs[i]
  BY AppendProperties
<1>3. DOMAIN all = 1 .. n  BY <1>2, LenProperties
<1> HIDE DEF all
<1>4. n \notin Linked(evs, s)  BY <1>1 DEF Linked
<1>5. IsFiniteSet(Linked(evs, s))  BY LinkedFinite
<1>6. CASE e.session_id = s
  <2>1. Linked(all, s) = Linked(evs, s) \cup {n}  BY <1>1, <1>2, <1>3, <1>6 DEF Linked
  <2>2. Cardinality(Linked(evs, s) \cup {n}) = Cardinality(Linked(evs, s)) + 1
    BY <1>4, <1>5, FS_AddElement
  <2> QED  BY <1>6, <2>1, <2>2 DEF all
<1>7. CASE e.session_id # s
  <2>1. Linked(all, s) = Linked(evs, s)  BY <1>1, <1>2, <1>3, <1>7 DEF Linked
  <2> QED  BY <1>7, <2>1 DEF all
<1> QED  BY <1>6, <1>7

\* A session no event is linked to counts none.
LEMMA LinkedNone ==
    ASSUME NEW evs, NEW s, \A i \in DOMAIN evs : evs[i].session_id # s
    PROVE  Cardinality(Linked(evs, s)) = 0
<1>1. Linked(evs, s) = {}  BY DEF Linked
<1> QED  BY <1>1, FS_EmptySet

\* Nothing but e came to the history.
Extended(e) ==
    /\ \A i \in DOMAIN events : i \in DOMAIN events' /\ events'[i] = events[i]
    /\ \A i \in DOMAIN events' : i \in DOMAIN events \/ events'[i] = e

LEMMA NextPlace ==
    ASSUME events \in Seq(EventRow), NEW e \in EventRow, events' = Append(events, e)
    PROVE  /\ events' \in Seq(EventRow)
           /\ Len(events) \in Nat
           /\ Len(events') = Len(events) + 1
           /\ DOMAIN events = 1 .. Len(events)
           /\ DOMAIN events' = 1 .. Len(events) + 1
           /\ events'[Len(events) + 1] = e
           /\ \A i \in DOMAIN events : events'[i] = events[i]
           /\ Extended(e)
<1>1. Len(events) \in Nat /\ DOMAIN events = 1 .. Len(events)  BY LenProperties
<1>2. /\ events' \in Seq(EventRow) /\ Len(events') = Len(events) + 1
      /\ events'[Len(events) + 1] = e /\ \A i \in 1 .. Len(events) : events'[i] = events[i]
  BY AppendProperties
<1>3. DOMAIN events' = 1 .. Len(events) + 1  BY <1>2, LenProperties
<1> QED  BY <1>1, <1>2, <1>3 DEF Extended

\* The shared transaction keeps the history sound, if a happening whose key is
\* new is new itself.
LEMMA RecordedHistory ==
    ASSUME SessionsType, events \in Seq(EventRow), HistoryInv, NEW e \in EventRow,
           Keyed(e, mapped_workspace),
           e.session_id \in DOMAIN sessions \cup {NoSession},
           ~Seen(e.dedup_key) => \A i \in DOMAIN events : events[i].what # e.what,
           record_event_in_tx(e),
           mapped_workspace' = mapped_workspace
    PROVE  /\ SessionsType'
           /\ events' \in Seq(EventRow)
           /\ HistoryInv'
           /\ DOMAIN sessions' = DOMAIN sessions
           /\ Extended(e)
<1>1. CASE Seen(e.dedup_key)
  <2>1. events' = events /\ sessions' = sessions
    BY <1>1 DEF record_event_in_tx, historyVars
  <2> QED
    BY <2>1 DEF SessionsType, HistoryInv, EventsInv, CountsMatch, HappenedOnce, Extended
<1>2. CASE ~Seen(e.dedup_key)
  <2>1. events' = Append(events, e)  BY <1>2 DEF record_event_in_tx
  <2>2. sessions' = IF e.session_id = NoSession THEN sessions
                    ELSE [sessions EXCEPT ![e.session_id].event_count = @ + 1]
    BY <1>2 DEF record_event_in_tx
  <2>3. /\ events' \in Seq(EventRow)
        /\ Len(events) \in Nat
        /\ DOMAIN events = 1 .. Len(events)
        /\ Len(events') = Len(events) + 1
        /\ DOMAIN events' = 1 .. Len(events) + 1
        /\ events'[Len(events) + 1] = e
        /\ \A i \in DOMAIN events : events'[i] = events[i]
        /\ Extended(e)
    <3>1. events \in Seq(EventRow) /\ e \in EventRow  OBVIOUS
    <3> QED  BY <2>1, <3>1, NextPlace
  <2>4. SessionsType' /\ DOMAIN sessions' = DOMAIN sessions
    <3>1. CASE e.session_id = NoSession
      <4>1. sessions' = sessions  BY <2>2, <3>1
      <4> QED  BY <4>1 DEF SessionsType
    <3>2. CASE e.session_id # NoSession
      <4> DEFINE s == e.session_id
                 row == [sessions[s] EXCEPT !.event_count = @ + 1]
      <4>1. s \in DOMAIN sessions /\ sessions[s] \in SessionRow  BY <3>2 DEF SessionsType
      <4>2. row \in SessionRow  BY <4>1 DEF SessionRow
      <4>3. sessions' = [sessions EXCEPT ![s] = row]  BY <2>2, <3>2
      <4> HIDE DEF s, row
      <4>4. DOMAIN sessions' = DOMAIN sessions  BY <4>3
      <4>5. \A t \in DOMAIN sessions : sessions'[t] \in SessionRow  BY <4>2, <4>3 DEF SessionsType
      <4>6. sessions' = [t \in DOMAIN sessions |-> sessions'[t]]  BY <4>3
      <4> QED  BY <4>4, <4>5, <4>6 DEF SessionsType
    <3> QED  BY <3>1, <3>2
  <2>5. \A s \in DOMAIN sessions :
           sessions'[s].event_count = IF e.session_id = s THEN sessions[s].event_count + 1
                                      ELSE sessions[s].event_count
    <3>1. NoSession \notin DOMAIN sessions  BY SessionsAssumption DEF SessionsType
    <3> QED  BY <2>2, <3>1 DEF SessionsType, SessionRow
  <2>6. CountsMatch'
    <3> SUFFICES ASSUME NEW s \in DOMAIN sessions
                 PROVE  sessions'[s].event_count = Cardinality(Linked(events', s))
      BY <2>4 DEF CountsMatch
    <3>1. sessions[s].event_count = Cardinality(Linked(events, s))  BY DEF HistoryInv, CountsMatch
    <3>2. Cardinality(Linked(events', s)) =
             IF e.session_id = s THEN Cardinality(Linked(events, s)) + 1 ELSE Cardinality(Linked(events, s))
      BY <2>1, LinkedAppend
    <3> QED  BY <2>5, <3>1, <3>2
  <2>7. HappenedOnce'
    <3>1. \A i \in DOMAIN events : events[i].what # e.what  BY <1>2
    <3> QED  BY <2>3, <3>1 DEF HappenedOnce, HistoryInv
  <2>8. EventsInv'
    <3>1. \A i \in DOMAIN events' : events'[i].session_id \in DOMAIN sessions' \cup {NoSession}
      BY <2>3, <2>4 DEF HistoryInv, EventsInv
    <3>2. \A i \in DOMAIN events' : Keyed(events'[i], mapped_workspace)
      BY <2>3 DEF HistoryInv, EventsInv
    <3>3. Len(events') >= 1 /\ events'[1].what = <<"local", 0>>
      BY <2>3 DEF HistoryInv, EventsInv
    <3> QED  BY <3>1, <3>2, <3>3 DEF EventsInv
  <2>9. Numbered(DOMAIN sessions)'  BY <2>4 DEF HistoryInv
  <2> QED  BY <2>3, <2>4, <2>6, <2>7, <2>8, <2>9 DEF HistoryInv
<1> QED  BY <1>1, <1>2

\* A session that is added counts nothing, and nothing counts for it.
LEMMA AddedSession ==
    ASSUME SessionsType, HistoryInv, NEW s \in Nat \ DOMAIN sessions, NEW row \in SessionRow,
           row.event_count = 0,
           Numbered(DOMAIN sessions \cup {s}),
           sessions' = [t \in DOMAIN sessions \cup {s} |-> IF t = s THEN row ELSE sessions[t]],
           events' = events,
           mapped_workspace' = mapped_workspace
    PROVE  /\ SessionsType'
           /\ HistoryInv'
           /\ DOMAIN sessions' = DOMAIN sessions \cup {s}
<1>1. DOMAIN sessions' = DOMAIN sessions \cup {s}  OBVIOUS
<1>2. SessionsType'  BY <1>1 DEF SessionsType
<1>3. s # NoSession  BY SessionsAssumption
<1>4. \A i \in DOMAIN events : events[i].session_id # s  BY <1>3 DEF HistoryInv, EventsInv
<1>5. Cardinality(Linked(events, s)) = 0  BY <1>4, LinkedNone
<1>6. CountsMatch'  BY <1>1, <1>5 DEF HistoryInv, CountsMatch
<1>7. EventsInv'  BY <1>1 DEF HistoryInv, EventsInv
<1> QED  BY <1>1, <1>2, <1>6, <1>7 DEF HistoryInv, HappenedOnce

\* A row that keeps its count, or gets the true one.
LEMMA EditedSession ==
    ASSUME SessionsType, HistoryInv, NEW s, NEW row \in SessionRow,
           s \in DOMAIN sessions => row.event_count = Cardinality(Linked(events, s)),
           sessions' = [sessions EXCEPT ![s] = row],
           events' = events,
           mapped_workspace' = mapped_workspace
    PROVE  /\ SessionsType'
           /\ HistoryInv'
           /\ DOMAIN sessions' = DOMAIN sessions
<1>1. DOMAIN sessions' = DOMAIN sessions  OBVIOUS
<1>2. SessionsType'  BY <1>1 DEF SessionsType
<1>3. \A t \in DOMAIN sessions : sessions'[t] = IF t = s THEN row ELSE sessions[t]  OBVIOUS
<1>4. CountsMatch'  BY <1>1, <1>3 DEF HistoryInv, CountsMatch
<1>5. EventsInv'  BY <1>1 DEF HistoryInv, EventsInv
<1> QED  BY <1>1, <1>2, <1>4, <1>5 DEF HistoryInv, HappenedOnce

----------------------------------------------------------------------------
(* The calls *)

\* The record rows of w2 are those of w1, with what was written since.
Newer(recs, recs2, w) ==
    \A d \in DOMAIN recs2 : Active(recs2[d]) =>
        \/ d \in DOMAIN recs /\ Active(recs[d]) /\ recs2[d].version = recs[d].version
        \/ w < recs2[d].version

\* What a call knows survives what the others do.
LEMMA KnowledgeKept ==
    ASSUME NEW r \in CallRecord, NEW c \in Calls,
           NEW S, NEW S2, S \subseteq S2,
           NEW evs, NEW evs2,
           \A i \in DOMAIN evs : i \in DOMAIN evs2 /\ evs2[i] = evs[i],
           NEW recs, NEW recs2, NEW w \in Nat, NEW w2 \in Nat, w <= w2,
           \A d \in DOMAIN recs2 : recs2[d] \in RecordRow,
           Newer(recs, recs2, w),
           CallOK(r, c, S, evs, recs, w)
    PROVE  CallOK(r, c, S2, evs2, recs2, w2)
<1> DEFINE looked == r.pc \in {"mint", "put"} /\ r.target = NoRecord /\ r.status = "active" /\ ~r.missed
<1>1. r.since \in Nat /\ r.since <= w  BY DEF CallOK, CallRecord
<1>2. looked => \A d \in DOMAIN recs : Active(recs[d]) => r.since < recs[d].version  BY DEF CallOK
<1>3. \A d \in DOMAIN recs2 : recs2[d].version \in Nat  BY DEF RecordRow
<1>4. looked => \A d \in DOMAIN recs2 : Active(recs2[d]) => r.since < recs2[d].version
  <2> HIDE DEF looked
  <2> QED  BY <1>1, <1>2, <1>3 DEF Newer
<1>5. r.since <= w2  BY <1>1
<1>6. /\ r.session \in S2 \cup {NoSession}
      /\ r.pc \in {"check", "update", "ended"} => r.session \in S2
      /\ r.pc \in {"check", "update"} => r.status \in {"completed", "abandoned"}
      /\ r.pc \in {"observe", "look", "mint", "put"} => r.status \in {"active", "expired"}
  BY DEF CallOK
<1>7. r.evidence # 0 => r.evidence \in DOMAIN evs2 /\ evs2[r.evidence].what = <<"observation", c>>
  BY DEF CallOK
<1> QED  BY <1>4, <1>5, <1>6, <1>7 DEF CallOK

\* An event of another's does not record c.
LEMMA UnrecordedKept ==
    ASSUME NEW r, NEW c \in Calls, NEW evs, NEW evs2,
           \A i \in DOMAIN evs2 :
              \/ i \in DOMAIN evs /\ evs2[i] = evs[i]
              \/ evs2[i].what \notin {<<"capture", c>>, <<"observation", c>>},
           Unrecorded(r, c, evs)
    PROVE  Unrecorded(r, c, evs2)
  BY DEF Unrecorded

\* The records and their order stay as they are.
LEMMA NewerSame == ASSUME NEW recs, NEW w PROVE Newer(recs, recs, w)
  BY DEF Newer

\* A call goes on; the store does not change.
LEMMA CallMoves ==
    ASSUME IInv, NEW c \in Calls, NEW r \in CallRecord,
           call' = [call EXCEPT ![c] = r],
           UNCHANGED <<clock, sessions, events, records, written, imp>>,
           CallOK(r, c, DOMAIN sessions, events, records, written),
           Unrecorded(r, c, events)
    PROVE  IInv'
<1>1. TypeOK'
  BY DEF IInv, TypeOK, SessionsType, RecordsType, ImportType
<1>2. HistoryInv'
  BY DEF IInv, HistoryInv, Numbered, EventsInv, CountsMatch, HappenedOnce, mapped_workspace
<1>3. RecordsInv'  BY DEF IInv, RecordsInv
<1>4. \A d \in Calls : call'[d] = IF d = c THEN r ELSE call[d]  BY DEF IInv, TypeOK
<1>5. CallsInv'  BY <1>4 DEF IInv, CallsInv
<1>6. ImportOK(imp, events)'  BY DEF IInv
<1> QED  BY <1>1, <1>2, <1>3, <1>5, <1>6 DEF IInv

\* A call writes to the store: of the rest of the invariant, what the others
\* know and what the import knows stays true.
LEMMA CallWrites ==
    ASSUME IInv, NEW c \in Calls, NEW r \in CallRecord,
           call' = [call EXCEPT ![c] = r],
           UNCHANGED <<clock, imp>>,
           SessionsType', events' \in Seq(EventRow), RecordsType(records'), written' \in Nat,
           HistoryInv', RecordsInv',
           DOMAIN sessions \subseteq DOMAIN sessions',
           \A i \in DOMAIN events : i \in DOMAIN events' /\ events'[i] = events[i],
           \A i \in DOMAIN events' :
              i \in DOMAIN events \/ events'[i].what \in {<<"capture", c>>, <<"observation", c>>} \cup ({"ended"} \X Nat),
           written <= written', Newer(records, records', written),
           CallOK(r, c, DOMAIN sessions', events', records', written'),
           Unrecorded(r, c, events')
    PROVE  IInv'
<1>1. call' \in [Calls -> CallRecord] /\ \A d \in Calls : call'[d] = IF d = c THEN r ELSE call[d]
  BY DEF IInv, TypeOK
<1>2. TypeOK'
  <2>1. clock' \in Nat /\ ImportType(imp)'  BY DEF IInv, TypeOK, ImportType
  <2> QED  BY <1>1, <2>1 DEF TypeOK
<1>3. CallsInv'
  <2> SUFFICES ASSUME NEW d \in Calls
               PROVE  /\ CallOK(call'[d], d, DOMAIN sessions', events', records', written')
                      /\ Unrecorded(call'[d], d, events')
    BY DEF CallsInv
  <2>1. CASE d = c  BY <1>1, <2>1
  <2>2. CASE d # c
    <3>1. call'[d] = call[d] /\ call[d] \in CallRecord  BY <1>1, <2>2 DEF IInv, TypeOK
    <3>2. CallOK(call[d], d, DOMAIN sessions, events, records, written) /\ Unrecorded(call[d], d, events)
      BY DEF IInv, CallsInv
    <3>3. \A e \in DOMAIN records' : records'[e] \in RecordRow  BY DEF RecordsType
    <3>4. written \in Nat  BY DEF IInv, TypeOK
    <3>5. CallOK(call[d], d, DOMAIN sessions', events', records', written')
      BY <3>1, <3>2, <3>3, <3>4, KnowledgeKept
    <3>6. \A i \in DOMAIN events' :
             \/ i \in DOMAIN events /\ events'[i] = events[i]
             \/ events'[i].what \notin {<<"capture", d>>, <<"observation", d>>}
      <4> TAKE i \in DOMAIN events'
      <4>1. CASE events'[i].what = <<"capture", c>>  BY <2>2, <4>1
      <4>2. CASE events'[i].what = <<"observation", c>>  BY <2>2, <4>2
      <4>3. CASE events'[i].what \in {"ended"} \X Nat  BY <4>3
      <4>4. CASE i \in DOMAIN events  BY <4>4
      <4> QED  BY <4>1, <4>2, <4>3, <4>4
    <3>7. Unrecorded(call[d], d, events')  BY <3>2, <3>6, UnrecordedKept
    <3> QED  BY <3>1, <3>5, <3>7
  <2> QED  BY <2>1, <2>2
<1>4. ImportOK(imp, events)'
  <2>1. ImportOK(imp, events) /\ imp' = imp  BY DEF IInv
  <2>2. \A id, n : MapsTo(id, n, events) => MapsTo(id, n, events')  BY DEF MapsTo
  <2> QED  BY <2>1, <2>2 DEF ImportOK
<1> QED  BY <1>2, <1>3, <1>4 DEF IInv

----------------------------------------------------------------------------
(* The local state of a call *)

Moved(r, p) == [r EXCEPT !.pc = p]

Left(p) == [NoCall EXCEPT !.pc = p]

Resumed(r, s) == [r EXCEPT !.pc = "record", !.session = s]

Closing(s, status) == [NoCall EXCEPT !.pc = "check", !.session = s, !.status = status]

Remembering(p, t, a, status) ==
    [NoCall EXCEPT !.pc = p, !.now = clock, !.target = t, !.authority = a, !.status = status]

Forgetting(id) == [NoCall EXCEPT !.pc = "forget", !.now = clock, !.target = id]

Observed(r, i) == [r EXCEPT !.pc = "look", !.evidence = i]

Looked(r, w, b) == [r EXCEPT !.pc = "mint", !.since = w, !.missed = b]

Retiring(r, w, b, t) == [Looked(r, w, b) EXCEPT !.target = t]

Minted(r, id) == [r EXCEPT !.pc = "put", !.id = id]

LEMMA LeftFields ==
    ASSUME NEW p \in CallPcs
    PROVE  /\ Left(p) \in CallRecord
           /\ Left(p).pc = p /\ Left(p).session = NoSession /\ Left(p).evidence = 0 /\ Left(p).since = 0
  BY DEF Left, NoCall, CallRecord, CallPcs, Authorities

LEMMA MovedFields ==
    ASSUME NEW r \in CallRecord, NEW p \in CallPcs
    PROVE  /\ Moved(r, p) \in CallRecord
           /\ Moved(r, p).pc = p /\ Moved(r, p).session = r.session
           /\ Moved(r, p).target = r.target /\ Moved(r, p).status = r.status
           /\ Moved(r, p).evidence = r.evidence /\ Moved(r, p).since = r.since
           /\ Moved(r, p).missed = r.missed
  BY DEF Moved, CallRecord

LEMMA ResumedFields ==
    ASSUME NEW r \in CallRecord, NEW s \in Nat \cup {NoSession}
    PROVE  /\ Resumed(r, s) \in CallRecord
           /\ Resumed(r, s).pc = "record" /\ Resumed(r, s).session = s
           /\ Resumed(r, s).evidence = r.evidence /\ Resumed(r, s).since = r.since
  BY DEF Resumed, CallRecord, CallPcs

LEMMA ClosingFields ==
    ASSUME NEW s \in Nat, NEW status \in {"completed", "abandoned"}
    PROVE  /\ Closing(s, status) \in CallRecord
           /\ Closing(s, status).pc = "check" /\ Closing(s, status).session = s
           /\ Closing(s, status).status = status
           /\ Closing(s, status).evidence = 0 /\ Closing(s, status).since = 0
  BY DEF Closing, NoCall, CallRecord, CallPcs, Authorities

LEMMA RememberingFields ==
    ASSUME clock \in Nat, NEW p \in {"observe", "look"}, NEW t \in Nat \X Nat,
           NEW a \in Authorities, NEW status \in {"active", "expired"}
    PROVE  /\ Remembering(p, t, a, status) \in CallRecord
           /\ Remembering(p, t, a, status).pc = p
           /\ Remembering(p, t, a, status).session = NoSession
           /\ Remembering(p, t, a, status).status = status
           /\ Remembering(p, t, a, status).evidence = 0 /\ Remembering(p, t, a, status).since = 0
  BY DEF Remembering, NoCall, CallRecord, CallPcs

LEMMA ForgettingFields ==
    ASSUME clock \in Nat, NEW id \in Nat \X Nat
    PROVE  /\ Forgetting(id) \in CallRecord
           /\ Forgetting(id).pc = "forget" /\ Forgetting(id).session = NoSession
           /\ Forgetting(id).evidence = 0 /\ Forgetting(id).since = 0
  BY DEF Forgetting, NoCall, CallRecord, CallPcs, Authorities

LEMMA ObservedFields ==
    ASSUME NEW r \in CallRecord, NEW i \in Nat
    PROVE  /\ Observed(r, i) \in CallRecord
           /\ Observed(r, i).pc = "look" /\ Observed(r, i).session = r.session
           /\ Observed(r, i).status = r.status
           /\ Observed(r, i).evidence = i /\ Observed(r, i).since = r.since
  BY DEF Observed, CallRecord, CallPcs

LEMMA LookedFields ==
    ASSUME NEW r \in CallRecord, NEW w \in Nat, NEW b \in BOOLEAN
    PROVE  /\ Looked(r, w, b) \in CallRecord
           /\ Looked(r, w, b).pc = "mint" /\ Looked(r, w, b).session = r.session
           /\ Looked(r, w, b).status = r.status /\ Looked(r, w, b).missed = b
           /\ Looked(r, w, b).evidence = r.evidence /\ Looked(r, w, b).since = w
  BY DEF Looked, CallRecord, CallPcs

LEMMA RetiringFields ==
    ASSUME NEW r \in CallRecord, NEW w \in Nat, NEW b \in BOOLEAN, NEW t \in Nat \X Nat
    PROVE  /\ Retiring(r, w, b, t) \in CallRecord
           /\ Retiring(r, w, b, t).pc = "mint" /\ Retiring(r, w, b, t).session = r.session
           /\ Retiring(r, w, b, t).status = r.status
           /\ Retiring(r, w, b, t).evidence = r.evidence /\ Retiring(r, w, b, t).since = w
<1>1. Looked(r, w, b) \in CallRecord  BY LookedFields
<1>2. /\ Retiring(r, w, b, t) \in CallRecord
      /\ Retiring(r, w, b, t).pc = Looked(r, w, b).pc
      /\ Retiring(r, w, b, t).session = Looked(r, w, b).session
      /\ Retiring(r, w, b, t).status = Looked(r, w, b).status
      /\ Retiring(r, w, b, t).evidence = Looked(r, w, b).evidence
      /\ Retiring(r, w, b, t).since = Looked(r, w, b).since
  BY <1>1 DEF Retiring, CallRecord
<1> QED  BY <1>2, LookedFields

LEMMA MintedFields ==
    ASSUME NEW r \in CallRecord, NEW id \in Nat \X Nat
    PROVE  /\ Minted(r, id) \in CallRecord
           /\ Minted(r, id).pc = "put" /\ Minted(r, id).session = r.session
           /\ Minted(r, id).target = r.target /\ Minted(r, id).status = r.status
           /\ Minted(r, id).evidence = r.evidence /\ Minted(r, id).since = r.since
           /\ Minted(r, id).missed = r.missed
  BY DEF Minted, CallRecord, CallPcs

----------------------------------------------------------------------------
(* Sessions *)

\* Of some sessions one is the newest.
LEMMA NewestExists ==
    ASSUME NEW S, NEW k \in Nat, S \subseteq 0 .. k, S # {}
    PROVE  Newest(S) \in S /\ \A t \in S : t <= Newest(S)
<1> DEFINE T == {n \in Nat : \E s \in S : n = k - s}
<1>1. T \subseteq Nat /\ T # {}
  <2>1. PICK s \in S : TRUE  OBVIOUS
  <2>2. k - s \in T  BY <2>1
  <2> QED  BY <2>2
<1>2. PICK n \in T : \A m \in T : n <= m
  <2> DEFINE R == {ss \in Nat \X Nat : ss[1] < ss[2]}
  <2>1. IsWellFoundedOn(R, Nat)  BY NatLessThanWellFounded DEF OpToRel
  <2>2. \A a, b \in Nat : <<a, b>> \in R <=> a < b  OBVIOUS
  <2> HIDE DEF R, T
  <2>3. PICK x \in T : \A y \in T : ~ (<<y, x>> \in R)  BY <1>1, <2>1, WFMin
  <2>4. ASSUME NEW y \in T PROVE x <= y
    <3>1. x \in Nat /\ y \in Nat  BY <1>1
    <3>2. ~ (y < x)  BY <2>2, <2>3, <3>1
    <3> QED  BY <3>1, <3>2
  <2> QED  BY <2>4
<1>3. PICK s \in S : n = k - s  OBVIOUS
<1>4. ASSUME NEW t \in S PROVE t <= s
  <2>1. t \in 0 .. k /\ s \in 0 .. k  OBVIOUS
  <2>2. k - t \in T  BY <2>1
  <2>3. n <= k - t  BY <1>2, <2>2
  <2> QED  BY <1>3, <2>1, <2>3
<1>5. \E x \in S : \A t \in S : t <= x  BY <1>4
<1> QED  BY <1>5 DEF Newest

\* What the invariant says of one call.
LEMMA CallFacts ==
    ASSUME IInv, NEW c \in Calls
    PROVE  /\ call[c] \in CallRecord
           /\ CallOK(call[c], c, DOMAIN sessions, events, records, written)
           /\ Unrecorded(call[c], c, events)
           /\ written \in Nat
  BY DEF IInv, TypeOK, CallsInv

\* A call that knows nothing yet, or nothing any more.
LEMMA Blank ==
    ASSUME NEW r \in CallRecord, NEW c, NEW S, NEW evs, NEW recs, NEW w \in Nat,
           r.session \in S \cup {NoSession},
           r.pc \in {"check", "update", "ended"} => r.session \in S,
           r.pc \in {"check", "update"} => r.status \in {"completed", "abandoned"},
           r.pc \in {"observe", "look"} => r.status \in {"active", "expired"},
           r.evidence = 0, r.since = 0, r.pc \notin {"mint", "put"}
    PROVE  CallOK(r, c, S, evs, recs, w)
  BY DEF CallOK

LEMMA BlankLeft ==
    ASSUME NEW p \in {"ensure", "done"}, NEW c, NEW S, NEW evs, NEW recs, NEW w \in Nat
    PROVE  Left(p) \in CallRecord /\ CallOK(Left(p), c, S, evs, recs, w)
<1>1. p \in CallPcs  BY DEF CallPcs
<1> DEFINE r == Left(p)
<1>2. r \in CallRecord /\ r.pc = p /\ r.session = NoSession /\ r.evidence = 0 /\ r.since = 0
  BY <1>1, LeftFields
<1> HIDE DEF r
<1>3. CallOK(r, c, S, evs, recs, w)  BY <1>2, Blank
<1> QED  BY <1>2, <1>3 DEF r

LEMMA Advanced ==
    ASSUME NEW r, NEW q, NEW c, NEW evs, Unrecorded(r, c, evs), r.pc # "done",
           q.pc \in {"idle", "observe"} => r.pc \in {"idle", "observe"}
    PROVE  Unrecorded(q, c, evs)
  BY DEF Unrecorded

SameStore == UNCHANGED <<clock, sessions, events, records, written, imp>>

\* A call that begins, or leaves for the capture, changes nothing else.
LEMMA LeaveStep ==
    ASSUME IInv, NEW c \in Calls, NEW p \in {"ensure", "done"},
           call[c].pc # "done", Leave(c, p), SameStore
    PROVE  IInv'
<1>1. call' = [call EXCEPT ![c] = Left(p)]  BY DEF Leave, Left
<1>2. Left(p) \in CallRecord /\ Left(p).pc = p  BY LeftFields DEF CallPcs
<1>3. CallOK(Left(p), c, DOMAIN sessions, events, records, written)  BY CallFacts, BlankLeft
<1>4. Unrecorded(Left(p), c, events)  BY <1>2, CallFacts, Advanced
<1> QED  BY <1>1, <1>2, <1>3, <1>4, CallMoves DEF SameStore

\* A call goes on to a step for which it knows enough.
LEMMA GotoStep ==
    ASSUME IInv, NEW c \in Calls, NEW p \in {"open", "record", "update", "ended", "mint"},
           call[c].pc # "done", Goto(c, p), SameStore,
           p = "update" => call[c].pc = "check",
           p = "ended" => call[c].pc = "update",
           p = "mint" => call[c].pc = "look" /\ call[c].target # NoRecord
    PROVE  IInv'
<1> DEFINE r == Moved(call[c], p)
<1>1. call' = [call EXCEPT ![c] = r]  BY DEF Goto, Moved
<1>2. call[c] \in CallRecord /\ p \in CallPcs  BY CallFacts DEF CallPcs
<1>3. /\ r \in CallRecord
      /\ r.pc = p /\ r.session = call[c].session
      /\ r.target = call[c].target /\ r.status = call[c].status
      /\ r.evidence = call[c].evidence /\ r.since = call[c].since /\ r.missed = call[c].missed
  BY <1>2, MovedFields
<1> HIDE DEF r
<1>4. CallOK(r, c, DOMAIN sessions, events, records, written)
  BY <1>3, CallFacts DEF CallOK
<1>5. Unrecorded(r, c, events)  BY <1>3, CallFacts, Advanced
<1> QED  BY <1>1, <1>3, <1>4, <1>5, CallMoves DEF SameStore

LEMMA NewestInside ==
    ASSUME IInv, ActiveIn(Here) # {}
    PROVE  Newest(ActiveIn(Here)) \in DOMAIN sessions
<1>1. PICK k \in Nat : DOMAIN sessions \cup {0} = 0 .. k  BY DEF IInv, HistoryInv, Numbered
<1>2. ActiveIn(Here) \subseteq 0 .. k  BY <1>1 DEF ActiveIn
<1>3. Newest(ActiveIn(Here)) \in ActiveIn(Here)  BY <1>2, NewestExists
<1> QED  BY <1>3 DEF ActiveIn

LEMMA ResumeStep ==
    ASSUME IInv, NEW c \in Calls, active_session_for(c), UNCHANGED <<recordVars, imp>>
    PROVE  IInv'
<1>1. call[c].pc = "ensure" /\ SameStore  BY DEF active_session_for, historyVars, recordVars, SameStore
<1>2. CASE ActiveIn(Here) = {}
  <2>1. Goto(c, "open")  BY <1>2 DEF active_session_for, Goto
  <2> QED  BY <1>1, <2>1, GotoStep
<1>3. CASE ActiveIn(Here) # {}
  <2> DEFINE s == Newest(ActiveIn(Here))
             r == Resumed(call[c], s)
  <2>1. s \in DOMAIN sessions  BY <1>3, NewestInside
  <2>2. s \in Nat  BY <2>1 DEF IInv, TypeOK, SessionsType
  <2>3. call' = [call EXCEPT ![c] = r]  BY <1>3 DEF active_session_for, Resumed
  <2> HIDE DEF s
  <2>4. /\ r \in CallRecord /\ r.pc = "record" /\ r.session = s
        /\ r.evidence = call[c].evidence /\ r.since = call[c].since
    BY <2>2, CallFacts, ResumedFields
  <2> HIDE DEF r
  <2>5. CallOK(r, c, DOMAIN sessions, events, records, written)
    BY <2>1, <2>4, CallFacts DEF CallOK
  <2>6. Unrecorded(r, c, events)  BY <1>1, <2>4, CallFacts, Advanced
  <2> QED  BY <1>1, <2>3, <2>4, <2>5, <2>6, CallMoves DEF SameStore
<1> QED  BY <1>2, <1>3

\* The store the calls and the import do not touch.
LEMMA RecordsSame ==
    ASSUME IInv, UNCHANGED <<records, written>>,
           \A i \in DOMAIN events : i \in DOMAIN events' /\ events'[i] = events[i]
    PROVE  /\ RecordsType(records') /\ written' \in Nat
           /\ RecordsInv'
           /\ written <= written' /\ Newer(records, records', written)
<1>1. RecordsType(records') /\ written' \in Nat /\ written <= written'
  BY DEF IInv, TypeOK
<1>2. Newer(records, records', written)  BY NewerSame
<1>3. Versions(records', written')  BY DEF IInv, RecordsInv
<1>4. Cited(records', events')
  BY DEF IInv, RecordsInv, Cited, Cites
<1> QED  BY <1>1, <1>2, <1>3, <1>4 DEF RecordsInv

\* A new session follows the newest.
LEMMA NextSession ==
    ASSUME IInv
    PROVE  LET s == Newest(DOMAIN sessions \cup {0}) + 1
           IN  /\ s \in Nat \ DOMAIN sessions
               /\ Numbered(DOMAIN sessions \cup {s})
<1>1. PICK k \in Nat : DOMAIN sessions \cup {0} = 0 .. k  BY DEF IInv, HistoryInv, Numbered
<1>2. Newest(0 .. k) = k
  <2>1. Newest(0 .. k) \in 0 .. k /\ \A t \in 0 .. k : t <= Newest(0 .. k)  BY NewestExists
  <2> QED  BY <2>1
<1>3. k + 1 \in Nat \ DOMAIN sessions  BY <1>1
<1>4. (DOMAIN sessions \cup {k + 1}) \cup {0} = 0 .. (k + 1)  BY <1>1
<1>5. Numbered(DOMAIN sessions \cup {k + 1})  BY <1>4 DEF Numbered
<1> QED  BY <1>1, <1>2, <1>3, <1>5

LEMMA OpenStep ==
    ASSUME IInv, NEW c \in Calls, open_session(c), UNCHANGED <<recordVars, imp>>
    PROVE  IInv'
<1> DEFINE s == Newest(DOMAIN sessions \cup {0}) + 1
           row == [ws |-> Here, status |-> "active", event_count |-> 0]
           r == Resumed(call[c], s)
<1>1. /\ call[c].pc = "open"
      /\ sessions' = [t \in DOMAIN sessions \cup {s} |-> IF t = s THEN row ELSE sessions[t]]
      /\ call' = [call EXCEPT ![c] = r]
      /\ UNCHANGED <<clock, events, records, written, imp>>
  BY DEF open_session, Resumed, recordVars
<1>2. s \in Nat \ DOMAIN sessions /\ Numbered(DOMAIN sessions \cup {s})  BY NextSession
<1>3. row \in SessionRow /\ row.event_count = 0  BY DEF SessionRow
<1>4. mapped_workspace' = mapped_workspace  BY <1>1 DEF mapped_workspace
<1>5. /\ r \in CallRecord /\ r.pc = "record" /\ r.session = s
      /\ r.evidence = call[c].evidence /\ r.since = call[c].since
  BY <1>2, CallFacts, ResumedFields
<1> HIDE DEF s, row, r
<1>6. SessionsType /\ HistoryInv  BY DEF IInv, TypeOK
<1>7. SessionsType' /\ HistoryInv' /\ DOMAIN sessions' = DOMAIN sessions \cup {s}
  BY <1>1, <1>2, <1>3, <1>4, <1>6, AddedSession
<1>8. /\ RecordsType(records') /\ written' \in Nat /\ RecordsInv'
      /\ written <= written' /\ Newer(records, records', written)
  BY <1>1, RecordsSame
<1>9. CallOK(r, c, DOMAIN sessions', events', records', written')
  BY <1>1, <1>5, <1>7, CallFacts DEF CallOK
<1>10. Unrecorded(r, c, events')  BY <1>1, <1>5, CallFacts, Advanced
<1>11. events' \in Seq(EventRow)  BY <1>1 DEF IInv, TypeOK
<1>12. /\ DOMAIN sessions \subseteq DOMAIN sessions'
       /\ \A i \in DOMAIN events : i \in DOMAIN events' /\ events'[i] = events[i]
       /\ \A i \in DOMAIN events' : i \in DOMAIN events
  BY <1>1, <1>7
<1> QED  BY <1>1, <1>5, <1>7, <1>8, <1>9, <1>10, <1>11, <1>12, CallWrites

\* A call records an event e and goes on as r.
LEMMA RecordStepGeneral ==
    ASSUME IInv, NEW c \in Calls, NEW e \in EventRow, NEW r \in CallRecord,
           Keyed(e, mapped_workspace),
           e.session_id \in DOMAIN sessions \cup {NoSession},
           ~Seen(e.dedup_key) => \A i \in DOMAIN events : events[i].what # e.what,
           e.what \in {<<"capture", c>>, <<"observation", c>>} \cup ({"ended"} \X Nat),
           record_event_in_tx(e),
           call' = [call EXCEPT ![c] = r],
           UNCHANGED <<clock, records, written, imp>>,
           CallOK(r, c, DOMAIN sessions, events', records, written),
           Unrecorded(r, c, events')
    PROVE  IInv'
<1>1. mapped_workspace' = mapped_workspace  BY DEF mapped_workspace
<1>2. SessionsType /\ events \in Seq(EventRow) /\ HistoryInv  BY DEF IInv, TypeOK
<1>3. /\ SessionsType' /\ events' \in Seq(EventRow) /\ HistoryInv'
      /\ DOMAIN sessions' = DOMAIN sessions
      /\ Extended(e)
  BY <1>1, <1>2, RecordedHistory
<1>4. /\ \A i \in DOMAIN events : i \in DOMAIN events' /\ events'[i] = events[i]
      /\ \A i \in DOMAIN events' : i \in DOMAIN events \/ events'[i] = e
  BY <1>3 DEF Extended
<1>5. /\ RecordsType(records') /\ written' \in Nat /\ RecordsInv'
      /\ written <= written' /\ Newer(records, records', written)
  BY <1>4, RecordsSame
<1>6. DOMAIN sessions \subseteq DOMAIN sessions'  BY <1>3
<1>7. CallOK(r, c, DOMAIN sessions', events', records', written')  BY <1>3
<1>8. \A i \in DOMAIN events' :
         i \in DOMAIN events \/ events'[i].what \in {<<"capture", c>>, <<"observation", c>>} \cup ({"ended"} \X Nat)
  BY <1>4
<1>9. UNCHANGED <<clock, imp>>  OBVIOUS
<1> QED  BY <1>3, <1>4, <1>5, <1>6, <1>7, <1>8, <1>9, CallWrites

LEMMA CaptureStep ==
    ASSUME IInv, NEW c \in Calls, record_history(c), UNCHANGED <<recordVars, imp>>
    PROVE  IInv'
<1> DEFINE e == CaptureEvent(c, call[c].session)
           r == Left("done")
<1>1. /\ call[c].pc = "record" /\ record_event_in_tx(e)
      /\ call' = [call EXCEPT ![c] = r]
      /\ UNCHANGED <<clock, records, written, imp>>
  BY DEF record_history, CaptureEvent, Leave, Left, recordVars
<1>2. call[c].session \in Nat \cup {NoSession} /\ call[c].session \in DOMAIN sessions \cup {NoSession}
  BY CallFacts DEF CallRecord, CallOK
<1>3. /\ e \in EventRow /\ e.what = <<"capture", c>> /\ e.dedup_key = NoKey
      /\ e.session_id = call[c].session
  BY <1>2, EventTypes DEF CaptureEvent
<1>4. r \in CallRecord /\ r.pc = "done"  BY LeftFields DEF CallPcs
<1> HIDE DEF e, r
<1>5. Keyed(e, mapped_workspace)  BY <1>3, OwnKeyed, WorkspaceType
<1>6. \A i \in DOMAIN events : events[i].what # e.what
  BY <1>1, <1>3, CallFacts DEF Unrecorded
<1>7. CallOK(r, c, DOMAIN sessions, events', records, written)
  BY CallFacts, BlankLeft DEF r
<1>8. Unrecorded(r, c, events')  BY <1>4 DEF Unrecorded
<1> QED  BY <1>1, <1>2, <1>3, <1>4, <1>5, <1>6, <1>7, <1>8, RecordStepGeneral

LEMMA StartCloseStep ==
    ASSUME IInv, NEW c \in Calls, NEW s \in DOMAIN sessions,
           NEW status \in {"completed", "abandoned"},
           StartClose(c, s, status), UNCHANGED <<recordVars, imp>>
    PROVE  IInv'
<1> DEFINE r == Closing(s, status)
<1>1. /\ call[c].pc = "idle" /\ call' = [call EXCEPT ![c] = r]
      /\ SameStore
  BY DEF StartClose, Closing, historyVars, recordVars, SameStore
<1>2. s \in Nat  BY DEF IInv, TypeOK, SessionsType
<1>3. /\ r \in CallRecord /\ r.pc = "check" /\ r.session = s /\ r.status = status
      /\ r.evidence = 0 /\ r.since = 0
  BY <1>2, ClosingFields
<1> HIDE DEF r
<1>4. CallOK(r, c, DOMAIN sessions, events, records, written)
  BY <1>3, CallFacts, Blank
<1>5. Unrecorded(r, c, events)  BY <1>1, <1>3, CallFacts, Advanced
<1> QED  BY <1>1, <1>3, <1>4, <1>5, CallMoves DEF SameStore

LEMMA CloseStep ==
    ASSUME IInv, NEW c \in Calls, close_session(c), UNCHANGED <<recordVars, imp>>
    PROVE  IInv'
<1> DEFINE s == call[c].session
           r == Moved(call[c], "ended")
           row == [sessions[s] EXCEPT !.status = call[c].status]
<1>1. /\ call[c].pc = "update"
      /\ sessions' = [sessions EXCEPT ![s] = row]
      /\ call' = [call EXCEPT ![c] = r]
      /\ UNCHANGED <<clock, events, records, written, imp>>
  BY DEF close_session, Goto, Moved, recordVars
<1>2. s \in DOMAIN sessions  BY <1>1, CallFacts DEF CallOK
<1>3. sessions[s] \in SessionRow /\ sessions[s].event_count = Cardinality(Linked(events, s))
  BY <1>2 DEF IInv, TypeOK, SessionsType, HistoryInv, CountsMatch
<1>4. call[c].status \in {"completed", "abandoned"}  BY <1>1, CallFacts DEF CallOK
<1>5. row \in SessionRow /\ row.event_count = Cardinality(Linked(events, s))
  BY <1>3, <1>4 DEF SessionRow
<1>6. /\ r \in CallRecord /\ r.pc = "ended" /\ r.session = s
      /\ r.evidence = call[c].evidence /\ r.since = call[c].since
  BY CallFacts, MovedFields DEF CallPcs
<1> HIDE DEF s, row, r
<1>7. SessionsType /\ HistoryInv  BY DEF IInv, TypeOK
<1>8. mapped_workspace' = mapped_workspace  BY <1>1 DEF mapped_workspace
<1>9. SessionsType' /\ HistoryInv' /\ DOMAIN sessions' = DOMAIN sessions
  BY <1>1, <1>5, <1>7, <1>8, EditedSession
<1>10. \A i \in DOMAIN events : i \in DOMAIN events' /\ events'[i] = events[i]  BY <1>1
<1>11. /\ RecordsType(records') /\ written' \in Nat /\ RecordsInv'
      /\ written <= written' /\ Newer(records, records', written)
  BY <1>1, <1>10, RecordsSame
<1>12. CallOK(r, c, DOMAIN sessions', events', records', written')
  BY <1>1, <1>2, <1>6, <1>9, CallFacts DEF CallOK
<1>13. Unrecorded(r, c, events')  BY <1>1, <1>6, CallFacts, Advanced
<1>14. events' \in Seq(EventRow)  BY <1>1 DEF IInv, TypeOK
<1>15. /\ DOMAIN sessions \subseteq DOMAIN sessions'
       /\ \A i \in DOMAIN events' : i \in DOMAIN events
  BY <1>1, <1>9
<1> QED  BY <1>1, <1>6, <1>9, <1>10, <1>11, <1>12, <1>13, <1>14, <1>15, CallWrites

LEMMA CheckStep ==
    ASSUME IInv, NEW c \in Calls, CheckActive(c), UNCHANGED <<recordVars, imp>>
    PROVE  IInv'
<1>1. call[c].pc = "check" /\ SameStore  BY DEF CheckActive, historyVars, recordVars, SameStore
<1>2. Goto(c, "update") \/ Leave(c, "done")  BY DEF CheckActive
<1>3. CASE Goto(c, "update")  BY <1>1, <1>3, GotoStep
<1>4. CASE Leave(c, "done")  BY <1>1, <1>4, LeaveStep
<1> QED  BY <1>2, <1>3, <1>4

LEMMA EndedStep ==
    ASSUME IInv, NEW c \in Calls, SessionEnded(c), UNCHANGED <<recordVars, imp>>
    PROVE  IInv'
<1> DEFINE s == call[c].session
           e == EndedEvent(s)
           r == Left("done")
<1>1. /\ call[c].pc = "ended" /\ record_event_in_tx(e)
      /\ call' = [call EXCEPT ![c] = r]
      /\ UNCHANGED <<clock, records, written, imp>>
  BY DEF SessionEnded, EndedEvent, Leave, Left, recordVars
<1>2. s \in DOMAIN sessions  BY <1>1, CallFacts DEF CallOK
<1>3. s \in Nat  BY <1>2 DEF IInv, TypeOK, SessionsType
<1>4. /\ e \in EventRow /\ e.what = <<"ended", s>> /\ e.dedup_key = <<"session-ended", s>>
      /\ e.session_id = s
  BY <1>3, EventTypes DEF EndedEvent
<1>5. r \in CallRecord /\ r.pc = "done"  BY LeftFields DEF CallPcs
<1> HIDE DEF e, r, s
<1>6. Keyed(e, mapped_workspace)  BY <1>3, <1>4, EndedKeyed, WorkspaceType
<1>7. ~Seen(e.dedup_key) => \A i \in DOMAIN events : events[i].what # e.what
  <2>1. e.dedup_key # NoKey  BY <1>3, <1>4, SessionsAssumption
  <2>2. \A i \in DOMAIN events : events[i].what = <<"ended", s>> => events[i].dedup_key = <<"session-ended", s>>
    BY <1>3 DEF IInv, HistoryInv, EventsInv, Keyed
  <2> QED  BY <1>4, <2>1, <2>2 DEF Seen
<1>8. e.what \in {<<"capture", c>>, <<"observation", c>>} \cup ({"ended"} \X Nat)  BY <1>3, <1>4
<1>9. CallOK(r, c, DOMAIN sessions, events', records, written)  BY CallFacts, BlankLeft DEF r
<1>10. Unrecorded(r, c, events')  BY <1>5 DEF Unrecorded
<1> QED  BY <1>1, <1>2, <1>4, <1>5, <1>6, <1>7, <1>8, <1>9, <1>10, RecordStepGeneral

LEMMA SessionSteps ==
    ASSUME IInv, NEW c \in Calls, SessionStep(c), UNCHANGED <<recordVars, imp>>
    PROVE  IInv'
<1>1. CASE StartTool(c)
  <2>1. call[c].pc = "idle" /\ Leave(c, "ensure") /\ SameStore
    BY <1>1 DEF StartTool, historyVars, recordVars, SameStore
  <2> QED  BY <2>1, LeaveStep
<1>2. CASE active_session_for(c)  BY <1>2, ResumeStep
<1>3. CASE open_session(c)  BY <1>3, OpenStep
<1>4. CASE SessionUnavailable(c)
  <2>1. call[c].pc # "done" /\ Goto(c, "record") /\ SameStore
    BY <1>4 DEF SessionUnavailable, historyVars, recordVars, SameStore
  <2> QED  BY <2>1, GotoStep
<1>5. CASE record_history(c)  BY <1>5, CaptureStep
<1>6. CASE \E s \in DOMAIN sessions, status \in {"completed", "abandoned"} : StartClose(c, s, status)
  BY <1>6, StartCloseStep
<1>7. CASE CheckActive(c)  BY <1>7, CheckStep
<1>8. CASE close_session(c)  BY <1>8, CloseStep
<1>9. CASE SessionEnded(c)  BY <1>9, EndedStep
<1>10. CASE CutOff(c)
  <2>1. call[c].pc # "done" /\ Leave(c, "done") /\ SameStore
    BY <1>10 DEF CutOff, historyVars, recordVars, SameStore
  <2> QED  BY <2>1, LeaveStep
<1> QED
  BY <1>1, <1>2, <1>3, <1>4, <1>5, <1>6, <1>7, <1>8, <1>9, <1>10 DEF SessionStep

----------------------------------------------------------------------------
(* Record rows *)

LEMMA UpsertFields ==
    ASSUME NEW id, NEW row
    PROVE  /\ DOMAIN Upserted(id, row) = DOMAIN records \cup {id}
           /\ Upserted(id, row)[id] = row
           /\ \A d \in DOMAIN records : d # id => Upserted(id, row)[d] = records[d]
  BY DEF Upserted

LEMMA UpsertTypes ==
    ASSUME RecordsType(records), NEW id \in Nat \X Nat, NEW row \in RecordRow
    PROVE  RecordsType(Upserted(id, row))
<1> DEFINE recs == Upserted(id, row)
<1>1. DOMAIN recs = DOMAIN records \cup {id} /\ recs \in [DOMAIN recs -> RecordRow]
  <2>1. DOMAIN recs = DOMAIN records \cup {id}  BY UpsertFields
  <2>2. \A d \in DOMAIN records : records[d] \in RecordRow  BY DEF RecordsType
  <2>3. recs \in [DOMAIN records \cup {id} -> RecordRow]  BY <2>2 DEF Upserted
  <2> QED  BY <2>1, <2>3
<1>2. IsFiniteSet(DOMAIN records \cup {id})  BY FS_AddElement DEF RecordsType
<1>3. DOMAIN recs \subseteq Nat \X Nat  BY <1>1 DEF RecordsType
<1> HIDE DEF recs
<1>4. RecordsType(recs)  BY <1>1, <1>2, <1>3 DEF RecordsType
<1> QED  BY <1>4 DEF recs

\* A row that succeeds no other, or is brought by an import, takes no place of
\* one that a call succeeds: its own version is new.
LEMMA UpsertVersions ==
    ASSUME RecordsType(records), Versions(records, written), written \in Nat,
           NEW id, NEW row \in RecordRow, row.version = written + 1,
           row.supersedes <= written, row.supersedes = 0 \/ Foreign(row)
    PROVE  /\ Versions(Upserted(id, row), written + 1)
           /\ Newer(records, Upserted(id, row), written)
<1> DEFINE recs == Upserted(id, row)
<1>1. /\ DOMAIN recs = DOMAIN records \cup {id} /\ recs[id] = row
      /\ \A d \in DOMAIN records : d # id => recs[d] = records[d]
  <2>1. DOMAIN Upserted(id, row) = DOMAIN records \cup {id}  BY UpsertFields
  <2>2. Upserted(id, row)[id] = row  BY UpsertFields
  <2>3. \A d \in DOMAIN records : d # id => Upserted(id, row)[d] = records[d]  BY DEF Upserted
  <2> QED  BY <2>1, <2>2, <2>3
<1> HIDE DEF recs
<1>2. \A d \in DOMAIN records : /\ records[d].version \in Nat \ {0} /\ records[d].version <= written
                                /\ records[d].supersedes \in Nat /\ records[d].supersedes <= written
  <2> TAKE d \in DOMAIN records
  <2>1. records[d] \in RecordRow  BY DEF RecordsType
  <2>2. records[d].version <= written /\ records[d].supersedes <= written  BY DEF Versions
  <2> QED  BY <2>1, <2>2 DEF RecordRow
<1>3. \A d \in DOMAIN recs : recs[d].version <= written + 1 /\ recs[d].supersedes <= written + 1
  <2>1. row.version <= written + 1 /\ row.supersedes <= written + 1  BY DEF RecordRow
  <2>2. \A d \in DOMAIN records : records[d].version <= written + 1 /\ records[d].supersedes <= written + 1
    BY <1>2
  <2> QED  BY <1>1, <2>1, <2>2
<1>4. \A d, e \in DOMAIN recs : recs[d].version = recs[e].version => d = e
  BY <1>1, <1>2 DEF Versions
<1>5. \A d, e \in DOMAIN recs :
         Active(recs[d]) /\ ~Foreign(recs[e]) => recs[d].version # recs[e].supersedes
  BY <1>1, <1>2 DEF Versions
<1>6. \A d, e \in DOMAIN recs :
         /\ recs[d].supersedes = recs[e].supersedes /\ recs[d].supersedes # 0
         /\ ~Foreign(recs[d]) /\ ~Foreign(recs[e])
         => d = e
  BY <1>1, <1>2 DEF Versions
<1>7. Newer(records, recs, written)  BY <1>1, <1>2 DEF Newer
<1>8. Versions(recs, written + 1)  BY <1>3, <1>4, <1>5, <1>6 DEF Versions
<1> QED  BY <1>7, <1>8 DEF recs

\* Rows may end or go: no version gets a successor by it.
LEMMA FewerVersions ==
    ASSUME NEW recs, NEW w, Versions(records, w), DOMAIN recs \subseteq DOMAIN records,
           \A d \in DOMAIN recs :
              /\ recs[d].version = records[d].version /\ recs[d].supersedes = records[d].supersedes
              /\ recs[d].by = records[d].by
              /\ Active(recs[d]) => Active(records[d])
    PROVE  Versions(recs, w) /\ Newer(records, recs, w)
<1>1. \A d \in DOMAIN recs : recs[d].version <= w /\ recs[d].supersedes <= w  BY DEF Versions
<1>2. \A d, e \in DOMAIN recs : recs[d].version = recs[e].version => d = e  BY DEF Versions
<1>3. \A d, e \in DOMAIN recs :
         Active(recs[d]) /\ ~Foreign(recs[e]) => recs[d].version # recs[e].supersedes
  BY DEF Versions, Foreign
<1>4. \A d, e \in DOMAIN recs :
         /\ recs[d].supersedes = recs[e].supersedes /\ recs[d].supersedes # 0
         /\ ~Foreign(recs[d]) /\ ~Foreign(recs[e])
         => d = e
  BY DEF Versions, Foreign
<1>5. Newer(records, recs, w)  BY DEF Newer
<1> QED  BY <1>1, <1>2, <1>3, <1>4, <1>5 DEF Versions

\* The successor takes the version of a row that is active up to then, and that
\* ends with it.
LEMMA SuccessorVersions ==
    ASSUME RecordsType(records), Versions(records, written), written \in Nat,
           NEW t \in DOMAIN records, Active(records[t]),
           NEW id, id \notin DOMAIN records,
           NEW row \in RecordRow, row.version = written + 1, row.supersedes = records[t].version,
           NEW old \in RecordRow, old.version = records[t].version,
           old.supersedes = records[t].supersedes, old.by = records[t].by, ~Active(old),
           NEW recs, DOMAIN recs = DOMAIN records \cup {id}, recs[id] = row, recs[t] = old,
           \A d \in DOMAIN records : d # t => recs[d] = records[d]
    PROVE  Versions(recs, written + 1) /\ Newer(records, recs, written)
<1>1. \A d \in DOMAIN records : /\ records[d].version \in Nat \ {0} /\ records[d].version <= written
                                /\ records[d].supersedes \in Nat /\ records[d].supersedes <= written
  BY DEF RecordsType, RecordRow, Versions
<1>2. t # id  OBVIOUS
<1>3. \A d \in DOMAIN records : /\ recs[d].version = records[d].version
                                /\ recs[d].supersedes = records[d].supersedes
                                /\ recs[d].by = records[d].by
                                /\ Active(recs[d]) => Active(records[d]) /\ d # t
  OBVIOUS
<1>4. \A d \in DOMAIN recs : recs[d].version <= written + 1 /\ recs[d].supersedes <= written + 1
  BY <1>1, <1>3
<1>5. \A d, e \in DOMAIN recs : recs[d].version = recs[e].version => d = e
  BY <1>1, <1>3 DEF Versions
<1>6. \A d, e \in DOMAIN recs :
         Active(recs[d]) /\ ~Foreign(recs[e]) => recs[d].version # recs[e].supersedes
  <2> SUFFICES ASSUME NEW d \in DOMAIN recs, NEW e \in DOMAIN recs, Active(recs[d]),
                      ~Foreign(recs[e])
               PROVE  recs[d].version # recs[e].supersedes
    OBVIOUS
  <2>1. CASE d = id
    <3>1. recs[d].version = written + 1  BY <2>1
    <3>2. recs[e].supersedes <= written /\ recs[e].supersedes \in Nat  BY <1>1, <1>3
    <3> QED  BY <3>1, <3>2
  <2>2. CASE d # id /\ e # id
    BY <1>3, <2>2 DEF Versions, Foreign
  <2>3. CASE d # id /\ e = id
    <3>1. d \in DOMAIN records /\ d # t /\ recs[d].version = records[d].version  BY <1>3, <2>3
    <3>2. records[d].version # records[t].version  BY <3>1 DEF Versions
    <3> QED  BY <2>3, <3>1, <3>2
  <2> QED  BY <2>1, <2>2, <2>3
<1>7. \A d \in DOMAIN records : ~Foreign(records[d]) => records[d].supersedes # records[t].version
  BY DEF Versions
<1>8. \A d, e \in DOMAIN recs :
         /\ recs[d].supersedes = recs[e].supersedes /\ recs[d].supersedes # 0
         /\ ~Foreign(recs[d]) /\ ~Foreign(recs[e])
         => d = e
  BY <1>3, <1>7 DEF Versions, Foreign
<1>9. Newer(records, recs, written)  BY <1>1, <1>3 DEF Newer
<1> QED  BY <1>4, <1>5, <1>6, <1>8, <1>9 DEF Versions

\* What a call writes is dated by its write, and cites its own observation.
LEMMA NewRowFields ==
    ASSUME IInv, NEW c \in Calls, NEW status \in Statuses, NEW n \in Nat
    PROVE  /\ NewRow(c, status, n) \in RecordRow
           /\ NewRow(c, status, n).status = status
           /\ NewRow(c, status, n).version = written + 1
           /\ NewRow(c, status, n).supersedes = n
           /\ Cites(NewRow(c, status, n), events)
<1> DEFINE row == NewRow(c, status, n)
           about == IF call[c].evidence = 0 THEN <<"user", 0>> ELSE <<"observation", c>>
<1>1. /\ call[c].now \in Nat /\ call[c].authority \in Authorities /\ call[c].evidence \in Nat
      /\ written \in Nat
  BY CallFacts DEF CallRecord
<1>2. about \in Happenings \cup {<<"user", 0>>}  BY DEF Happenings
<1>3. row = [by |-> c, status |-> status, updated_at |-> call[c].now, authority |-> call[c].authority,
             about |-> about, evidence |-> call[c].evidence, supersedes |-> n, version |-> written + 1]
  BY DEF NewRow, Row
<1>4. call[c].evidence # 0 => /\ call[c].evidence \in DOMAIN events
                              /\ events[call[c].evidence].what = <<"observation", c>>
  BY CallFacts DEF CallOK
<1>5. call[c].evidence # 0 => about = <<"observation", c>>  OBVIOUS
<1> HIDE DEF about
<1>6. row \in RecordRow  BY <1>1, <1>2, <1>3 DEF RecordRow
<1>7. /\ row.status = status /\ row.version = written + 1 /\ row.supersedes = n
      /\ row.about = about /\ row.evidence = call[c].evidence
  BY <1>3
<1>8. Cites(row, events)  BY <1>4, <1>5, <1>7 DEF Cites
<1> QED  BY <1>6, <1>7, <1>8

\* A call writes the record table and leaves for the capture.
LEMMA WriteStep ==
    ASSUME IInv, NEW c \in Calls, call[c].pc # "done", Leave(c, "ensure"),
           UNCHANGED <<clock, sessions, events, imp>>,
           RecordsType(records'), written' \in Nat, written <= written',
           Versions(records', written'), Cited(records', events),
           Newer(records, records', written)
    PROVE  IInv'
<1> DEFINE r == Left("ensure")
<1>1. call' = [call EXCEPT ![c] = r]  BY DEF Leave, Left
<1>2. r \in CallRecord /\ r.pc = "ensure"  BY LeftFields DEF CallPcs
<1>3. CallOK(r, c, DOMAIN sessions', events', records', written')  BY BlankLeft
<1> HIDE DEF r
<1>4. Unrecorded(r, c, events')  BY <1>2, CallFacts, Advanced
<1>5. SessionsType' /\ events' \in Seq(EventRow)  BY DEF IInv, TypeOK, SessionsType
<1>6. HistoryInv'
  BY DEF IInv, HistoryInv, Numbered, EventsInv, CountsMatch, HappenedOnce, mapped_workspace
<1>7. RecordsInv'  BY DEF RecordsInv
<1>8. /\ DOMAIN sessions \subseteq DOMAIN sessions'
      /\ \A i \in DOMAIN events : i \in DOMAIN events' /\ events'[i] = events[i]
      /\ \A i \in DOMAIN events' : i \in DOMAIN events
  OBVIOUS
<1>9. UNCHANGED <<clock, imp>>  OBVIOUS
<1> QED  BY <1>1, <1>2, <1>3, <1>4, <1>5, <1>6, <1>7, <1>8, <1>9, CallWrites

----------------------------------------------------------------------------
(* remember and forget *)

LEMMA RecordIds == ASSUME IInv PROVE DOMAIN records \subseteq Nat \X Nat /\ NoRecord \in Nat \X Nat
  BY DEF IInv, TypeOK, RecordsType, NoRecord

LEMMA StartRememberStep ==
    ASSUME IInv, NEW c \in Calls, NEW t \in DOMAIN records \cup {NoRecord}, NEW a \in Authorities,
           NEW retiring \in BOOLEAN,
           StartRemember(c, t, a, retiring), UNCHANGED imp
    PROVE  IInv'
<1> DEFINE p == IF a = "observed" THEN "observe" ELSE "look"
           status == IF retiring THEN "expired" ELSE "active"
           r == Remembering(p, t, a, status)
<1>1. /\ call[c].pc = "idle" /\ call' = [call EXCEPT ![c] = r] /\ SameStore
  BY DEF StartRemember, Remembering, historyVars, recordVars, SameStore
<1>2. p \in {"observe", "look"} /\ status \in {"active", "expired"}  OBVIOUS
<1>3. t \in Nat \X Nat  BY RecordIds
<1>4. clock \in Nat  BY DEF IInv, TypeOK
<1> HIDE DEF p, status
<1>5. /\ r \in CallRecord /\ r.pc = p /\ r.session = NoSession /\ r.status = status
      /\ r.evidence = 0 /\ r.since = 0
  BY <1>2, <1>3, <1>4, RememberingFields
<1> HIDE DEF r
<1>6. CallOK(r, c, DOMAIN sessions, events, records, written)
  <2>1. r.pc \notin {"check", "update", "ended", "mint", "put"}  BY <1>2, <1>5
  <2>2. r.session \in DOMAIN sessions \cup {NoSession} /\ r.status \in {"active", "expired"}
    BY <1>2, <1>5
  <2> QED  BY <1>5, <2>1, <2>2, CallFacts, Blank
<1>7. Unrecorded(r, c, events)  BY <1>1, CallFacts, Advanced
<1> QED  BY <1>1, <1>5, <1>6, <1>7, CallMoves DEF SameStore

LEMMA ObserveStep ==
    ASSUME IInv, NEW c \in Calls, append_event(c), UNCHANGED imp
    PROVE  IInv'
<1> DEFINE e == ObservationEvent(c)
           n == Len(events')
           r == Observed(call[c], n)
<1>1. /\ call[c].pc = "observe" /\ record_event_in_tx(e)
      /\ call' = [call EXCEPT ![c] = r]
      /\ UNCHANGED <<clock, records, written, imp>>
  BY DEF append_event, ObservationEvent, Observed, recordVars
<1>2. /\ e \in EventRow /\ e.what = <<"observation", c>> /\ e.dedup_key = NoKey
      /\ e.session_id = NoSession
  BY EventTypes DEF ObservationEvent
<1> HIDE DEF e
<1>3. events' = Append(events, e)  BY <1>1, <1>2 DEF record_event_in_tx, Seen
<1>4. events \in Seq(EventRow)  BY DEF IInv, TypeOK
<1>5. /\ Len(events) \in Nat /\ n = Len(events) + 1
      /\ DOMAIN events = 1 .. Len(events) /\ DOMAIN events' = 1 .. Len(events) + 1
      /\ events'[Len(events) + 1] = e
      /\ \A i \in DOMAIN events : events'[i] = events[i]
  BY <1>2, <1>3, <1>4, NextPlace
<1>6. n \in Nat /\ n \in DOMAIN events' /\ events'[n] = e  BY <1>5
<1> HIDE DEF n
<1>7. /\ r \in CallRecord /\ r.pc = "look" /\ r.session = call[c].session /\ r.status = call[c].status
      /\ r.evidence = n /\ r.since = call[c].since
  BY <1>6, CallFacts, ObservedFields
<1> HIDE DEF r
<1>8. Keyed(e, mapped_workspace)  BY <1>2, OwnKeyed, WorkspaceType
<1>9. \A i \in DOMAIN events : events[i].what # e.what
  BY <1>1, <1>2, CallFacts DEF Unrecorded
<1>10. CallOK(r, c, DOMAIN sessions, events', records, written)
  BY <1>1, <1>2, <1>6, <1>7, CallFacts DEF CallOK
<1>11. Unrecorded(r, c, events')
  <2>1. \A i \in DOMAIN events : events[i].what # <<"capture", c>>
    BY <1>1, CallFacts DEF Unrecorded
  <2>2. e.what # <<"capture", c>>  BY <1>2
  <2>3. \A i \in DOMAIN events' : events'[i].what # <<"capture", c>>  BY <1>5, <2>1, <2>2
  <2> QED  BY <1>7, <2>3 DEF Unrecorded
<1> QED  BY <1>1, <1>2, <1>7, <1>8, <1>9, <1>10, <1>11, RecordStepGeneral

LEMMA FindStep ==
    ASSUME IInv, NEW c \in Calls, NEW seen, find_active_in_namespace(c, seen), UNCHANGED imp
    PROVE  IInv'
<1> DEFINE b == seen # ActiveRecords
<1>1. call[c].pc = "look" /\ SameStore /\ seen \subseteq ActiveRecords
  BY DEF find_active_in_namespace, historyVars, recordVars, SameStore
<1>2. call[c] \in CallRecord /\ written \in Nat /\ call[c].status \in {"active", "expired"}
  BY <1>1, CallFacts DEF CallOK
<1>3. CASE seen = {}
  <2> DEFINE r == Looked(call[c], written, b)
  <2>1. call' = [call EXCEPT ![c] = r]  BY <1>3 DEF find_active_in_namespace, Looked
  <2>2. b \in BOOLEAN  OBVIOUS
  <2>3. ~b => \A d \in DOMAIN records : ~Active(records[d])  BY <1>3 DEF ActiveRecords
  <2> HIDE DEF b
  <2>4. /\ r \in CallRecord /\ r.pc = "mint" /\ r.session = call[c].session /\ r.status = call[c].status
        /\ r.evidence = call[c].evidence /\ r.since = written /\ r.missed = b
    BY <1>2, <2>2, LookedFields
  <2> HIDE DEF r
  <2>5. CallOK(r, c, DOMAIN sessions, events, records, written)
    BY <1>2, <2>3, <2>4, CallFacts DEF CallOK
  <2>6. Unrecorded(r, c, events)  BY <1>1, <2>4, CallFacts, Advanced
  <2> QED  BY <1>1, <2>1, <2>4, <2>5, <2>6, CallMoves DEF SameStore
<1>4. CASE seen # {} /\ call[c].status = "expired" /\ Cardinality(seen) = 1
  <2> DEFINE t == CHOOSE i \in seen : TRUE
             r == Retiring(call[c], written, b, t)
  <2>1. call' = [call EXCEPT ![c] = r]  BY <1>4 DEF find_active_in_namespace, Retiring, Looked
  <2>2. t \in Nat \X Nat
    <3>1. t \in ActiveRecords  BY <1>1, <1>4
    <3> QED  BY <3>1, RecordIds DEF ActiveRecords
  <2>3. b \in BOOLEAN  OBVIOUS
  <2> HIDE DEF t, b
  <2>4. /\ r \in CallRecord /\ r.pc = "mint" /\ r.session = call[c].session /\ r.status = call[c].status
        /\ r.evidence = call[c].evidence /\ r.since = written
    BY <1>2, <2>2, <2>3, RetiringFields
  <2> HIDE DEF r
  <2>5. CallOK(r, c, DOMAIN sessions, events, records, written)
    BY <1>2, <1>4, <2>4, CallFacts DEF CallOK
  <2>6. Unrecorded(r, c, events)  BY <1>1, <2>4, CallFacts, Advanced
  <2> QED  BY <1>1, <2>1, <2>4, <2>5, <2>6, CallMoves DEF SameStore
<1>5. CASE seen # {} /\ ~(call[c].status = "expired" /\ Cardinality(seen) = 1)
  <2>1. Leave(c, "done")  BY <1>5 DEF find_active_in_namespace, Leave
  <2> QED  BY <1>1, <2>1, LeaveStep
<1> QED  BY <1>3, <1>4, <1>5

LEMMA PredecessorStep ==
    ASSUME IInv, NEW c \in Calls, ReadPredecessor(c), UNCHANGED imp
    PROVE  IInv'
<1>1. call[c].pc = "look" /\ call[c].target # NoRecord /\ SameStore
  BY DEF ReadPredecessor, historyVars, recordVars, SameStore
<1>2. Goto(c, "mint") \/ Leave(c, "done")  BY DEF ReadPredecessor
<1>3. CASE Goto(c, "mint")  BY <1>1, <1>3, GotoStep
<1>4. CASE Leave(c, "done")  BY <1>1, <1>4, LeaveStep
<1> QED  BY <1>2, <1>3, <1>4

LEMMA MintStep ==
    ASSUME IInv, NEW c \in Calls, mint_record_id(c), UNCHANGED imp
    PROVE  IInv'
<1>1. call[c].pc = "mint" /\ SameStore
  BY DEF mint_record_id, historyVars, recordVars, SameStore
<1>2. PICK n \in 1 .. Cardinality(DOMAIN records) + 1 : call' = [call EXCEPT ![c] = Minted(@, <<call[c].now, n>>)]
  BY DEF mint_record_id, Minted
<1> DEFINE id == <<call[c].now, n>>
           r == Minted(call[c], id)
<1>3. id \in Nat \X Nat
  <2>1. Cardinality(DOMAIN records) \in Nat
    <3>1. IsFiniteSet(DOMAIN records)  BY DEF IInv, TypeOK, RecordsType
    <3> QED  BY <3>1, FS_CardinalityType
  <2>2. n \in Nat  BY <2>1
  <2> QED  BY <2>2, CallFacts DEF CallRecord
<1>4. call' = [call EXCEPT ![c] = r]  BY <1>2
<1> HIDE DEF id
<1>5. /\ r \in CallRecord /\ r.pc = "put" /\ r.session = call[c].session
      /\ r.target = call[c].target /\ r.status = call[c].status
      /\ r.evidence = call[c].evidence /\ r.since = call[c].since /\ r.missed = call[c].missed
  BY <1>3, CallFacts, MintedFields
<1> HIDE DEF r
<1>6. CallOK(r, c, DOMAIN sessions, events, records, written)
  BY <1>1, <1>5, CallFacts DEF CallOK
<1>7. Unrecorded(r, c, events)  BY <1>1, <1>5, CallFacts, Advanced
<1> QED  BY <1>1, <1>4, <1>5, <1>6, <1>7, CallMoves DEF SameStore

\* The status a call gives its row.
LEMMA PutStatus ==
    ASSUME IInv, NEW c \in Calls, call[c].pc = "put"
    PROVE  call[c].status \in Statuses /\ call[c].id \in Nat \X Nat
  BY CallFacts DEF CallOK, CallRecord, Statuses

\* A row that cites the history is put among rows that do.
LEMMA UpsertCited ==
    ASSUME NEW id, NEW row, Cites(row, events), Cited(records, events)
    PROVE  Cited(Upserted(id, row), events)
<1>1. \A d \in DOMAIN Upserted(id, row) :
         Upserted(id, row)[d] = row \/ (d \in DOMAIN records /\ Upserted(id, row)[d] = records[d])
  BY DEF Upserted
<1> QED  BY <1>1 DEF Cited

LEMMA PutStep ==
    ASSUME IInv, NEW c \in Calls, put_record(c), UNCHANGED imp
    PROVE  IInv'
<1> DEFINE id == call[c].id
           row == NewRow(c, call[c].status, 0)
<1>1. /\ call[c].pc = "put" /\ records' = Upserted(id, row) /\ written' = written + 1
      /\ Leave(c, "ensure") /\ UNCHANGED <<clock, sessions, events, imp>>
  BY DEF put_record, historyVars
<1>2. call[c].status \in Statuses /\ id \in Nat \X Nat  BY <1>1, PutStatus
<1>3. /\ row \in RecordRow /\ row.version = written + 1 /\ row.supersedes = 0
      /\ Cites(row, events)
  BY <1>2, NewRowFields
<1> HIDE DEF id, row
<1>4. /\ RecordsType(records) /\ written \in Nat
      /\ Versions(records, written) /\ Cited(records, events)
  BY DEF IInv, TypeOK, RecordsInv
<1>5. RecordsType(records')  BY <1>1, <1>2, <1>3, <1>4, UpsertTypes
<1>6. Versions(records', written') /\ Newer(records, records', written)
  BY <1>1, <1>3, <1>4, UpsertVersions
<1>7. Cited(records', events)  BY <1>1, <1>3, <1>4, UpsertCited
<1>8. written' \in Nat /\ written <= written'  BY <1>1, <1>4
<1> QED  BY <1>1, <1>5, <1>6, <1>7, <1>8, WriteStep

LEMMA SupersedeStep ==
    ASSUME IInv, NEW c \in Calls, supersede_impl(c), UNCHANGED imp
    PROVE  IInv'
<1> DEFINE t == call[c].target
           id == call[c].id
           row == NewRow(c, call[c].status, records[t].version)
           up == Upserted(id, row)
           old == [records[t] EXCEPT !.status = "superseded", !.updated_at = call[c].now]
<1>1. call[c].pc = "put" /\ UNCHANGED <<clock, sessions, events, imp>>
  BY DEF supersede_impl, historyVars
<1>2. CASE t \in ActiveRecords /\ id \notin DOMAIN records
  <2>1. /\ records' = [up EXCEPT ![t].status = "superseded", ![t].updated_at = call[c].now]
        /\ written' = written + 1 /\ Leave(c, "ensure")
    BY <1>2 DEF supersede_impl
  <2>2. t \in DOMAIN records /\ Active(records[t]) /\ t # id  BY <1>2 DEF ActiveRecords
  <2>3. call[c].status \in Statuses /\ id \in Nat \X Nat  BY <1>1, PutStatus
  <2>4. /\ RecordsType(records) /\ written \in Nat
        /\ Versions(records, written) /\ Cited(records, events)
    BY DEF IInv, TypeOK, RecordsInv
  <2>5. records[t] \in RecordRow  BY <2>2, <2>4 DEF RecordsType
  <2>6. /\ row \in RecordRow /\ row.version = written + 1 /\ row.supersedes = records[t].version
        /\ Cites(row, events)
    <3>1. records[t].version \in Nat  BY <2>5 DEF RecordRow
    <3> QED  BY <2>3, <3>1, NewRowFields
  <2>7. /\ old \in RecordRow /\ old.version = records[t].version
        /\ old.supersedes = records[t].supersedes /\ old.by = records[t].by /\ ~Active(old)
        /\ old.evidence = records[t].evidence /\ old.about = records[t].about
    <3>1. call[c].now \in Nat  BY CallFacts DEF CallRecord
    <3> QED  BY <2>5, <3>1 DEF RecordRow, Statuses, Active
  <2>8. up[t] = records[t] /\ t \in DOMAIN up  BY <2>2 DEF Upserted
  <2>9. records' = [up EXCEPT ![t] = old]  BY <2>1, <2>8
  <2>10. RecordsType(up)  BY <2>3, <2>4, <2>6, UpsertTypes
  <2>11. Cited(up, events)  BY <2>4, <2>6, UpsertCited
  <2>12. /\ DOMAIN up = DOMAIN records \cup {id} /\ up[id] = row
         /\ \A d \in DOMAIN records : d # id => up[d] = records[d]
    BY DEF Upserted
  <2> HIDE DEF up, old, row, id, t
  <2>13. /\ DOMAIN records' = DOMAIN up /\ records'[t] = old
         /\ \A d \in DOMAIN up : d # t => records'[d] = up[d]
    BY <2>8, <2>9
  <2>14. RecordsType(records')
    <3>1. up \in [DOMAIN up -> RecordRow]  BY <2>10 DEF RecordsType
    <3>2. records' \in [DOMAIN up -> RecordRow]  BY <2>7, <2>9, <3>1
    <3> QED  BY <2>10, <2>13, <3>2 DEF RecordsType
  <2>15. Versions(records', written + 1) /\ Newer(records, records', written)
    <3>1. DOMAIN records' = DOMAIN records \cup {id} /\ records'[id] = row
      BY <2>2, <2>12, <2>13
    <3>2. \A d \in DOMAIN records : d # t => records'[d] = records[d]
      BY <1>2, <2>12, <2>13
    <3> QED  BY <1>2, <2>2, <2>4, <2>6, <2>7, <2>13, <3>1, <3>2, SuccessorVersions
  <2>16. Cited(records', events)
    <3>1. Cites(up[t], events)  BY <2>8, <2>11 DEF Cited
    <3>2. Cites(old, events)  BY <2>7, <2>8, <3>1 DEF Cites
    <3> QED  BY <2>11, <2>13, <3>2 DEF Cited
  <2>17. written' \in Nat /\ written <= written'  BY <2>1, <2>4
  <2> QED  BY <1>1, <2>1, <2>14, <2>15, <2>16, <2>17, WriteStep
<1>3. CASE ~(t \in ActiveRecords /\ id \notin DOMAIN records)
  <2>1. Leave(c, "done") /\ SameStore
    BY <1>1, <1>3 DEF supersede_impl, recordVars, SameStore
  <2> QED  BY <1>1, <2>1, LeaveStep
<1> QED  BY <1>2, <1>3

LEMMA StartForgetStep ==
    ASSUME IInv, NEW c \in Calls, NEW t \in DOMAIN records, StartForget(c, t), UNCHANGED imp
    PROVE  IInv'
<1> DEFINE r == Forgetting(t)
<1>1. /\ call[c].pc = "idle" /\ call' = [call EXCEPT ![c] = r] /\ SameStore
  BY DEF StartForget, Forgetting, historyVars, recordVars, SameStore
<1>2. t \in Nat \X Nat /\ clock \in Nat  BY RecordIds DEF IInv, TypeOK
<1>3. /\ r \in CallRecord /\ r.pc = "forget" /\ r.session = NoSession
      /\ r.evidence = 0 /\ r.since = 0
  BY <1>2, ForgettingFields
<1> HIDE DEF r
<1>4. CallOK(r, c, DOMAIN sessions, events, records, written)
  <2>1. r.pc \notin {"check", "update", "ended", "observe", "look", "mint", "put"}  BY <1>3
  <2> QED  BY <1>3, <2>1, CallFacts, Blank
<1>5. Unrecorded(r, c, events)  BY <1>1, <1>3, CallFacts, Advanced
<1> QED  BY <1>1, <1>3, <1>4, <1>5, CallMoves DEF SameStore

\* Rows that end or go take nothing with them.
LEMMA FewerStep ==
    ASSUME IInv, NEW c \in Calls, call[c].pc # "done", Leave(c, "ensure"),
           UNCHANGED <<clock, sessions, events, imp, written>>,
           RecordsType(records'), DOMAIN records' \subseteq DOMAIN records,
           \A d \in DOMAIN records' :
              /\ records'[d].version = records[d].version /\ records'[d].supersedes = records[d].supersedes
              /\ records'[d].evidence = records[d].evidence /\ records'[d].about = records[d].about
              /\ records'[d].by = records[d].by
              /\ Active(records'[d]) => Active(records[d])
    PROVE  IInv'
<1>1. written \in Nat /\ Versions(records, written) /\ Cited(records, events)
  BY DEF IInv, TypeOK, RecordsInv
<1>2. Versions(records', written) /\ Newer(records, records', written)  BY <1>1, FewerVersions
<1>3. Cited(records', events)  BY <1>1 DEF Cited, Cites
<1> QED  BY <1>1, <1>2, <1>3, WriteStep

LEMMA RejectStep ==
    ASSUME IInv, NEW c \in Calls, reject_record(c), UNCHANGED imp
    PROVE  IInv'
<1> DEFINE t == call[c].target
           old == [records[t] EXCEPT !.status = "rejected", !.updated_at = call[c].now]
<1>1. call[c].pc # "done" /\ Leave(c, "ensure") /\ UNCHANGED <<clock, sessions, events, imp, written>>
  BY DEF reject_record, historyVars
<1>2. RecordsType(records)  BY DEF IInv, TypeOK
<1>3. CASE t \in ActiveRecords
  <2>1. records' = [records EXCEPT ![t].status = "rejected", ![t].updated_at = call[c].now]
    BY <1>3 DEF reject_record
  <2>2. t \in DOMAIN records /\ Active(records[t])  BY <1>3 DEF ActiveRecords
  <2>3. records[t] \in RecordRow  BY <1>2, <2>2 DEF RecordsType
  <2>4. /\ old \in RecordRow /\ old.version = records[t].version
        /\ old.supersedes = records[t].supersedes /\ old.by = records[t].by
        /\ old.evidence = records[t].evidence /\ old.about = records[t].about
    <3>1. call[c].now \in Nat  BY CallFacts DEF CallRecord
    <3> QED  BY <2>3, <3>1 DEF RecordRow, Statuses
  <2>5. records' = [records EXCEPT ![t] = old]  BY <2>1, <2>2
  <2> HIDE DEF t, old
  <2>6. RecordsType(records')
    <3>1. records' \in [DOMAIN records -> RecordRow]  BY <1>2, <2>4, <2>5 DEF RecordsType
    <3>2. DOMAIN records' = DOMAIN records  BY <2>5
    <3> QED  BY <1>2, <3>1, <3>2 DEF RecordsType
  <2>7. /\ DOMAIN records' = DOMAIN records /\ records'[t] = old
        /\ \A d \in DOMAIN records : d # t => records'[d] = records[d]
    BY <2>2, <2>5
  <2>8. \A d \in DOMAIN records' :
           /\ records'[d].version = records[d].version /\ records'[d].supersedes = records[d].supersedes
           /\ records'[d].evidence = records[d].evidence /\ records'[d].about = records[d].about
           /\ records'[d].by = records[d].by
           /\ Active(records'[d]) => Active(records[d])
    BY <2>2, <2>4, <2>7
  <2> QED  BY <1>1, <2>6, <2>7, <2>8, FewerStep
<1>4. CASE t \notin ActiveRecords
  <2>1. records' = records  BY <1>4 DEF reject_record
  <2> QED  BY <1>1, <1>2, <2>1, FewerStep
<1> QED  BY <1>3, <1>4

LEMMA RemoveStep ==
    ASSUME IInv, NEW c \in Calls, remove_record(c), UNCHANGED imp
    PROVE  IInv'
<1> DEFINE D == DOMAIN records \ {call[c].target}
<1>1. /\ call[c].pc # "done" /\ Leave(c, "ensure") /\ UNCHANGED <<clock, sessions, events, imp, written>>
      /\ records' = [i \in D |-> records[i]]
  BY DEF remove_record, historyVars
<1>2. RecordsType(records)  BY DEF IInv, TypeOK
<1>3. IsFiniteSet(D)
  <2>1. IsFiniteSet(DOMAIN records)  BY <1>2 DEF RecordsType
  <2> QED  BY <2>1, FS_RemoveElement
<1>4. D \subseteq DOMAIN records  OBVIOUS
<1> HIDE DEF D
<1>5. DOMAIN records' = D /\ \A d \in D : records'[d] = records[d]  BY <1>1
<1>6. RecordsType(records')
  <2>1. records' \in [D -> RecordRow]  BY <1>1, <1>2, <1>4 DEF RecordsType
  <2> QED  BY <1>2, <1>3, <1>4, <1>5, <2>1 DEF RecordsType
<1> QED  BY <1>1, <1>4, <1>5, <1>6, FewerStep

LEMMA RecordSteps ==
    ASSUME IInv, NEW c \in Calls, RecordStep(c), UNCHANGED imp
    PROVE  IInv'
<1>1. CASE \E t \in DOMAIN records \cup {NoRecord}, a \in Authorities, retiring \in BOOLEAN :
              StartRemember(c, t, a, retiring)
  BY <1>1, StartRememberStep
<1>2. CASE append_event(c)  BY <1>2, ObserveStep
<1>3. CASE \E seen \in SUBSET ActiveRecords : find_active_in_namespace(c, seen)
  BY <1>3, FindStep
<1>4. CASE ReadPredecessor(c)  BY <1>4, PredecessorStep
<1>5. CASE mint_record_id(c)  BY <1>5, MintStep
<1>6. CASE put_record(c)  BY <1>6, PutStep
<1>7. CASE supersede_impl(c)  BY <1>7, SupersedeStep
<1>8. CASE \E t \in DOMAIN records : StartForget(c, t)  BY <1>8, StartForgetStep
<1>9. CASE reject_record(c)  BY <1>9, RejectStep
<1>10. CASE remove_record(c)  BY <1>10, RemoveStep
<1> QED
  BY <1>1, <1>2, <1>3, <1>4, <1>5, <1>6, <1>7, <1>8, <1>9, <1>10 DEF RecordStep

----------------------------------------------------------------------------
(* The import *)

\* What an edit of the import's state does to the rest of it.
LEMMA PlannedFields ==
    ASSUME ImportType(imp), NEW local,
           imp' = [imp EXCEPT !.pc = "session", !.i = 1, !.local = local]
    PROVE  ImportType(imp') /\ imp'.pc = "session" /\ imp'.i = 1 /\ imp'.mapped = imp.mapped
  BY DEF ImportType, ImportPcs

LEMMA SessionDoneFields ==
    ASSUME ImportType(imp), NEW b, imp' = [imp EXCEPT !.pc = "event", !.inserted = b]
    PROVE  /\ ImportType(imp') /\ imp'.pc = "event" /\ imp'.mapped = imp.mapped
           /\ imp'.i = imp.i /\ imp'.event_map = imp.event_map
  BY DEF ImportType, ImportPcs

LEMMA EventDoneFields ==
    ASSUME ImportType(imp), NEW n \in DOMAIN BundleEvents, n = imp.i, NEW id \in Nat,
           imp' = [imp EXCEPT !.i = @ + 1, !.event_map[imp.i] = id]
    PROVE  /\ ImportType(imp') /\ imp'.pc = imp.pc /\ imp'.mapped = imp.mapped
           /\ imp'.i = n + 1 /\ imp'.event_map = [imp.event_map EXCEPT ![n] = id]
  BY DEF ImportType, ImportPcs

LEMMA RecountedFields ==
    ASSUME ImportType(imp), imp' = [imp EXCEPT !.pc = "record", !.i = 1]
    PROVE  /\ ImportType(imp') /\ imp'.pc = "record" /\ imp'.mapped = imp.mapped
           /\ imp'.i = 1 /\ imp'.event_map = imp.event_map
  BY DEF ImportType, ImportPcs

LEMMA NextRowFields ==
    ASSUME ImportType(imp), imp' = [imp EXCEPT !.i = @ + 1]
    PROVE  /\ ImportType(imp') /\ imp'.pc = imp.pc /\ imp'.mapped = imp.mapped
           /\ imp'.event_map = imp.event_map
  BY DEF ImportType, ImportPcs

LEMMA NoImportFields ==
    ASSUME NEW mapped, NEW status \in {"active", "completed", "abandoned"}
    PROVE  /\ ImportType(NoImport(mapped, status)) /\ NoImport(mapped, status).pc = "idle"
           /\ NoImport(mapped, status).mapped = mapped
  BY DEF NoImport, ImportType, ImportPcs

LEMMA OverFields ==
    ASSUME ImportType(imp), NEW p \in {"idle", "done"}, NEW n, imp' = Over(p, n)
    PROVE  ImportType(imp') /\ imp'.pc = p /\ imp'.mapped = imp.mapped
<1> DEFINE x == NoImport(imp.mapped, imp.status)
<1>1. imp.status \in {"active", "completed", "abandoned"}  BY DEF ImportType
<1>2. ImportType(x) /\ x.pc = "idle" /\ x.mapped = imp.mapped  BY <1>1, NoImportFields
<1>3. imp' = [x EXCEPT !.pc = p, !.failures = n]  BY DEF Over
<1> HIDE DEF x
<1> QED  BY <1>2, <1>3 DEF ImportType, ImportPcs

LEMMA ImportFacts ==
    ASSUME IInv
    PROVE  /\ SessionsType /\ events \in Seq(EventRow) /\ HistoryInv
           /\ RecordsType(records) /\ written \in Nat
           /\ Versions(records, written) /\ Cited(records, events)
           /\ ImportType(imp) /\ ImportOK(imp, events)
  BY DEF IInv, TypeOK, RecordsInv

LEMMA SameWorkspace == ASSUME imp'.mapped = imp.mapped PROVE mapped_workspace' = mapped_workspace
  BY DEF mapped_workspace

\* A step of the import: what the calls know stays true.
LEMMA ImportWrites ==
    ASSUME IInv, UNCHANGED <<clock, call>>,
           SessionsType', events' \in Seq(EventRow), RecordsType(records'), written' \in Nat,
           HistoryInv', RecordsInv',
           DOMAIN sessions \subseteq DOMAIN sessions',
           \A i \in DOMAIN events : i \in DOMAIN events' /\ events'[i] = events[i],
           \A i \in DOMAIN events' :
              i \in DOMAIN events \/ \E n \in DOMAIN BundleEvents : events'[i].what = BundleEvents[n].what,
           written <= written', Newer(records, records', written),
           ImportType(imp'), ImportOK(imp', events')
    PROVE  IInv'
<1>1. TypeOK'
  <2>1. clock' \in Nat /\ call' \in [Calls -> CallRecord]  BY DEF IInv, TypeOK
  <2> QED  BY <2>1 DEF TypeOK
<1>2. CallsInv'
  <2> SUFFICES ASSUME NEW c \in Calls
               PROVE  /\ CallOK(call[c], c, DOMAIN sessions', events', records', written')
                      /\ Unrecorded(call[c], c, events')
    BY DEF CallsInv
  <2>1. /\ call[c] \in CallRecord /\ written \in Nat
        /\ CallOK(call[c], c, DOMAIN sessions, events, records, written)
        /\ Unrecorded(call[c], c, events)
    BY CallFacts
  <2>2. \A d \in DOMAIN records' : records'[d] \in RecordRow  BY DEF RecordsType
  <2>3. CallOK(call[c], c, DOMAIN sessions', events', records', written')
    BY <2>1, <2>2, KnowledgeKept
  <2>4. \A n \in DOMAIN BundleEvents : BundleEvents[n].what \notin {<<"capture", c>>, <<"observation", c>>}
    <3> TAKE n \in DOMAIN BundleEvents
    <3>1. CASE BundleEvents[n].what \in {"observed"} \X Nat  BY <3>1
    <3>2. CASE BundleEvents[n].what = <<"ended", BundleSession>>  BY <3>2
    <3> QED  BY <3>1, <3>2, BundleShape
  <2>5. \A i \in DOMAIN events' :
           \/ i \in DOMAIN events /\ events'[i] = events[i]
           \/ events'[i].what \notin {<<"capture", c>>, <<"observation", c>>}
    BY <2>4
  <2>6. Unrecorded(call[c], c, events')  BY <2>1, <2>5, UnrecordedKept
  <2> QED  BY <2>3, <2>6
<1>3. ImportOK(imp, events)'  OBVIOUS
<1> QED  BY <1>1, <1>2, <1>3 DEF IInv

\* A step of the import that leaves the store alone.
LEMMA ImportMoves ==
    ASSUME IInv, UNCHANGED storeVars, imp'.mapped = imp.mapped,
           ImportType(imp'), ImportOK(imp', events)
    PROVE  IInv'
<1>1. UNCHANGED <<clock, sessions, events, call, records, written>>  BY DEF storeVars
<1>2. mapped_workspace' = mapped_workspace  BY SameWorkspace
<1>3. HistoryInv'
  BY <1>1, <1>2 DEF IInv, HistoryInv, Numbered, EventsInv, CountsMatch, HappenedOnce
<1>4. SessionsType' /\ events' \in Seq(EventRow)  BY <1>1 DEF IInv, TypeOK, SessionsType
<1>5. /\ RecordsType(records') /\ written' \in Nat /\ RecordsInv'
      /\ written <= written' /\ Newer(records, records', written)
  BY <1>1, RecordsSame
<1>6. ImportOK(imp', events')  BY <1>1
<1> QED  BY <1>1, <1>3, <1>4, <1>5, <1>6, ImportWrites

\* Before the first event is applied there is nothing to remember.
LEMMA NothingMapped ==
    ASSUME NEW x, NEW evs, x.pc \notin {"event", "record"},
           x.pc = "session" => x.i = 1
    PROVE  ImportOK(x, evs)
  BY DEF ImportOK

LEMMA PlanStep == ASSUME IInv, build_plan PROVE IInv'
<1>1. PICK local : imp' = [imp EXCEPT !.pc = "session", !.i = 1, !.local = local]
  BY DEF build_plan
<1>2. ImportType(imp') /\ imp'.pc = "session" /\ imp'.i = 1 /\ imp'.mapped = imp.mapped
  BY <1>1, ImportFacts, PlannedFields
<1>3. UNCHANGED storeVars  BY DEF build_plan
<1> QED  BY <1>2, <1>3, NothingMapped, ImportMoves

LEMMA OverStep ==
    ASSUME IInv, UNCHANGED storeVars, NEW p \in {"idle", "done"}, NEW n, imp' = Over(p, n)
    PROVE  IInv'
<1>1. ImportType(imp') /\ imp'.pc = p /\ imp'.mapped = imp.mapped  BY ImportFacts, OverFields
<1> QED  BY <1>1, NothingMapped, ImportMoves

LEMMA DoneStep == ASSUME IInv, ImportDone PROVE IInv'
  BY OverStep DEF ImportDone

LEMMA ImportSessionStep == ASSUME IInv, import_session PROVE IInv'
<1> DEFINE row == [ws |-> mapped_workspace, status |-> imp.status, event_count |-> 0]
<1>1. /\ imp.pc = "session" /\ UNCHANGED <<clock, events, call, records, written>>
      /\ imp' = [imp EXCEPT !.pc = "event", !.inserted = BundleSession \notin DOMAIN sessions]
  BY DEF import_session, recordVars
<1>2. /\ ImportType(imp') /\ imp'.pc = "event" /\ imp'.mapped = imp.mapped
      /\ imp'.i = imp.i /\ imp'.event_map = imp.event_map
  BY <1>1, ImportFacts, SessionDoneFields
<1>3. imp.i = 1  BY <1>1, ImportFacts DEF ImportOK
<1>4. \A n \in DOMAIN BundleEvents : ~(n < 1)  BY BundleFacts
<1>5. ImportOK(imp', events')  BY <1>2, <1>3, <1>4 DEF ImportOK
<1>6. mapped_workspace' = mapped_workspace  BY <1>2, SameWorkspace
<1>7. SessionsType' /\ HistoryInv' /\ DOMAIN sessions \subseteq DOMAIN sessions'
  <2>1. CASE BundleSession \in DOMAIN sessions
    <3>1. sessions' = sessions  BY <2>1 DEF import_session
    <3>2. SessionsType'  BY <3>1, ImportFacts DEF SessionsType
    <3>3. HistoryInv'
      BY <1>1, <1>6, <3>1, ImportFacts DEF HistoryInv, Numbered, EventsInv, CountsMatch, HappenedOnce
    <3> QED  BY <3>1, <3>2, <3>3
  <2>2. CASE BundleSession \notin DOMAIN sessions
    <3>1. sessions' = [s \in DOMAIN sessions \cup {BundleSession} |->
                          IF s = BundleSession THEN row ELSE sessions[s]]
      BY <2>2 DEF import_session
    <3>2. row \in SessionRow /\ row.event_count = 0
      BY WorkspaceType, ImportFacts DEF SessionRow, ImportType
    <3>3. BundleSession \in Nat \ DOMAIN sessions  BY <2>2 DEF BundleSession
    <3>4. Numbered(DOMAIN sessions \cup {BundleSession})
      <4>1. PICK k \in Nat : DOMAIN sessions \cup {0} = 0 .. k  BY ImportFacts DEF HistoryInv, Numbered
      <4>2. (DOMAIN sessions \cup {BundleSession}) \cup {0} = 0 .. k  BY <4>1 DEF BundleSession
      <4> QED  BY <4>2 DEF Numbered
    <3> HIDE DEF row
    <3>5. SessionsType /\ HistoryInv /\ events' = events  BY <1>1, ImportFacts
    <3> QED  BY <1>6, <3>1, <3>2, <3>3, <3>4, <3>5, AddedSession
  <2> QED  BY <2>1, <2>2
<1>8. \A i \in DOMAIN events : i \in DOMAIN events' /\ events'[i] = events[i]  BY <1>1
<1>9. /\ RecordsType(records') /\ written' \in Nat /\ RecordsInv'
      /\ written <= written' /\ Newer(records, records', written)
  BY <1>1, <1>8, RecordsSame
<1>10. events' \in Seq(EventRow) /\ \A i \in DOMAIN events' : i \in DOMAIN events
  BY <1>1, ImportFacts
<1> QED  BY <1>1, <1>2, <1>5, <1>7, <1>8, <1>9, <1>10, ImportWrites

\* The id given to a bundle event is that of the row that tells of it.
LEMMA EventIdRight ==
    ASSUME events \in Seq(EventRow), HistoryInv, NEW n \in DOMAIN BundleEvents, NEW e \in EventRow,
           e.what = BundleEvents[n].what, e.dedup_key = BundleKey(n, mapped_workspace),
           record_event_in_tx(e)
    PROVE  EventId(e.dedup_key) \in Nat /\ MapsTo(EventId(e.dedup_key), n, events')
<1> DEFINE key == e.dedup_key
<1>1. CASE Seen(key)
  <2>1. events' = events  BY <1>1 DEF record_event_in_tx, historyVars
  <2>2. EventId(key) \in DOMAIN events /\ events[EventId(key)].dedup_key = key
    BY <1>1 DEF EventId, Seen
  <2>3. events[EventId(key)].what = BundleEvents[n].what
    BY <2>2 DEF HistoryInv, EventsInv, Keyed
  <2>4. DOMAIN events = 1 .. Len(events) /\ Len(events) \in Nat  BY LenProperties
  <2>5. EventId(key) \in Nat  BY <2>2, <2>4
  <2> QED  BY <2>1, <2>2, <2>3, <2>5 DEF MapsTo
<1>2. CASE ~Seen(key)
  <2>1. events' = Append(events, e)  BY <1>2 DEF record_event_in_tx
  <2>2. /\ Len(events) \in Nat /\ DOMAIN events' = 1 .. Len(events) + 1
        /\ events'[Len(events) + 1] = e
    BY <2>1, NextPlace
  <2>3. EventId(key) = Len(events) + 1  BY <1>2 DEF EventId
  <2> QED  BY <2>2, <2>3 DEF MapsTo
<1> QED  BY <1>1, <1>2

LEMMA ImportEventStep == ASSUME IInv, import_event PROVE IInv'
<1> DEFINE n == imp.i
           linked == IF BundleEvents[n].session_id \in DOMAIN sessions THEN BundleEvents[n].session_id
                     ELSE NoSession
           e == ImportedEvent(n, linked)
           id == EventId(e.dedup_key)
<1>1. imp.pc = "event" /\ n <= Len(BundleEvents) /\ UNCHANGED <<clock, call, records, written>>
  BY DEF import_event, recordVars
<1>2. n \in DOMAIN BundleEvents
  <2>1. n \in Nat \ {0}  BY ImportFacts DEF ImportType
  <2> QED  BY <1>1, <2>1, BundleFacts
<1>3. record_event_in_tx(e)
  BY <1>2, ImportKeyIsBundleKey DEF import_event, ImportedEvent
<1>4. imp' = [imp EXCEPT !.i = @ + 1, !.event_map[imp.i] = id]
  BY <1>2, ImportKeyIsBundleKey DEF import_event, ImportedEvent
<1>5. linked \in Nat \cup {NoSession} /\ linked \in DOMAIN sessions \cup {NoSession}
  BY ImportFacts DEF SessionsType
<1> HIDE DEF linked
<1>6. /\ e \in EventRow /\ e.what = BundleEvents[n].what
      /\ e.dedup_key = BundleKey(n, mapped_workspace) /\ e.session_id = linked
  BY <1>2, <1>5, EventTypes DEF ImportedEvent
<1> HIDE DEF e
<1>7. id \in Nat /\ MapsTo(id, n, events')  BY <1>2, <1>3, <1>6, ImportFacts, EventIdRight
<1> HIDE DEF id, n
<1>8. /\ ImportType(imp') /\ imp'.pc = "event" /\ imp'.mapped = imp.mapped
      /\ imp'.i = n + 1 /\ imp'.event_map = [imp.event_map EXCEPT ![n] = id]
  BY <1>1, <1>2, <1>4, <1>7, ImportFacts, EventDoneFields DEF n
<1>9. mapped_workspace' = mapped_workspace  BY <1>8, SameWorkspace
<1>10. Keyed(e, mapped_workspace)  BY <1>2, <1>6, ImportedKeyed, WorkspaceType
<1>11. ~Seen(e.dedup_key) => \A i \in DOMAIN events : events[i].what # e.what
  <2>1. e.dedup_key # NoKey  BY <1>2, <1>6, BundleKeyShape, WorkspaceType
  <2>2. \A i \in DOMAIN events : events[i].what = BundleEvents[n].what
                                    => events[i].dedup_key = BundleKey(n, mapped_workspace)
    BY <1>2, ImportFacts DEF HistoryInv, EventsInv, Keyed
  <2> QED  BY <1>6, <2>1, <2>2 DEF Seen
<1>12. /\ SessionsType' /\ events' \in Seq(EventRow) /\ HistoryInv'
       /\ DOMAIN sessions' = DOMAIN sessions /\ Extended(e)
  <2>1. SessionsType /\ events \in Seq(EventRow) /\ HistoryInv  BY ImportFacts
  <2>2. e.session_id \in DOMAIN sessions \cup {NoSession}  BY <1>5, <1>6
  <2> QED  BY <1>3, <1>6, <1>9, <1>10, <1>11, <2>1, <2>2, RecordedHistory
<1>13. /\ \A i \in DOMAIN events : i \in DOMAIN events' /\ events'[i] = events[i]
       /\ \A i \in DOMAIN events' : i \in DOMAIN events \/ events'[i] = e
  BY <1>12 DEF Extended
<1>14. \A i \in DOMAIN events' :
          i \in DOMAIN events \/ \E m \in DOMAIN BundleEvents : events'[i].what = BundleEvents[m].what
  BY <1>2, <1>6, <1>13
<1>15. ImportOK(imp', events')
  <2>1. imp.event_map \in [DOMAIN BundleEvents -> Nat]  BY ImportFacts DEF ImportType
  <2>2. \A m \in DOMAIN BundleEvents : m < n => MapsTo(imp.event_map[m], m, events)
    BY <1>1, ImportFacts DEF ImportOK, n
  <2>3. \A m \in DOMAIN BundleEvents : m < n => MapsTo(imp.event_map[m], m, events')
    BY <1>13, <2>2 DEF MapsTo
  <2>4. ASSUME NEW m \in DOMAIN BundleEvents, m < imp'.i
        PROVE  MapsTo(imp'.event_map[m], m, events')
    <3>1. m \in Nat /\ n \in Nat  BY <1>2, BundleFacts
    <3>2. CASE m = n  BY <1>2, <1>7, <1>8, <2>1, <3>2
    <3>3. CASE m # n
      <4>1. m < n  BY <1>8, <2>4, <3>1, <3>3
      <4>2. imp'.event_map[m] = imp.event_map[m]  BY <1>8, <2>1, <3>3
      <4> QED  BY <2>3, <4>1, <4>2
    <3> QED  BY <3>2, <3>3
  <2> QED  BY <1>8, <2>4 DEF ImportOK
<1>16. /\ RecordsType(records') /\ written' \in Nat /\ RecordsInv'
       /\ written <= written' /\ Newer(records, records', written)
  BY <1>1, <1>13, RecordsSame
<1>17. DOMAIN sessions \subseteq DOMAIN sessions' /\ UNCHANGED <<clock, call>>  BY <1>1, <1>12
<1> QED  BY <1>8, <1>12, <1>13, <1>14, <1>15, <1>16, <1>17, ImportWrites

LEMMA RecountStep == ASSUME IInv, recount_sessions PROVE IInv'
<1> DEFINE s == BundleSession
           row == [sessions[s] EXCEPT !.event_count = Cardinality(Linked(events, s))]
<1>1. /\ imp.pc = "event" /\ imp.i > Len(BundleEvents)
      /\ imp' = [imp EXCEPT !.pc = "record", !.i = 1]
      /\ UNCHANGED <<clock, events, call, records, written>>
      /\ \/ sessions' = sessions
         \/ sessions' = [sessions EXCEPT ![s].event_count = Cardinality(Linked(events, s))]
  BY DEF recount_sessions, recordVars
<1>2. /\ ImportType(imp') /\ imp'.pc = "record" /\ imp'.mapped = imp.mapped
      /\ imp'.i = 1 /\ imp'.event_map = imp.event_map
  BY <1>1, ImportFacts, RecountedFields
<1>3. ImportOK(imp', events')
  <2>1. imp.i \in Nat  BY ImportFacts DEF ImportType
  <2>2. \A n \in DOMAIN BundleEvents : n < imp.i  BY <1>1, <2>1, BundleFacts
  <2>3. \A n \in DOMAIN BundleEvents : MapsTo(imp.event_map[n], n, events)
    BY <1>1, <2>2, ImportFacts DEF ImportOK
  <2> QED  BY <1>1, <1>2, <2>3 DEF ImportOK
<1>4. mapped_workspace' = mapped_workspace  BY <1>2, SameWorkspace
<1>5. SessionsType' /\ HistoryInv' /\ DOMAIN sessions \subseteq DOMAIN sessions'
  <2>1. CASE sessions' = sessions
    <3>1. SessionsType'  BY <2>1, ImportFacts DEF SessionsType
    <3>2. HistoryInv'
      BY <1>1, <1>4, <2>1, ImportFacts DEF HistoryInv, Numbered, EventsInv, CountsMatch, HappenedOnce
    <3> QED  BY <2>1, <3>1, <3>2
  <2>2. CASE s \in DOMAIN sessions /\ sessions' = [sessions EXCEPT ![s] = row]
    <3>1. Cardinality(Linked(events, s)) \in Nat  BY ImportFacts, LinkedFinite
    <3>2. sessions[s] \in SessionRow  BY <2>2, ImportFacts DEF SessionsType
    <3>3. row \in SessionRow /\ row.event_count = Cardinality(Linked(events, s))
      BY <3>1, <3>2 DEF SessionRow
    <3> HIDE DEF row, s
    <3>4. SessionsType /\ HistoryInv /\ events' = events  BY <1>1, ImportFacts
    <3> QED  BY <1>4, <2>2, <3>3, <3>4, EditedSession
  <2>3. CASE s \notin DOMAIN sessions
             /\ sessions' = [sessions EXCEPT ![s].event_count = Cardinality(Linked(events, s))]
    <3>1. sessions = [t \in DOMAIN sessions |-> sessions[t]]  BY ImportFacts DEF SessionsType
    <3>2. sessions' = sessions  BY <2>3, <3>1
    <3> QED  BY <2>1, <3>2
  <2> QED  BY <1>1, <2>1, <2>2, <2>3
<1>6. \A i \in DOMAIN events : i \in DOMAIN events' /\ events'[i] = events[i]  BY <1>1
<1>7. /\ RecordsType(records') /\ written' \in Nat /\ RecordsInv'
      /\ written <= written' /\ Newer(records, records', written)
  BY <1>1, <1>6, RecordsSame
<1>8. events' \in Seq(EventRow) /\ \A i \in DOMAIN events' : i \in DOMAIN events
  BY <1>1, ImportFacts
<1> QED  BY <1>1, <1>2, <1>3, <1>5, <1>6, <1>7, <1>8, ImportWrites

\* The row here that a bundle record is made to cite tells of what it cites
\* there.
LEMMA LocalEvidenceRight ==
    ASSUME IInv, imp.pc = "record", NEW r \in BundleRecord
    PROVE  /\ LocalEvidence(r) \in Nat
           /\ r.evidence = 0 => LocalEvidence(r) = 0
           /\ r.evidence # 0 => /\ r.evidence \in DOMAIN BundleEvents
                                /\ MapsTo(LocalEvidence(r), r.evidence, events)
<1>1. imp.event_map \in [DOMAIN BundleEvents -> Nat]  BY ImportFacts DEF ImportType
<1>2. r.evidence \in {0} \cup DOMAIN BundleEvents  BY DEF BundleRecord
<1>3. CASE r.evidence = 0
  <2>1. 0 \notin DOMAIN BundleEvents  BY BundleFacts
  <2> QED  BY <1>1, <1>3, <2>1 DEF LocalEvidence
<1>4. CASE r.evidence # 0
  <2>1. r.evidence \in DOMAIN BundleEvents  BY <1>2, <1>4
  <2>2. LocalEvidence(r) = imp.event_map[r.evidence]  BY <1>1, <2>1 DEF LocalEvidence
  <2>3. MapsTo(imp.event_map[r.evidence], r.evidence, events)  BY <2>1, ImportFacts DEF ImportOK
  <2> QED  BY <1>1, <1>4, <2>1, <2>2, <2>3
<1> QED  BY <1>3, <1>4

LEMMA ImportRecordStep == ASSUME IInv, import_record PROVE IInv'
<1> DEFINE r == BundleRecords[imp.i]
           ev == LocalEvidence(r)
           about == IF r.evidence = 0 THEN <<"user", 0>> ELSE BundleEvents[r.evidence].what
           prev == VersionOf(r.supersedes)
           row == Row("bundle", r.status, r.updated_at, r.authority, about, ev, prev, written + 1)
<1>1. /\ imp.pc = "record" /\ imp.i <= Len(BundleRecords)
      /\ UNCHANGED <<clock, sessions, events, call>>
  BY DEF import_record, historyVars
<1>2. \/ imp' = [imp EXCEPT !.i = @ + 1] /\ UNCHANGED recordVars
      \/ /\ records' = Upserted(r.id, row) /\ written' = written + 1
         /\ imp' = [imp EXCEPT !.i = @ + 1]
      \/ imp' = Over("idle", imp.failures) /\ UNCHANGED recordVars
  BY DEF import_record
<1>3. r \in BundleRecord
  <2>1. imp.i \in Nat \ {0}  BY ImportFacts DEF ImportType
  <2>2. BundleRecords \in Seq(BundleRecord)  BY BundleAssumption
  <2>3. Len(BundleRecords) \in Nat  BY <2>2, LenProperties
  <2>4. imp.i \in 1 .. Len(BundleRecords)  BY <1>1, <2>1, <2>3
  <2> QED  BY <2>2, <2>4, ElementOfSeq
<1>4. /\ ev \in Nat
      /\ r.evidence = 0 => ev = 0
      /\ r.evidence # 0 => r.evidence \in DOMAIN BundleEvents /\ MapsTo(ev, r.evidence, events)
  BY <1>1, <1>3, LocalEvidenceRight
<1>5. /\ r.id \in Nat \X Nat /\ r.authority \in Authorities /\ r.updated_at \in Nat
      /\ r.status \in Statuses
  BY <1>3 DEF BundleRecord
<1>5a. prev \in Nat /\ prev <= written
  <2>1. written \in Nat  BY ImportFacts
  <2>2. CASE r.supersedes \in DOMAIN records
    <3>1. records[r.supersedes].version \in Nat  BY <2>2, ImportFacts DEF RecordsType, RecordRow
    <3>2. records[r.supersedes].version <= written  BY <2>2, ImportFacts DEF Versions
    <3> QED  BY <2>2, <3>1, <3>2 DEF VersionOf
  <2>3. CASE r.supersedes \notin DOMAIN records  BY <2>1, <2>3 DEF VersionOf
  <2> QED  BY <2>2, <2>3
<1>6. about \in Happenings \cup {<<"user", 0>>}
  <2>1. CASE r.evidence = 0  BY <2>1
  <2>2. CASE r.evidence # 0
    <3>1. r.evidence \in DOMAIN BundleEvents  BY <1>4, <2>2
    <3>2. CASE BundleEvents[r.evidence].what \in {"observed"} \X Nat
      BY <2>2, <3>2 DEF Happenings
    <3>3. CASE BundleEvents[r.evidence].what = <<"ended", BundleSession>>
      BY <2>2, <3>3 DEF Happenings, BundleSession
    <3> QED  BY <3>1, <3>2, <3>3, BundleShape
  <2> QED  BY <2>1, <2>2
<1>7. ev # 0 => ev \in DOMAIN events /\ events[ev].what = about
  BY <1>4 DEF MapsTo
<1>8. CASE imp' = [imp EXCEPT !.i = @ + 1] /\ UNCHANGED recordVars
  <2>1. /\ ImportType(imp') /\ imp'.pc = "record" /\ imp'.mapped = imp.mapped
        /\ imp'.event_map = imp.event_map
    BY <1>1, <1>8, ImportFacts, NextRowFields
  <2>2. ImportOK(imp', events)  BY <1>1, <2>1, ImportFacts DEF ImportOK
  <2>3. UNCHANGED storeVars  BY <1>1, <1>8 DEF storeVars, recordVars
  <2> QED  BY <2>1, <2>2, <2>3, ImportMoves
<1>9. CASE /\ records' = Upserted(r.id, row) /\ written' = written + 1
           /\ imp' = [imp EXCEPT !.i = @ + 1]
  <2> HIDE DEF about, ev, prev
  <2>1. row = [by |-> "bundle", status |-> r.status, updated_at |-> r.updated_at,
               authority |-> r.authority, about |-> about, evidence |-> ev, supersedes |-> prev,
               version |-> written + 1]
    BY DEF Row
  <2>2. written \in Nat  BY ImportFacts
  <2> HIDE DEF row
  <2>3. row \in RecordRow  BY <1>4, <1>5, <1>6, <1>5a, <2>1, <2>2 DEF RecordRow
  <2>4. /\ row.version = written + 1 /\ row.supersedes <= written /\ Foreign(row)
        /\ row.evidence = ev /\ row.about = about
    BY <1>5a, <2>1 DEF Foreign
  <2>5. Cites(row, events)  BY <1>7, <2>4 DEF Cites
  <2>6. RecordsType(records')  BY <1>5, <1>9, <2>3, ImportFacts, UpsertTypes
  <2>7. Versions(records', written') /\ Newer(records, records', written)
    BY <1>9, <2>3, <2>4, ImportFacts, UpsertVersions
  <2>8. Cited(records', events)  BY <1>9, <2>5, ImportFacts, UpsertCited
  <2>9. RecordsInv'  BY <1>1, <2>7, <2>8 DEF RecordsInv
  <2>10. written' \in Nat /\ written <= written'  BY <1>9, <2>2
  <2>11. /\ ImportType(imp') /\ imp'.pc = "record" /\ imp'.mapped = imp.mapped
         /\ imp'.event_map = imp.event_map
    BY <1>1, <1>9, ImportFacts, NextRowFields
  <2>12. ImportOK(imp', events')  BY <1>1, <2>11, ImportFacts DEF ImportOK
  <2>13. mapped_workspace' = mapped_workspace  BY <2>11, SameWorkspace
  <2>14. HistoryInv'
    BY <1>1, <2>13, ImportFacts DEF HistoryInv, Numbered, EventsInv, CountsMatch, HappenedOnce
  <2>15. SessionsType' /\ events' \in Seq(EventRow)  BY <1>1, ImportFacts DEF SessionsType
  <2>16. /\ DOMAIN sessions \subseteq DOMAIN sessions'
         /\ \A i \in DOMAIN events : i \in DOMAIN events' /\ events'[i] = events[i]
         /\ \A i \in DOMAIN events' : i \in DOMAIN events
         /\ UNCHANGED <<clock, call>>
    BY <1>1
  <2> QED
    BY <2>6, <2>7, <2>9, <2>10, <2>11, <2>12, <2>14, <2>15, <2>16, ImportWrites
<1>10. CASE imp' = Over("idle", imp.failures) /\ UNCHANGED recordVars
  <2>1. UNCHANGED storeVars  BY <1>1, <1>10 DEF storeVars, recordVars
  <2> QED  BY <1>10, <2>1, OverStep
<1> QED  BY <1>2, <1>8, <1>9, <1>10

LEMMA ImportSteps == ASSUME IInv, ImportStep PROVE IInv'
  BY PlanStep, ImportSessionStep, ImportEventStep, RecountStep, ImportRecordStep, DoneStep
  DEF ImportStep

LEMMA CutOffStep == ASSUME IInv, ImportCutOff PROVE IInv'
  BY OverStep DEF ImportCutOff

----------------------------------------------------------------------------
(* The invariant *)

LEMMA NoCallFields ==
    /\ NoCall \in CallRecord
    /\ NoCall.pc = "idle" /\ NoCall.session = NoSession /\ NoCall.evidence = 0 /\ NoCall.since = 0
  BY DEF NoCall, CallRecord, CallPcs, Authorities

\* Rows that are here before the import: each with a version of its own.
LEMMA InitRecords ==
    ASSUME Init
    PROVE  /\ RecordsType(records) /\ written \in Nat
           /\ Versions(records, written)
           /\ \A d \in DOMAIN records : records[d].evidence = 1 => records[d].about = <<"local", 0>>
           /\ \A d \in DOMAIN records : records[d].evidence \in {0, 1}
<1> DEFINE ids == {BundleRecords[n].id : n \in DOMAIN BundleRecords}
<1>1. PICK here \in SUBSET ids : records \in [here -> LocalCopies]  BY DEF Init
<1>2. BundleRecords \in Seq(BundleRecord)  BY BundleAssumption
<1>3. /\ Len(BundleRecords) \in Nat /\ DOMAIN BundleRecords = 1 .. Len(BundleRecords)
      /\ \A n \in DOMAIN BundleRecords : BundleRecords[n] \in BundleRecord
  BY <1>2, LenProperties, ElementOfSeq
<1>4. IsFiniteSet(ids)
  <2> DEFINE f == [n \in DOMAIN BundleRecords |-> BundleRecords[n].id]
  <2>1. IsFiniteSet(DOMAIN BundleRecords)  BY <1>3, FS_Interval
  <2>2. f \in Surjection(DOMAIN BundleRecords, ids)  BY DEF Surjection
  <2> QED  BY <2>1, <2>2, FS_Surjection
<1>5. IsFiniteSet(here)  BY <1>4, FS_Subset
<1>6. here \subseteq Nat \X Nat  BY <1>3 DEF BundleRecord
<1>7. DOMAIN records = here /\ \A d \in here : records[d] \in LocalCopies  BY <1>1
<1>8. written = Len(BundleRecords)  BY DEF Init
<1> HIDE DEF ids
<1>9. \A d \in here : /\ records[d] \in LocalCopy
                      /\ records[d].evidence = 1 => records[d].about = <<"local", 0>>
  BY <1>7, BundleAssumption
<1>10. \A d \in here : /\ records[d].version \in 1 .. Len(BundleRecords)
                       /\ records[d].supersedes = 0 /\ records[d].evidence \in {0, 1}
  BY <1>9 DEF LocalCopy
<1>11. ASSUME NEW d \in here PROVE records[d] \in RecordRow
  <2>1. records[d] \in LocalCopy  BY <1>9
  <2>2. {<<"local", 0>>, <<"user", 0>>} \subseteq Happenings \cup {<<"user", 0>>}  BY DEF Happenings
  <2>3. 1 .. Len(BundleRecords) \subseteq Nat \ {0}  BY <1>3
  <2> QED  BY <2>1, <2>2, <2>3 DEF LocalCopy, RecordRow
<1>12. records \in [here -> RecordRow]  BY <1>1, <1>11
<1>13. RecordsType(records)  BY <1>5, <1>6, <1>7, <1>12 DEF RecordsType
<1>14. \A d, e \in DOMAIN records : records[d].version = records[e].version => d = e
  <2>1. \A d \in here : \E n \in DOMAIN BundleRecords : d = BundleRecords[n].id /\ records[d].version = n
    BY <1>7 DEF Init, ids
  <2> QED  BY <1>7, <2>1
<1>15. Versions(records, written)
  BY <1>3, <1>7, <1>8, <1>10, <1>14 DEF Versions
<1> QED  BY <1>3, <1>7, <1>8, <1>9, <1>10, <1>13, <1>15

\* The history begins with one row of this device, linked to no session.
LEMMA InitHistory ==
    ASSUME Init
    PROVE  /\ SessionsType /\ events \in Seq(EventRow) /\ HistoryInv
           /\ DOMAIN events = {1} /\ events[1].what = <<"local", 0>>
<1> DEFINE e == [what |-> <<"local", 0>>, dedup_key |-> NoKey, session_id |-> NoSession, ws |-> Here]
           row == [ws |-> Here, status |-> "active", event_count |-> 0]
<1>1. events = <<e>>  BY DEF Init
<1>2. PICK here \in SUBSET {BundleSession} : sessions = [s \in here |-> row]  BY DEF Init
<1>3. /\ e \in EventRow /\ e.what = <<"local", 0>> /\ e.dedup_key = NoKey /\ e.session_id = NoSession
  BY DEF EventRow, Happenings, Keys
<1>4. row \in SessionRow /\ row.event_count = 0  BY DEF SessionRow
<1> HIDE DEF e, row
<1>5. events \in Seq(EventRow) /\ Len(events) = 1 /\ DOMAIN events = {1} /\ events[1] = e
  BY <1>1, <1>3
<1>6. SessionsType
  <2>1. DOMAIN sessions = here /\ \A s \in here : sessions[s] = row  BY <1>2
  <2>2. sessions \in [here -> SessionRow]  BY <1>2, <1>4
  <2>3. here \subseteq Nat  BY DEF BundleSession
  <2> QED  BY <2>1, <2>2, <2>3 DEF SessionsType
<1>7. Numbered(DOMAIN sessions)
  <2>1. DOMAIN sessions \subseteq {0}  BY <1>2 DEF BundleSession
  <2>2. DOMAIN sessions \cup {0} = {0}  BY <2>1
  <2>3. {0} = 0 .. 0  OBVIOUS
  <2>4. 0 \in Nat  OBVIOUS
  <2> QED  BY <2>2, <2>3, <2>4 DEF Numbered
<1>8. EventsInv
  <2>1. Keyed(e, mapped_workspace)  BY <1>3, LocalKeyed, WorkspaceType
  <2> QED  BY <1>3, <1>5, <2>1 DEF EventsInv
<1>9. CountsMatch
  <2>1. \A s \in DOMAIN sessions : sessions[s].event_count = 0  BY <1>2, <1>4
  <2>2. \A s \in DOMAIN sessions : s # NoSession  BY <1>6, SessionsAssumption DEF SessionsType
  <2>3. ASSUME NEW s \in DOMAIN sessions PROVE Cardinality(Linked(events, s)) = 0
    <3>1. \A i \in DOMAIN events : events[i].session_id # s  BY <1>3, <1>5, <2>2
    <3> QED  BY <3>1, LinkedNone
  <2> QED  BY <2>1, <2>3 DEF CountsMatch
<1>10. HappenedOnce  BY <1>5 DEF HappenedOnce
<1> QED  BY <1>3, <1>5, <1>6, <1>7, <1>8, <1>9, <1>10 DEF HistoryInv

LEMMA InitInv == Init => IInv
<1> SUFFICES ASSUME Init PROVE IInv
  OBVIOUS
<1>1. /\ SessionsType /\ events \in Seq(EventRow) /\ HistoryInv
      /\ DOMAIN events = {1} /\ events[1].what = <<"local", 0>>
  BY InitHistory
<1>2. /\ RecordsType(records) /\ written \in Nat
      /\ Versions(records, written)
      /\ \A d \in DOMAIN records : records[d].evidence = 1 => records[d].about = <<"local", 0>>
      /\ \A d \in DOMAIN records : records[d].evidence \in {0, 1}
  BY InitRecords
<1>3. RecordsInv
  <2>1. Cited(records, events)  BY <1>1, <1>2 DEF Cited, Cites
  <2> QED  BY <1>2, <2>1 DEF RecordsInv
<1>4. ASSUME NEW c \in Calls
      PROVE  call[c] \in CallRecord /\ call[c].pc \in {"idle", "done"} /\ call[c].session = NoSession
             /\ call[c].evidence = 0 /\ call[c].since = 0
  <2>1. call[c] \in {NoCall, Left("idle"), Left("done")}  BY DEF Init, Left
  <2>2. /\ Left("idle") \in CallRecord /\ Left("idle").pc = "idle" /\ Left("idle").session = NoSession
        /\ Left("idle").evidence = 0 /\ Left("idle").since = 0
    BY LeftFields DEF CallPcs
  <2>3. /\ Left("done") \in CallRecord /\ Left("done").pc = "done" /\ Left("done").session = NoSession
        /\ Left("done").evidence = 0 /\ Left("done").since = 0
    BY LeftFields DEF CallPcs
  <2> QED  BY <2>1, <2>2, <2>3, NoCallFields
<1>5. call \in [Calls -> CallRecord]
  <2>1. call = [c \in Calls |-> call[c]]  BY DEF Init
  <2> QED  BY <1>4, <2>1
<1>6. CallsInv
  <2> SUFFICES ASSUME NEW c \in Calls
               PROVE  /\ CallOK(call[c], c, DOMAIN sessions, events, records, written)
                      /\ Unrecorded(call[c], c, events)
    BY DEF CallsInv
  <2>1. CallOK(call[c], c, DOMAIN sessions, events, records, written)
    <3>1. call[c].pc \notin {"check", "update", "ended", "observe", "look", "mint", "put"}  BY <1>4
    <3> QED  BY <1>2, <1>4, <3>1, Blank
  <2>2. Unrecorded(call[c], c, events)  BY <1>1 DEF Unrecorded
  <2> QED  BY <2>1, <2>2
<1>7. ImportType(imp) /\ imp.pc \in {"idle", "none"}
  <2>1. CASE \E mapped \in BOOLEAN, status \in BundleStatuses : imp = NoImport(mapped, status)
    BY <2>1, NoImportFields, BundleAssumption
  <2>2. CASE imp = [NoImport(TRUE, "completed") EXCEPT !.pc = "none"]
    <3>1. ImportType(NoImport(TRUE, "completed"))  BY NoImportFields
    <3> QED  BY <2>2, <3>1 DEF ImportType, ImportPcs
  <2> QED  BY <2>1, <2>2 DEF Init
<1>8. ImportOK(imp, events)  BY <1>7, NothingMapped
<1>9. clock \in Nat  BY DEF Init
<1> QED  BY <1>1, <1>2, <1>3, <1>5, <1>6, <1>7, <1>8, <1>9 DEF IInv, TypeOK

LEMMA NextInv == IInv /\ [Next]_vars => IInv'
<1> SUFFICES ASSUME IInv, [Next]_vars PROVE IInv'
  OBVIOUS
<1>1. ASSUME NEW c \in Calls, CallStep(c) PROVE IInv'
  BY <1>1, SessionSteps, RecordSteps DEF CallStep
<1>2. CASE Tick /\ UNCHANGED <<recordVars, imp>>
  <2>1. clock' \in Nat /\ UNCHANGED <<sessions, events, call, records, written, imp>>
    BY <1>2 DEF Tick, historyVars, recordVars, IInv, TypeOK
  <2>2. TypeOK'  BY <2>1 DEF IInv, TypeOK, SessionsType, RecordsType, ImportType
  <2>3. HistoryInv'
    BY <2>1 DEF IInv, HistoryInv, Numbered, EventsInv, CountsMatch, HappenedOnce, mapped_workspace
  <2>4. RecordsInv' /\ CallsInv' /\ ImportOK(imp, events)'
    BY <2>1 DEF IInv, RecordsInv, CallsInv
  <2> QED  BY <2>2, <2>3, <2>4 DEF IInv
<1>3. CASE ImportStep  BY <1>3, ImportSteps
<1>4. CASE ImportCutOff  BY <1>4, CutOffStep
<1>5. CASE UNCHANGED vars
  <2>1. UNCHANGED <<clock, sessions, events, call, records, written, imp>>  BY <1>5 DEF vars
  <2>2. TypeOK'  BY <2>1 DEF IInv, TypeOK, SessionsType, RecordsType, ImportType
  <2>3. HistoryInv'
    BY <2>1 DEF IInv, HistoryInv, Numbered, EventsInv, CountsMatch, HappenedOnce, mapped_workspace
  <2>4. RecordsInv' /\ CallsInv' /\ ImportOK(imp, events)'
    BY <2>1 DEF IInv, RecordsInv, CallsInv
  <2> QED  BY <2>2, <2>3, <2>4 DEF IInv
<1> QED  BY <1>1, <1>2, <1>3, <1>4, <1>5 DEF Next

\* The invariant holds in every state the calls and the import reach together.
THEOREM InvariantHolds == Spec => []IInv
  BY InitInv, NextInv, PTL DEF Spec

----------------------------------------------------------------------------
(* Theorems *)

\* Every row the handlers and the import write is one the tables can hold.
THEOREM TypeCorrect == Spec => []TypeOK
<1>1. IInv => TypeOK  BY DEF IInv
<1> QED  BY <1>1, InvariantHolds, PTL

\* The cached event_count of every session is the number of events linked to
\* it: record_event_in_tx writes both in one transaction, an imported session
\* starts at none, and recount_sessions finds what is already there.
THEOREM CountsCorrect == Spec => []CountsMatch
<1>1. IInv => CountsMatch  BY DEF IInv, HistoryInv
<1> QED  BY <1>1, InvariantHolds, PTL

\* No happening is in the history twice, however often a session is closed or a
\* bundle imported: a key always means the same happening.
THEOREM OnceCorrect == Spec => []HappenedOnce
<1>1. IInv => HappenedOnce  BY DEF IInv, HistoryInv
<1> QED  BY <1>1, InvariantHolds, PTL

\* No version of a record has two successors that calls stored: supersede_impl
\* asks for the predecessor's status in the transaction that ends it.
THEOREM SuccessorCorrect == Spec => []OneSuccessor
<1>1. IInv => OneSuccessor  BY DEF IInv, RecordsInv, Versions, OneSuccessor, Foreign
<1> QED  BY <1>1, InvariantHolds, PTL

\* A record cites the row of the happening it was drawn from, whether a call
\* stored it or import_record mapped it.
THEOREM CitationsCorrect == Spec => []CitationsFaithful
<1>1. IInv => CitationsFaithful  BY DEF IInv, RecordsInv, Cited, Cites, CitationsFaithful
<1> QED  BY <1>1, InvariantHolds, PTL

\* When put_record stores a fresh record of a call whose search had seen every
\* active one, any other active record was written after that search.
THEOREM ForkCorrect == Spec => ForkNeedsOverlap
<1>1. ASSUME IInv, NEW c \in Calls, put_record(c), call[c].status = "active", ~call[c].missed,
             NEW i \in ActiveRecords \ {call[c].id}
      PROVE  records[i].version > call[c].since
  <2>1. call[c].pc = "put" /\ call[c].target = NoRecord  BY <1>1 DEF put_record
  <2>2. i \in DOMAIN records /\ Active(records[i])  BY DEF ActiveRecords
  <2>3. call[c].since < records[i].version  BY <1>1, <2>1, <2>2, CallFacts DEF CallOK
  <2>4. call[c].since \in Nat  BY <1>1, CallFacts DEF CallRecord
  <2>5. records[i].version \in Nat
    <3>1. records[i] \in RecordRow  BY <1>1, <2>2, ImportFacts DEF RecordsType
    <3> QED  BY <3>1 DEF RecordRow
  <2> QED  BY <2>3, <2>4, <2>5
<1>2. IInv /\ [Next]_vars =>
        [\A c \in Calls : put_record(c) /\ call[c].status = "active" /\ ~call[c].missed =>
            \A i \in ActiveRecords \ {call[c].id} : records[i].version > call[c].since]_vars
  BY <1>1
<1> QED  BY <1>2, InvariantHolds, PTL DEF Spec, ForkNeedsOverlap
=============================================================================
