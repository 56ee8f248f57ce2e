-------------------------- MODULE SkillReviewProofs --------------------------
(***************************************************************************)
(* Proofs about SkillReview, for any number of contents, handlers and      *)
(* workspaces and any interleaving of their closures.                      *)
(*                                                                         *)
(* A handler is a sequence of closures still to run, so the invariants are *)
(* about programs: which closure may stand where (Grammar), what its first *)
(* closure may count on (Ready) and what it never touches (Spared).        *)
(***************************************************************************)
EXTENDS SkillReview, TLAPS, SequenceTheorems

----------------------------------------------------------------------------
(* The inductive invariant *)

\* What a request may be consumed as; and as what its candidate must have become.
Answers == {"approved", "rejected", "deferred", "superseded", "replaced"}
Told(answer, status) ==
    /\ answer = "approved" => status = "active"
    /\ answer = "rejected" => status = "rejected"
    /\ answer = "replaced" => status = "superseded"

\* A closure carries only what its handler has checked or read: content is
\* written past evaluation only when it is valid, a request is one that exists
\* and, when it is answered, that of the candidate.
Fits(i, rows) ==
    /\ i.do = "write" =>
          /\ i.to \in Statuses
          /\ i.to \in {"draft", "validated", "active"} => i.content \in Valid
    /\ i.do = "draft" => i.content \in Valid
    /\ i.do = "request" => i.to \in Actions
    /\ i.do = "publish" /\ i.version # 0 => i.content \in Valid
    /\ i.do \in {"candidate", "fork", "successor", "close"} => i.request \in DOMAIN rows
    /\ i.do \in {"candidate", "close"} => rows[i.request].candidate = i.content
    /\ i.do = "close" => i.to \in Answers

\* What must have run right before a closure: the check before its write, the
\* gates before the transaction, the effect before the request is consumed.
Linked(i, j) ==
    /\ j.do = "write" => i.do = "check" /\ i.content = j.content /\ i.to = j.to
    /\ j.do = "publish" => i.do = "gate" /\ i.content = j.content
    /\ j.do = "close" /\ j.to = "approved" => i.do = "publish" /\ i.content = j.content
    /\ j.do = "close" /\ j.to = "rejected" =>
          i.do = "write" /\ i.to = "rejected" /\ i.content = j.content
    /\ j.do = "close" /\ j.to = "replaced" =>
          i.do = "write" /\ i.to = "superseded" /\ i.content = j.content

\* A closure that may stand anywhere.
Free(i) ==
    /\ i.do \notin {"write", "publish"}
    /\ i.do = "close" => i.to \notin {"approved", "rejected", "replaced"}

Grammar(p, rows) ==
    /\ \A n \in 1 .. Len(p) :
          /\ Fits(p[n], rows)
          /\ n > 1 => Linked(p[n - 1], p[n])
          /\ p[n].do = "gate" =>
                n < Len(p) /\ p[n + 1].do = "publish" /\ p[n + 1].content = p[n].content
          /\ p[n].do \in {"candidate", "fork"} => n = Len(p)

\* With nobody else at work, what the closure at hand finds.
Ready(i, cs) ==
    /\ i.do = "write" => CanTransition(cs[i.content].status, i.to)
    /\ i.do = "publish" /\ i.version # 0 => cs[i.content].status = "validated"
    /\ i.do = "close" => Told(i.to, cs[i.content].status)

\* The parent of a modification stays validated until it is superseded.
Spared(p, cs, rows) ==
    \A n \in 1 .. Len(p) :
        /\ p[n].do = "fork" =>
              LET parent == rows[p[n].request].candidate
              IN  /\ cs[parent].status = "validated"
                  /\ \A m \in 1 .. Len(p) : p[m].content # parent
        /\ p[n].do \in {"check", "write"} /\ p[n].to = "superseded" =>
              /\ cs[p[n].content].status = "validated"
              /\ \A m \in 1 .. (n - 1) : p[m].do \in {"successor", "check"}

\* A consumed request tells the truth (ConsumedMeansDone).
Truthful(cs, rows) ==
    \A r \in DOMAIN rows : Told(rows[r].status, cs[rows[r].candidate].status)

GrammarInv == \A w \in Workers : Grammar(worker[w], requests)

\* The handlers of one mutation_lock take turns.
TurnsInv ==
    OneLock =>
        /\ \A v, w \in Workers : worker[v] # <<>> /\ worker[w] # <<>> => v = w
        /\ \A w \in Workers : worker[w] # <<>> =>
              /\ Ready(worker[w][1], cand)
              /\ Spared(worker[w], cand, requests)
        /\ Truthful(cand, requests)

IInv == TypeOK /\ ValidOnly /\ GrammarInv /\ TurnsInv

----------------------------------------------------------------------------
(* Programs *)

\* Rows are only added, and keep their candidate.
Grows(rows, new) ==
    /\ Len(rows) <= Len(new)
    /\ \A r \in 1 .. Len(rows) : new[r].candidate = rows[r].candidate

LEMMA GrammarGrows ==
    ASSUME NEW p \in Seq(Instructions),
           NEW rows \in Seq(RequestRow), NEW new \in Seq(RequestRow),
           Grows(rows, new), Grammar(p, rows)
    PROVE  Grammar(p, new)
  <1>1. DOMAIN rows = 1 .. Len(rows) /\ DOMAIN new = 1 .. Len(new)
        /\ Len(rows) \in Nat /\ Len(new) \in Nat
    BY LenProperties
  <1>2. ASSUME NEW i, Fits(i, rows) PROVE Fits(i, new)
    BY <1>1, <1>2 DEF Fits, Grows
  <1> QED
    BY <1>2 DEF Grammar

LEMMA TailGrammar ==
    ASSUME NEW p \in Seq(Instructions), p # <<>>, NEW rows, Grammar(p, rows)
    PROVE  /\ Tail(p) \in Seq(Instructions)
           /\ Grammar(Tail(p), rows)
           /\ Tail(p) # <<>> =>
                 /\ Len(p) > 1
                 /\ Tail(p)[1] = p[2]
                 /\ Linked(p[1], p[2])
                 /\ p[1].do \notin {"check", "write", "gate", "publish"} => Free(p[2])
  <1> DEFINE q == Tail(p)
  <1>1. /\ q \in Seq(Instructions) /\ Len(q) = Len(p) - 1
        /\ \A i \in 1 .. Len(q) : q[i] = p[i + 1]
        /\ Len(p) \in Nat \ {0} /\ Len(q) \in Nat
    BY HeadTailProperties, LenProperties, EmptySeq
  <1>2. q # <<>> => Len(q) > 0
    BY <1>1, EmptySeq
  <1> HIDE DEF q
  <1>3. ASSUME NEW n \in 1 .. Len(q)
        PROVE  /\ Fits(q[n], rows)
               /\ n > 1 => Linked(q[n - 1], q[n])
               /\ q[n].do = "gate" =>
                     n < Len(q) /\ q[n + 1].do = "publish" /\ q[n + 1].content = q[n].content
               /\ q[n].do \in {"candidate", "fork"} => n = Len(q)
    <2>1. n + 1 \in 1 .. Len(p) /\ n + 1 > 1 /\ (n + 1) - 1 = n /\ q[n] = p[n + 1]
      BY <1>1
    <2>2. n > 1 => n - 1 \in 1 .. Len(q) /\ q[n - 1] = p[n]
      BY <1>1
    <2>3. n < Len(q) => n + 1 \in 1 .. Len(q) /\ q[n + 1] = p[n + 1 + 1]
      BY <1>1
    <2>4. n + 1 < Len(p) <=> n < Len(q)
      BY <1>1
    <2>5. n + 1 = Len(p) <=> n = Len(q)
      BY <1>1
    <2>6. /\ Fits(p[n + 1], rows)
          /\ n + 1 > 1 => Linked(p[(n + 1) - 1], p[n + 1])
          /\ p[n + 1].do = "gate" =>
                /\ n + 1 < Len(p)
                /\ p[n + 1 + 1].do = "publish"
                /\ p[n + 1 + 1].content = p[n + 1].content
          /\ p[n + 1].do \in {"candidate", "fork"} => n + 1 = Len(p)
      BY <2>1 DEF Grammar
    <2> QED
      BY <2>1, <2>2, <2>3, <2>4, <2>5, <2>6
  <1>4. Grammar(q, rows)
    BY <1>3 DEF Grammar
  <1>5. q # <<>> => Len(p) > 1 /\ q[1] = p[2] /\ Linked(p[1], p[2])
    <2> SUFFICES ASSUME q # <<>> PROVE Len(p) > 1 /\ q[1] = p[2] /\ Linked(p[1], p[2])
      OBVIOUS
    <2>1. Len(p) > 1 /\ 1 \in 1 .. Len(q) /\ 2 \in 1 .. Len(p) /\ 2 > 1 /\ 2 - 1 = 1
      BY <1>1, <1>2
    <2> QED
      BY <1>1, <2>1 DEF Grammar
  <1>6. Linked(p[1], p[2]) /\ p[1].do \notin {"check", "write", "gate", "publish"} => Free(p[2])
    BY DEF Linked, Free
  <1> QED
    BY <1>1, <1>4, <1>5, <1>6 DEF q

LEMMA JoinGrammar ==
    ASSUME NEW a \in Seq(Instructions), NEW b \in Seq(Instructions), NEW rows,
           Grammar(a, rows), Grammar(b, rows), b # <<>> => Free(b[1]),
           b # <<>> => \A n \in 1 .. Len(a) : a[n].do \notin {"candidate", "fork"}
    PROVE  /\ a \o b \in Seq(Instructions)
           /\ Grammar(a \o b, rows)
           /\ (a # <<>> => Free(a[1])) /\ a \o b # <<>> => Free((a \o b)[1])
  <1> DEFINE q == a \o b
  <1>1. /\ q \in Seq(Instructions) /\ Len(q) = Len(a) + Len(b)
        /\ \A i \in 1 .. Len(a) + Len(b) : q[i] = IF i <= Len(a) THEN a[i] ELSE b[i - Len(a)]
        /\ Len(a) \in Nat /\ Len(b) \in Nat
    BY ConcatProperties, LenProperties
  <1>2. (a # <<>> => Len(a) > 0) /\ (b # <<>> => Len(b) > 0) /\ (q # <<>> => Len(q) > 0)
    BY <1>1, EmptySeq
  <1>b. Len(b) > 0 => b # <<>>
    BY EmptySeq
  <1>c. Len(a) > 0 => a # <<>>
    BY EmptySeq
  <1> HIDE DEF q
  <1>3. ASSUME NEW i, NEW j, Free(j) PROVE Linked(i, j)
    BY <1>3 DEF Free, Linked
  <1>4. ASSUME NEW n \in 1 .. Len(q)
        PROVE  /\ Fits(q[n], rows)
               /\ n > 1 => Linked(q[n - 1], q[n])
               /\ q[n].do = "gate" =>
                     n < Len(q) /\ q[n + 1].do = "publish" /\ q[n + 1].content = q[n].content
               /\ q[n].do \in {"candidate", "fork"} => n = Len(q)
    <2>1. CASE n <= Len(a)
      <3>1. n \in 1 .. Len(a) /\ q[n] = a[n] /\ (n > 1 => q[n - 1] = a[n - 1])
            /\ (n < Len(a) => q[n + 1] = a[n + 1] /\ n < Len(q))
        BY <1>1, <2>1
      <3>2. n = Len(a) => (b # <<>> => a[n].do \notin {"candidate", "fork"})
        BY <3>1
      <3>3. a[n].do \in {"candidate", "fork"} => b = <<>>
        BY <3>1
      <3>4. b = <<>> => Len(q) = Len(a)
        BY <1>1, EmptySeq
      <3> QED
        BY <3>1, <3>3, <3>4 DEF Grammar
    <2>2. CASE n > Len(a)
      <3> DEFINE m == n - Len(a)
      <3>1. m \in 1 .. Len(b) /\ q[n] = b[m] /\ (m > 1 => q[n - 1] = b[m - 1])
            /\ (m < Len(b) => q[n + 1] = b[m + 1] /\ n < Len(q)) /\ (m = Len(b) => n = Len(q))
        BY <1>1, <2>2
      <3>2. m > 1 \/ (m = 1 /\ b # <<>>)
        BY <1>b, <3>1
      <3> HIDE DEF m
      <3>3. /\ Fits(b[m], rows)
            /\ m > 1 => Linked(b[m - 1], b[m])
            /\ b[m].do = "gate" =>
                  m < Len(b) /\ b[m + 1].do = "publish" /\ b[m + 1].content = b[m].content
            /\ b[m].do \in {"candidate", "fork"} => m = Len(b)
        BY <3>1 DEF Grammar
      <3>4. Linked(q[n - 1], q[n])
        BY <1>3, <3>1, <3>2, <3>3
      <3> QED
        BY <3>1, <3>3, <3>4
    <2> QED
      BY <1>1, <2>1, <2>2
  <1>5. Grammar(q, rows)
    BY <1>4 DEF Grammar
  <1>6. (a # <<>> => Free(a[1])) /\ q # <<>> => Free(q[1])
    <2> SUFFICES ASSUME a # <<>> => Free(a[1]), q # <<>> PROVE Free(q[1])
      OBVIOUS
    <2>1. CASE Len(a) > 0
      BY <1>1, <1>c, <2>1
    <2>2. CASE Len(a) = 0
      BY <1>1, <1>2, <1>b, <2>2
    <2> QED
      BY <1>1, <2>1, <2>2
  <1> QED
    BY <1>1, <1>5, <1>6 DEF q

\* Closures about one candidate that cannot harm a parent.
Plain(p, k) ==
    \A n \in 1 .. Len(p) :
        /\ p[n].content = k
        /\ p[n].do \notin {"candidate", "fork"}
        /\ p[n].do \in {"check", "write"} => p[n].to # "superseded"

LEMMA DoFacts ==
    ASSUME NEW k \in Contents, NEW what,
           what \in {"anchor", "insert", "evaluate", "check", "write", "promote", "draft",
                     "request", "candidate", "gate", "publish", "fork", "successor", "close",
                     "sweep"}
    PROVE  /\ Do(what, k) \in Instructions
           /\ Do(what, k).do = what /\ Do(what, k).content = k
           /\ Do(what, k).version = 0
  <1>1. 0 \in 0 .. MaxRequests
    BY ConstantsAssumption
  <1> QED
    BY <1>1 DEF Do, Instructions, Statuses

LEMMA DoTo ==
    ASSUME NEW k \in Contents, NEW what \in {"check", "write"}, NEW to \in Statuses
    PROVE  LET i == [Do(what, k) EXCEPT !.to = to]
           IN  i \in Instructions /\ i.do = what /\ i.content = k /\ i.to = to
  <1>1. Do(what, k) \in Instructions /\ Do(what, k).do = what /\ Do(what, k).content = k
    BY DoFacts
  <1> QED
    BY <1>1 DEF Instructions

LEMMA DoRequest ==
    ASSUME NEW k \in Contents, NEW what \in {"candidate", "fork"}, NEW r \in 0 .. MaxRequests
    PROVE  LET i == [Do(what, k) EXCEPT !.request = r]
           IN  i \in Instructions /\ i.do = what /\ i.content = k /\ i.request = r
  <1>1. Do(what, k) \in Instructions /\ Do(what, k).do = what /\ Do(what, k).content = k
    BY DoFacts
  <1> QED
    BY <1>1 DEF Instructions

LEMMA EmptyProgram ==
    ASSUME NEW rows, NEW k
    PROVE  <<>> \in Seq(Instructions) /\ Grammar(<<>>, rows) /\ Plain(<<>>, k)
  BY EmptySeq DEF Grammar, Plain

\* A program of one closure that needs nothing before it.
LEMMA SingleProgram ==
    ASSUME NEW i \in Instructions, NEW rows, Fits(i, rows), i.do # "gate"
    PROVE  /\ <<i>> \in Seq(Instructions) /\ <<i>> # <<>> /\ <<i>>[1] = i /\ Len(<<i>>) = 1
           /\ Grammar(<<i>>, rows)
  BY DEF Grammar

LEMMA PairProgram ==
    ASSUME NEW i \in Instructions, NEW j \in Instructions, NEW rows,
           Fits(i, rows), Fits(j, rows), Linked(i, j),
           i.do \notin {"candidate", "fork"}, j.do # "gate",
           i.do = "gate" => j.do = "publish" /\ j.content = i.content
    PROVE  /\ <<i, j>> \in Seq(Instructions) /\ <<i, j>> # <<>>
           /\ <<i, j>>[1] = i /\ <<i, j>>[2] = j /\ Len(<<i, j>>) = 2
           /\ Grammar(<<i, j>>, rows)
  <1> DEFINE p == <<i, j>>
  <1>1. p \in Seq(Instructions) /\ p # <<>> /\ Len(p) = 2 /\ p[1] = i /\ p[2] = j
    OBVIOUS
  <1> HIDE DEF p
  <1>2. Grammar(p, rows)
    <2> SUFFICES ASSUME NEW n \in 1 .. 2
                 PROVE  /\ Fits(p[n], rows)
                        /\ n > 1 => Linked(p[n - 1], p[n])
                        /\ p[n].do = "gate" =>
                              /\ n < 2 /\ p[n + 1].do = "publish"
                              /\ p[n + 1].content = p[n].content
                        /\ p[n].do \in {"candidate", "fork"} => n = 2
      BY <1>1 DEF Grammar
    <2>1. CASE n = 1
      BY <1>1, <2>1
    <2>2. CASE n = 2
      BY <1>1, <2>2
    <2> QED
      BY <2>1, <2>2
  <1> QED
    BY <1>1, <1>2 DEF p

LEMMA TransitionProgram ==
    ASSUME NEW k \in Contents, NEW to \in Statuses, NEW rows,
           to \in {"draft", "validated", "active"} => k \in Valid
    PROVE  LET p == Transition(k, to)
           IN  /\ p \in Seq(Instructions) /\ p # <<>> /\ Len(p) = 2
               /\ Grammar(p, rows)
               /\ Free(p[1])
               /\ \A n \in 1 .. 2 : /\ p[n].content = k
                                    /\ p[n].do \in {"check", "write"}
                                    /\ p[n].to = to
               /\ p[1].do = "check"
               /\ p[2].do = "write"
  <1> DEFINE i == [Do("check", k) EXCEPT !.to = to]
             j == [Do("write", k) EXCEPT !.to = to]
             p == Transition(k, to)
  <1>1. i \in Instructions /\ i.do = "check" /\ i.content = k /\ i.to = to
    BY DoTo
  <1>2. j \in Instructions /\ j.do = "write" /\ j.content = k /\ j.to = to
    BY DoTo
  <1>3. p = <<i, j>>
    BY DEF Transition
  <1> HIDE DEF i, j
  <1>4. Fits(i, rows) /\ Fits(j, rows) /\ Linked(i, j)
    BY <1>1, <1>2 DEF Fits, Linked
  <1>5. /\ p \in Seq(Instructions) /\ p # <<>>
        /\ p[1] = i /\ p[2] = j /\ Len(p) = 2
        /\ Grammar(p, rows)
    BY <1>1, <1>2, <1>3, <1>4, PairProgram
  <1> HIDE DEF p
  <1>6. Free(p[1])
    BY <1>1, <1>5 DEF Free
  <1>7. ASSUME NEW n \in 1 .. 2
        PROVE  p[n].content = k /\ p[n].do \in {"check", "write"} /\ p[n].to = to
    <2>1. n = 1 \/ n = 2
      OBVIOUS
    <2> QED
      BY <1>1, <1>2, <1>5, <2>1
  <1> QED
    BY <1>1, <1>2, <1>5, <1>6, <1>7 DEF p

LEMMA PlainJoin ==
    ASSUME NEW k, NEW a \in Seq(Instructions), NEW b \in Seq(Instructions), Plain(a, k), Plain(b, k)
    PROVE  Plain(a \o b, k)
  <1> DEFINE q == a \o b
  <1>1. /\ Len(q) = Len(a) + Len(b)
        /\ \A i \in 1 .. Len(a) + Len(b) : q[i] = IF i <= Len(a) THEN a[i] ELSE b[i - Len(a)]
        /\ Len(a) \in Nat /\ Len(b) \in Nat
    BY ConcatProperties, LenProperties
  <1> HIDE DEF q
  <1>2. ASSUME NEW n \in 1 .. Len(q)
        PROVE  (n \in 1 .. Len(a) /\ q[n] = a[n])
               \/ (n - Len(a) \in 1 .. Len(b) /\ q[n] = b[n - Len(a)])
    BY <1>1
  <1>3. Plain(q, k)
    BY <1>2 DEF Plain
  <1> QED
    BY <1>3 DEF q

LEMMA EvaluationProgram ==
    ASSUME NEW k \in Valid, NEW from, NEW rows
    PROVE  /\ Evaluation(k, from) \in Seq(Instructions)
           /\ Grammar(Evaluation(k, from), rows)
           /\ Plain(Evaluation(k, from), k)
           /\ Evaluation(k, from) # <<>> => Free(Evaluation(k, from)[1])
  <1> DEFINE a == IF from \in {"candidate", "deferred"} THEN Transition(k, "evaluating") ELSE <<>>
             b == IF from # "draft" THEN Promote(k) ELSE <<>>
             c == Transition(k, "validated")
             Good(p) == /\ p \in Seq(Instructions) /\ Grammar(p, rows) /\ Plain(p, k)
                        /\ p # <<>> => Free(p[1])
  <1>k. k \in Contents
    BY ConstantsAssumption
  <1>0. Good(<<>>)
    BY EmptyProgram
  <1>1. ASSUME NEW to \in {"evaluating", "validated"} PROVE Good(Transition(k, to))
    <2>1. to \in Statuses /\ to # "superseded"
      BY DEF Statuses
    <2> QED
      BY <1>k, <2>1, TransitionProgram DEF Plain
  <1>2. Good(Promote(k))
    <2> DEFINE i == Do("promote", k)
               j == Do("draft", k)
    <2>1. i \in Instructions /\ i.do = "promote" /\ i.content = k
      BY <1>k, DoFacts
    <2>2. j \in Instructions /\ j.do = "draft" /\ j.content = k
      BY <1>k, DoFacts
    <2>3. Promote(k) = <<i, j>>
      BY DEF Promote
    <2> HIDE DEF i, j
    <2>4. Fits(i, rows) /\ Fits(j, rows) /\ Linked(i, j)
      BY <2>1, <2>2 DEF Fits, Linked
    <2>5. /\ <<i, j>> \in Seq(Instructions) /\ <<i, j>> # <<>>
          /\ <<i, j>>[1] = i /\ <<i, j>>[2] = j /\ Len(<<i, j>>) = 2
          /\ Grammar(<<i, j>>, rows)
      BY <2>1, <2>2, <2>4, PairProgram
    <2>6. Free(i)
      BY <2>1 DEF Free
    <2>7. Plain(<<i, j>>, k)
      BY <2>1, <2>2, <2>5 DEF Plain
    <2> QED
      BY <2>3, <2>5, <2>6, <2>7
  <1>3. Good(a) /\ Good(b) /\ Good(c)
    BY <1>0, <1>1, <1>2
  <1>4. ASSUME NEW p, NEW q, Good(p), Good(q) PROVE Good(p \o q)
    <2>1. \A n \in 1 .. Len(p) : p[n].do \notin {"candidate", "fork"}
      BY <1>4 DEF Plain
    <2> QED
      BY <1>4, <2>1, JoinGrammar, PlainJoin
  <1> HIDE DEF a, b, c, Good
  <1>5. Good(a \o b)
    BY <1>3, <1>4
  <1>6. Good((a \o b) \o c)
    BY <1>3, <1>4, <1>5
  <1>7. Evaluation(k, from) = (a \o b) \o c
    BY DEF Evaluation, a, b, c
  <1> QED
    BY <1>6, <1>7 DEF Good

LEMMA ApprovalProgram ==
    ASSUME NEW k \in Contents, NEW rows
    PROVE  LET p == Approval(k)
           IN  /\ p \in Seq(Instructions) /\ p # <<>> /\ Len(p) = 2
               /\ Grammar(p, rows) /\ Plain(p, k)
               /\ p[1].do = "gate" /\ p[2].do = "publish" /\ p[2].version = 0
  <1> DEFINE i == Do("gate", k)
             j == Do("publish", k)
  <1>1. i \in Instructions /\ i.do = "gate" /\ i.content = k
    BY DoFacts
  <1>2. j \in Instructions /\ j.do = "publish" /\ j.content = k /\ j.version = 0
    BY DoFacts
  <1>3. Approval(k) = <<i, j>>
    BY DEF Approval
  <1> HIDE DEF i, j
  <1>4. Fits(i, rows) /\ Fits(j, rows) /\ Linked(i, j)
    BY <1>1, <1>2 DEF Fits, Linked
  <1>5. /\ <<i, j>> \in Seq(Instructions) /\ <<i, j>> # <<>>
        /\ <<i, j>>[1] = i /\ <<i, j>>[2] = j /\ Len(<<i, j>>) = 2
        /\ Grammar(<<i, j>>, rows)
    BY <1>1, <1>2, <1>4, PairProgram
  <1>6. Plain(<<i, j>>, k)
    BY <1>1, <1>2, <1>5 DEF Plain
  <1> QED
    BY <1>1, <1>2, <1>3, <1>5, <1>6

LEMMA CloseFacts ==
    ASSUME TypeOK, NEW r \in DOMAIN requests,
           NEW to \in Answers
    PROVE  LET i == Close(r, to)
           IN  /\ i \in Instructions /\ i.do = "close" /\ i.to = to /\ i.request = r
               /\ i.content = requests[r].candidate /\ i.content \in Contents
               /\ Fits(i, requests)
  <1> DEFINE k == requests[r].candidate
  <1>0. /\ requests \in Seq(RequestRow) /\ Len(requests) \in Nat /\ Len(requests) <= MaxRequests
        /\ r \in 1 .. Len(requests)
    BY LenProperties DEF TypeOK
  <1>1. k \in Contents /\ r \in 0 .. MaxRequests
    <2>1. requests[r] \in RequestRow
      BY <1>0, ElementOfSeq
    <2> QED
      BY <1>0, <2>1, ConstantsAssumption DEF RequestRow
  <1>2. /\ Do("close", k) \in Instructions
        /\ Do("close", k).do = "close" /\ Do("close", k).content = k
    BY <1>1, DoFacts
  <1>3. Close(r, to) = [Do("close", k) EXCEPT !.to = to, !.request = r]
    BY DEF Close
  <1> HIDE DEF k
  <1>4. LET i == [Do("close", k) EXCEPT !.to = to, !.request = r]
        IN  i \in Instructions /\ i.do = "close" /\ i.to = to /\ i.request = r /\ i.content = k
    BY <1>1, <1>2 DEF Instructions, Statuses, Answers
  <1> QED
    BY <1>1, <1>3, <1>4 DEF Fits, k

\* A program that ends by consuming the request its effect was for.
LEMMA AppendClose ==
    ASSUME NEW a \in Seq(Instructions), NEW i \in Instructions, NEW rows, Len(a) = 2,
           Grammar(a, rows), Fits(i, rows), i.do = "close", Linked(a[2], i),
           a[1].do \notin {"candidate", "fork"}, a[2].do \notin {"candidate", "fork", "gate"}
    PROVE  LET p == a \o <<i>>
           IN  /\ p \in Seq(Instructions) /\ Len(p) = 3 /\ p # <<>>
               /\ p[1] = a[1] /\ p[2] = a[2] /\ p[3] = i
               /\ Grammar(p, rows)
  <1> DEFINE b == <<i>>
             p == a \o b
  <1>0. b \in Seq(Instructions) /\ Len(b) = 1 /\ b[1] = i
    OBVIOUS
  <1> HIDE DEF b
  <1>1. /\ p \in Seq(Instructions) /\ Len(p) = 3
        /\ \A n \in 1 .. 3 : p[n] = IF n <= 2 THEN a[n] ELSE b[n - 2]
    <2>1. /\ p \in Seq(Instructions) /\ Len(p) = Len(a) + Len(b)
          /\ \A n \in 1 .. Len(a) + Len(b) :
                p[n] = IF n <= Len(a) THEN a[n] ELSE b[n - Len(a)]
      BY <1>0, ConcatProperties
    <2> QED
      BY <1>0, <2>1
  <1>2. p[1] = a[1] /\ p[2] = a[2] /\ p[3] = i /\ p # <<>>
    BY <1>0, <1>1, EmptySeq
  <1> HIDE DEF p
  <1>a. /\ Fits(a[1], rows) /\ Fits(a[2], rows) /\ Linked(a[1], a[2])
        /\ a[1].do = "gate" => a[2].do = "publish" /\ a[2].content = a[1].content
    <2>1. 1 \in 1 .. Len(a) /\ 2 \in 1 .. Len(a) /\ 2 > 1 /\ 2 - 1 = 1 /\ 1 + 1 = 2
      OBVIOUS
    <2> QED
      BY <2>1 DEF Grammar
  <1>3. ASSUME NEW n \in 1 .. 3
        PROVE  /\ Fits(p[n], rows)
               /\ n > 1 => Linked(p[n - 1], p[n])
               /\ p[n].do = "gate" =>
                     n < 3 /\ p[n + 1].do = "publish" /\ p[n + 1].content = p[n].content
               /\ p[n].do \in {"candidate", "fork"} => n = 3
    <2>1. CASE n = 1
      BY <1>2, <1>a, <2>1
    <2>2. CASE n = 2
      BY <1>2, <1>a, <2>2
    <2>3. CASE n = 3
      BY <1>2, <2>3
    <2> QED
      BY <2>1, <2>2, <2>3
  <1>4. Grammar(p, rows)
    BY <1>1, <1>3 DEF Grammar
  <1> QED
    BY <1>1, <1>2, <1>4 DEF p, b

\* What an answer runs, for a candidate that is still validated.
LEMMA AnswerProgram ==
    ASSUME TypeOK, NEW r \in DOMAIN requests, NEW response \in {"approve", "reject", "defer"},
           NEW m
    PROVE  LET p == Answer(r, response, m)
           IN  /\ p \in Seq(Instructions) /\ p # <<>>
               /\ Grammar(p, requests)
               /\ Plain(p, requests[r].candidate)
               /\ Free(p[1])
  <1> DEFINE k == requests[r].candidate
             Good(p) == /\ p \in Seq(Instructions) /\ p # <<>> /\ Grammar(p, requests)
                        /\ Plain(p, k) /\ Free(p[1])
  <1>k. k \in Contents
    BY CloseFacts DEF Answers
  <1>1. CASE response = "approve"
    <2> DEFINE i == Close(r, "approved")
               a == Approval(k)
    <2>1. Answer(r, response, m) = a \o <<i>>
      BY <1>1 DEF Answer
    <2>2. /\ i \in Instructions /\ i.do = "close" /\ i.to = "approved" /\ i.content = k
          /\ Fits(i, requests)
      BY CloseFacts DEF Answers
    <2>3. /\ a \in Seq(Instructions) /\ Len(a) = 2 /\ Grammar(a, requests) /\ Plain(a, k)
          /\ a[1].do = "gate" /\ a[2].do = "publish"
      BY <1>k, ApprovalProgram
    <2> HIDE DEF i, a
    <2>4. Linked(a[2], i)
      BY <2>2, <2>3 DEF Linked, Plain
    <2>5. LET p == a \o <<i>>
          IN  /\ p \in Seq(Instructions) /\ Len(p) = 3 /\ p # <<>>
              /\ p[1] = a[1] /\ p[2] = a[2] /\ p[3] = i /\ Grammar(p, requests)
      BY <2>2, <2>3, <2>4, AppendClose
    <2> DEFINE p == a \o <<i>>
    <2> HIDE DEF p
    <2>6. Plain(p, k) /\ Free(p[1])
      BY <2>2, <2>3, <2>5 DEF p, Plain, Free
    <2> QED
      BY <2>1, <2>5, <2>6 DEF p
  <1>2. ASSUME NEW to \in {"rejected", "deferred"}
        PROVE  Good(Transition(k, to) \o <<Close(r, to)>>)
    <2> DEFINE i == Close(r, to)
               a == Transition(k, to)
    <2>2. /\ i \in Instructions /\ i.do = "close" /\ i.to = to /\ i.content = k
          /\ Fits(i, requests)
      BY CloseFacts DEF Answers
    <2>t. to \in Statuses /\ to \notin {"draft", "validated", "active", "superseded"}
      BY DEF Statuses
    <2>3. /\ a \in Seq(Instructions) /\ Len(a) = 2 /\ Grammar(a, requests)
          /\ a[1].content = k /\ a[2].content = k /\ a[1].to = to /\ a[2].to = to
          /\ a[1].do = "check" /\ a[2].do = "write"
      <3> HIDE DEF k
      <3>1. LET p == Transition(k, to)
            IN  /\ p \in Seq(Instructions) /\ p # <<>> /\ Len(p) = 2
                /\ Grammar(p, requests)
                /\ \A n \in 1 .. 2 : /\ p[n].content = k
                                     /\ p[n].do \in {"check", "write"}
                                     /\ p[n].to = to
                /\ p[1].do = "check"
                /\ p[2].do = "write"
        BY <1>k, <2>t, TransitionProgram
      <3>2. 1 \in 1 .. 2 /\ 2 \in 1 .. 2
        OBVIOUS
      <3> QED
        BY <3>1, <3>2
    <2> HIDE DEF i, a
    <2>4. Linked(a[2], i)
      BY <2>2, <2>3 DEF Linked
    <2>5. LET p == a \o <<i>>
          IN  /\ p \in Seq(Instructions) /\ Len(p) = 3 /\ p # <<>>
              /\ p[1] = a[1] /\ p[2] = a[2] /\ p[3] = i /\ Grammar(p, requests)
      BY <2>2, <2>3, <2>4, AppendClose
    <2> DEFINE p == a \o <<i>>
    <2> HIDE DEF p
    <2>6. Plain(p, k) /\ Free(p[1])
      BY <2>2, <2>3, <2>5, <2>t DEF p, Plain, Free
    <2> QED
      BY <2>5, <2>6 DEF p, i, a
  <1> HIDE DEF Good
  <1>3. CASE response = "reject"
    <2>1. Answer(r, response, m) = Transition(k, "rejected") \o <<Close(r, "rejected")>>
      BY <1>3 DEF Answer
    <2> QED
      BY <1>2, <2>1 DEF Good
  <1>4. CASE response = "defer"
    <2>1. Answer(r, response, m) = Transition(k, "deferred") \o <<Close(r, "deferred")>>
      BY <1>4 DEF Answer
    <2> QED
      BY <1>2, <2>1 DEF Good
  <1> QED
    BY <1>1, <1>3, <1>4 DEF Good

LEMMA ModifyProgram ==
    ASSUME TypeOK, NEW r \in DOMAIN requests, NEW m \in Contents
    PROVE  LET p == Answer(r, "modify", m)
           IN  /\ p \in Seq(Instructions) /\ p # <<>> /\ Len(p) = 3
               /\ Grammar(p, requests)
               /\ Free(p[1])
               /\ \A n \in 1 .. 3 : p[n].content = m /\ p[n].do \notin {"check", "write"}
               /\ \A n \in 1 .. 3 : p[n].do = "fork" => p[n].request = r
  <1> DEFINE k == requests[r].candidate
             weak == cand[k].weak
             i == [Do("anchor", m) EXCEPT !.weak = weak]
             j == Do("evaluate", m)
             f == [Do("fork", m) EXCEPT !.request = r]
             p == Answer(r, "modify", m)
  <1>0. r \in 0 .. MaxRequests /\ k \in Contents /\ r \in DOMAIN requests
    BY CloseFacts, ConstantsAssumption, LenProperties DEF TypeOK, Answers
  <1>1. weak \in BOOLEAN
    BY <1>0 DEF TypeOK, CandidateRow
  <1>2. /\ Do("anchor", m) \in Instructions
        /\ Do("anchor", m).do = "anchor" /\ Do("anchor", m).content = m
    BY DoFacts
  <1>3. j \in Instructions /\ j.do = "evaluate" /\ j.content = m
    BY DoFacts
  <1>4. f \in Instructions /\ f.do = "fork" /\ f.content = m /\ f.request = r
    BY <1>0, DoRequest
  <1>5. p = <<i>> \o <<j, f>>
    BY DEF Answer, Proposal
  <1> HIDE DEF weak, j, f, k, p
  <1>6. i \in Instructions /\ i.do = "anchor" /\ i.content = m
    BY <1>1, <1>2 DEF Instructions
  <1> HIDE DEF i
  <1>7. Fits(i, requests) /\ Fits(j, requests) /\ Fits(f, requests) /\ Linked(i, j) /\ Linked(j, f)
    BY <1>0, <1>3, <1>4, <1>6 DEF Fits, Linked
  <1>9. p \in Seq(Instructions) /\ Len(p) = 3 /\ p # <<>> /\ p[1] = i /\ p[2] = j /\ p[3] = f
    <2> DEFINE b == <<i>>
               c == <<j, f>>
    <2>1. b \in Seq(Instructions) /\ Len(b) = 1 /\ b[1] = i
      BY <1>6
    <2>2. c \in Seq(Instructions) /\ Len(c) = 2 /\ c[1] = j /\ c[2] = f
      BY <1>3, <1>4
    <2>3. p = b \o c
      BY <1>5
    <2> HIDE DEF b, c
    <2>4. /\ p \in Seq(Instructions) /\ Len(p) = Len(b) + Len(c)
          /\ \A n \in 1 .. Len(b) + Len(c) :
                p[n] = IF n <= Len(b) THEN b[n] ELSE c[n - Len(b)]
      BY <2>1, <2>2, <2>3, ConcatProperties
    <2> QED
      BY <2>1, <2>2, <2>4, EmptySeq, SMTT(40)
  <1>10. ASSUME NEW n \in 1 .. 3
         PROVE  /\ Fits(p[n], requests)
                /\ n > 1 => Linked(p[n - 1], p[n])
                /\ p[n].do # "gate"
                /\ p[n].do \in {"candidate", "fork"} => n = 3
                /\ p[n].content = m /\ p[n].do \notin {"check", "write"}
                /\ p[n].do = "fork" => p[n].request = r
    <2>1. CASE n = 1
      BY <1>6, <1>7, <1>9, <2>1
    <2>2. CASE n = 2
      BY <1>3, <1>6, <1>7, <1>9, <2>2
    <2>3. CASE n = 3
      BY <1>3, <1>4, <1>7, <1>9, <2>3
    <2> QED
      BY <2>1, <2>2, <2>3
  <1>11. Grammar(p, requests) /\ Free(p[1])
    BY <1>6, <1>9, <1>10 DEF Grammar, Free
  <1> QED
    BY <1>9, <1>10, <1>11 DEF p

LEMMA PlainSpared ==
    ASSUME NEW p, NEW k, NEW cs, NEW rows, Plain(p, k)
    PROVE  Spared(p, cs, rows)
  BY DEF Plain, Spared

LEMMA ConcatOne ==
    ASSUME NEW a \in Seq(Instructions), NEW i \in Instructions
    PROVE  LET p == a \o <<i>>
           IN  /\ p \in Seq(Instructions) /\ Len(p) = Len(a) + 1 /\ p # <<>>
               /\ \A n \in 1 .. Len(a) : p[n] = a[n]
               /\ p[Len(a) + 1] = i
  <1> DEFINE b == <<i>>
             p == a \o b
  <1>0. b \in Seq(Instructions) /\ Len(b) = 1 /\ b[1] = i /\ Len(a) \in Nat
    BY LenProperties
  <1> HIDE DEF b
  <1>1. /\ p \in Seq(Instructions) /\ Len(p) = Len(a) + Len(b)
        /\ \A n \in 1 .. Len(a) + Len(b) :
              p[n] = IF n <= Len(a) THEN a[n] ELSE b[n - Len(a)]
    BY <1>0, ConcatProperties
  <1> HIDE DEF p
  <1>2. p \in Seq(Instructions) /\ Len(p) = Len(a) + 1 /\ p # <<>>
    BY <1>0, <1>1, EmptySeq
  <1>3. \A n \in 1 .. Len(a) : p[n] = a[n]
    BY <1>0, <1>1
  <1>4. p[Len(a) + 1] = i
    BY <1>0, <1>1
  <1> QED
    BY <1>2, <1>3, <1>4 DEF p, b

\* The end of a modification: its parent is superseded and nothing before that
\* touches it.
LEMMA ForkProgram ==
    ASSUME TypeOK, NEW i \in Instructions, i.do = "fork", NEW v \in Nat, NEW ok \in BOOLEAN,
           Fits(i, requests), NEW cs,
           cs[requests[i.request].candidate].status = "validated"
    PROVE  LET p == IF ok THEN <<[i EXCEPT !.do = "successor", !.version = v]>>
                              \o Transition(requests[i.request].candidate, "superseded")
                              \o <<Close(i.request, "replaced")>>
                          ELSE <<Close(i.request, "superseded")>>
           IN  /\ p \in Seq(Instructions) /\ p # <<>>
               /\ Grammar(p, requests)
               /\ Free(p[1])
               /\ Spared(p, cs, requests)
  <1> DEFINE r == i.request
             k == requests[r].candidate
             j == [i EXCEPT !.do = "successor", !.version = v]
             b == <<j>>
             t == Transition(k, "superseded")
             c == Close(r, "replaced")
             d == Close(r, "superseded")
  <1>1. r \in DOMAIN requests
    BY DEF Fits
  <1>2. /\ c \in Instructions /\ c.do = "close" /\ c.to = "replaced" /\ c.content = k
        /\ k \in Contents /\ Fits(c, requests)
    BY <1>1, CloseFacts DEF Answers
  <1>d. d \in Instructions /\ d.do = "close" /\ d.to = "superseded" /\ Fits(d, requests)
    BY <1>1, CloseFacts DEF Answers
  <1>3. j \in Instructions /\ j.do = "successor" /\ j.request = r
    BY DEF Instructions
  <1>t. "superseded" \in Statuses
    BY DEF Statuses
  <1> HIDE DEF r, k, c, d, j
  <1>4. /\ t \in Seq(Instructions) /\ t # <<>> /\ Len(t) = 2
        /\ Grammar(t, requests)
        /\ Free(t[1])
        /\ \A n \in 1 .. 2 : /\ t[n].content = k
                             /\ t[n].do \in {"check", "write"}
                             /\ t[n].to = "superseded"
        /\ t[1].do = "check" /\ t[2].do = "write"
    BY <1>2, <1>t, TransitionProgram
  <1>5. Fits(j, requests) /\ Free(j) /\ Free(d)
    BY <1>1, <1>d, <1>3 DEF Fits, Free
  <1>6. b \in Seq(Instructions) /\ b # <<>> /\ b[1] = j /\ Len(b) = 1 /\ Grammar(b, requests)
    BY <1>3, <1>5, SingleProgram
  <1>7. /\ <<d>> \in Seq(Instructions) /\ <<d>> # <<>> /\ <<d>>[1] = d /\ Len(<<d>>) = 1
        /\ Grammar(<<d>>, requests)
    BY <1>d, SingleProgram
  <1> HIDE DEF b, t
  <1> DEFINE a == t \o <<c>>
  <1>l. Linked(t[2], c)
    <2>1. t[2].content = k /\ t[2].to = "superseded"
      BY <1>4
    <2> QED
      BY <1>2, <1>4, <2>1 DEF Linked
  <1>8. /\ a \in Seq(Instructions) /\ Grammar(a, requests) /\ a # <<>>
        /\ Len(a) = 3 /\ a[1] = t[1] /\ a[2] = t[2] /\ a[3] = c
    BY <1>2, <1>4, <1>l, AppendClose
  <1> HIDE DEF a
  <1> DEFINE q == b \o a
  <1>9. /\ q \in Seq(Instructions) /\ Grammar(q, requests) /\ q # <<>>
        /\ Len(q) = 4 /\ q[1] = j /\ q[2] = t[1] /\ q[3] = t[2] /\ q[4] = c
    <2>1. \A n \in 1 .. Len(b) : b[n].do \notin {"candidate", "fork"}
      BY <1>3, <1>6
    <2>2. q \in Seq(Instructions) /\ Grammar(q, requests)
      BY <1>4, <1>6, <1>8, <2>1, JoinGrammar
    <2>3. /\ Len(q) = Len(b) + Len(a)
          /\ \A n \in 1 .. Len(b) + Len(a) : q[n] = IF n <= Len(b) THEN b[n] ELSE a[n - Len(b)]
      <3>1. b \in Seq(Instructions) /\ a \in Seq(Instructions)
        BY <1>6, <1>8
      <3> QED
        BY <3>1, ConcatProperties
    <2>4. Len(q) = 4
      BY <1>6, <1>8, <2>3
    <2>5. q[1] = b[1] /\ q[2] = a[2 - 1] /\ q[3] = a[3 - 1] /\ q[4] = a[4 - 1]
      BY <1>6, <1>8, <2>3
    <2>6. q # <<>>
      BY <2>2, <2>4, EmptySeq
    <2> QED
      BY <1>6, <1>8, <2>2, <2>4, <2>5, <2>6
  <1>o. q = b \o t \o <<c>>
    <2>1. <<c>> \in Seq(Instructions)
      BY <1>2
    <2> QED
      BY <1>4, <1>6, <2>1, ConcatAssociative DEF a
  <1> HIDE DEF q
  <1>10. Spared(q, cs, requests)
    <2> SUFFICES ASSUME NEW n \in 1 .. 4
                 PROVE  /\ q[n].do # "fork"
                        /\ q[n].do \in {"check", "write"} =>
                              /\ cs[q[n].content].status = "validated"
                              /\ \A m \in 1 .. (n - 1) : q[m].do \in {"successor", "check"}
      BY <1>9 DEF Spared
    <2>k. cs[k].status = "validated"
      BY DEF k, r
    <2>1. CASE n = 1
      BY <1>3, <1>9, <2>1
    <2>2. CASE n = 2
      <3>1. \A m \in 1 .. (n - 1) : m = 1
        BY <2>2
      <3> QED
        BY <1>3, <1>4, <1>9, <2>2, <2>k, <3>1
    <2>3. CASE n = 3
      <3>1. \A m \in 1 .. (n - 1) : m = 1 \/ m = 2
        BY <2>3
      <3>2. 2 \in 1 .. 2 /\ 1 \in 1 .. 2
        OBVIOUS
      <3>3. q[3].content = k /\ q[3].do = "write"
        BY <1>4, <1>9, <3>2
      <3> QED
        BY <1>3, <1>4, <1>9, <2>3, <2>k, <3>1, <3>3
    <2>4. CASE n = 4
      BY <1>2, <1>9, <2>4, SMTT(40)
    <2> QED
      BY <2>1, <2>2, <2>3, <2>4
  <1>11. CASE ok
    <2>1. Free(q[1])
      BY <1>5, <1>9
    <2> QED
      BY <1>9, <1>10, <1>11, <1>o, <2>1 DEF b, t, c, j, k, r
  <1>12. CASE ~ok
    <2>1. Spared(<<d>>, cs, requests)
      BY <1>d, <1>7 DEF Spared
    <2> QED
      BY <1>5, <1>7, <1>12, <2>1 DEF d, r
  <1> QED
    BY <1>11, <1>12

\* The program goes on; the closure at hand may have written its candidate.
LEMMA SparedNext ==
    ASSUME NEW p \in Seq(Instructions), p # <<>>, NEW rows \in Seq(RequestRow),
           NEW new \in Seq(RequestRow), Grows(rows, new), NEW cs, NEW ds,
           Grammar(p, rows), Spared(p, cs, rows),
           NEW a \in Seq(Instructions), Plain(a, p[1].content),
           \A k \in Contents \ {p[1].content} : ds[k].status = cs[k].status,
           p[1].do \in {"successor", "check"} => a = <<>> /\ ds = cs
    PROVE  Spared(a \o Tail(p), ds, new)
  <1> DEFINE b == Tail(p)
             q == a \o b
  <1>1. /\ b \in Seq(Instructions) /\ Len(b) = Len(p) - 1
        /\ \A i \in 1 .. Len(b) : b[i] = p[i + 1]
        /\ Len(p) \in Nat \ {0} /\ Len(b) \in Nat
    BY HeadTailProperties, LenProperties, EmptySeq
  <1> HIDE DEF b
  <1>2. /\ q \in Seq(Instructions) /\ Len(q) = Len(a) + Len(b)
        /\ \A i \in 1 .. Len(a) + Len(b) : q[i] = IF i <= Len(a) THEN a[i] ELSE b[i - Len(a)]
        /\ Len(a) \in Nat
    <2>1. b \in Seq(Instructions)
      BY <1>1
    <2>2. Len(a) \in Nat
      BY LenProperties
    <2> QED
      BY <2>1, <2>2, ConcatProperties
  <1> HIDE DEF q
  <1>3. 1 \in 1 .. Len(p) /\ DOMAIN rows = 1 .. Len(rows)
    BY <1>1, LenProperties
  <1>4. ASSUME NEW n \in 1 .. Len(q)
        PROVE  \/ n \in 1 .. Len(a) /\ q[n] = a[n]
               \/ /\ n - Len(a) + 1 \in 1 .. Len(p) /\ n > Len(a)
                  /\ q[n] = p[n - Len(a) + 1]
    <2>0. /\ Len(a) \in Nat /\ Len(b) \in Nat /\ Len(p) = Len(b) + 1
          /\ n \in 1 .. Len(a) + Len(b)
      BY <1>1, <1>2
    <2>1. q[n] = IF n <= Len(a) THEN a[n] ELSE b[n - Len(a)]
      BY <1>2, <2>0
    <2>2. CASE n <= Len(a)
      BY <2>0, <2>1, <2>2
    <2>3. CASE n > Len(a)
      <3>1. /\ n - Len(a) \in 1 .. Len(b) /\ ~(n <= Len(a))
            /\ n - Len(a) + 1 \in 1 .. Len(p)
        BY <2>0, <2>3
      <3>2. q[n] = b[n - Len(a)]
        BY <2>1, <3>1
      <3>3. b[n - Len(a)] = p[n - Len(a) + 1]
        BY <1>1, <3>1
      <3> QED
        BY <2>3, <3>1, <3>2, <3>3
    <2> QED
      BY <2>0, <2>2, <2>3
  <1>5. ASSUME NEW n \in 1 .. Len(q), q[n].do = "fork"
        PROVE  LET parent == new[q[n].request].candidate
               IN  /\ ds[parent].status = "validated"
                   /\ \A m \in 1 .. Len(q) : q[m].content # parent
    <2> DEFINE j == n - Len(a) + 1
               parent == rows[p[j].request].candidate
    <2>1. j \in 1 .. Len(p) /\ q[n] = p[j]
      BY <1>4, <1>5 DEF Plain
    <2> HIDE DEF j
    <2>2. /\ cs[parent].status = "validated"
          /\ \A m \in 1 .. Len(p) : p[m].content # parent
      BY <1>5, <2>1 DEF Spared
    <2>3. p[j].request \in 1 .. Len(rows)
      BY <1>3, <1>5, <2>1 DEF Grammar, Fits
    <2>4. new[q[n].request].candidate = parent /\ parent \in Contents
      <3>1. rows[p[j].request] \in RequestRow
        BY <2>3, ElementOfSeq
      <3> QED
        BY <2>1, <2>3, <3>1 DEF Grows, RequestRow
    <2> HIDE DEF parent
    <2>5. parent # p[1].content
      BY <1>3, <2>2
    <2>6. ds[parent].status = "validated"
      BY <2>2, <2>4, <2>5
    <2>7. \A m \in 1 .. Len(q) : q[m].content # parent
      BY <1>4, <2>2, <2>5 DEF Plain
    <2> QED
      BY <2>4, <2>6, <2>7
  <1>6. ASSUME NEW n \in 1 .. Len(q), q[n].do \in {"check", "write"}, q[n].to = "superseded"
        PROVE  /\ ds[q[n].content].status = "validated"
               /\ \A m \in 1 .. (n - 1) : q[m].do \in {"successor", "check"}
    <2> DEFINE j == n - Len(a) + 1
    <2>1. j \in 1 .. Len(p) /\ n > Len(a) /\ q[n] = p[j]
      BY <1>4, <1>6 DEF Plain
    <2>2. j > 1 /\ 1 \in 1 .. (j - 1)
      <3>1. Len(a) \in Nat /\ n \in Int
        BY <1>2
      <3> QED
        BY <2>1, <3>1
    <2>3. /\ cs[p[j].content].status = "validated"
          /\ \A m \in 1 .. (j - 1) : p[m].do \in {"successor", "check"}
      BY <1>6, <2>1 DEF Spared
    <2>4. a = <<>> /\ ds = cs /\ Len(a) = 0
      BY <2>2, <2>3, EmptySeq
    <2>5. ASSUME NEW m \in 1 .. (n - 1) PROVE q[m].do \in {"successor", "check"}
      <3>1. m \in 1 .. Len(q) /\ m + 1 \in 1 .. (j - 1) /\ m - Len(a) + 1 = m + 1
        BY <1>1, <1>2, <2>1, <2>4
      <3>2. q[m] = p[m + 1]
        BY <1>4, <2>4, <3>1
      <3> QED
        BY <2>3, <3>1, <3>2
    <2> QED
      BY <2>1, <2>3, <2>4, <2>5
  <1>7. Spared(q, ds, new)
    BY <1>5, <1>6 DEF Spared
  <1> QED
    BY <1>7 DEF q, b

----------------------------------------------------------------------------
(* Steps *)

LEMMA GrowsSame ==
    ASSUME NEW rows \in Seq(RequestRow)
    PROVE  Grows(rows, rows)
  <1>1. Len(rows) \in Nat
    BY LenProperties
  <1> QED
    BY <1>1 DEF Grows

\* What a handler leaves behind: q is what is left of its program.
LEMMA ProgramStep ==
    ASSUME IInv, NEW w \in Workers, NEW q \in Seq(Instructions),
           worker' = [worker EXCEPT ![w] = q], home' = home,
           worker[w] # <<>> \/ LockFree(w),
           cand' \in [Contents -> CandidateRow],
           requests' \in Seq(RequestRow), Len(requests') <= MaxRequests,
           current' \in 0 .. MaxPublished,
           ValidOnly', Grows(requests, requests'), Grammar(q, requests'),
           OneLock /\ q # <<>> => Ready(q[1], cand') /\ Spared(q, cand', requests'),
           OneLock => Truthful(cand', requests')
    PROVE  IInv'
  <1>1. TypeOK'
    BY DEF IInv, TypeOK
  <1>2. worker \in [Workers -> Seq(Instructions)] /\ requests \in Seq(RequestRow)
    BY DEF IInv, TypeOK
  <1>3. /\ worker'[w] = q
        /\ \A v \in Workers \ {w} : worker'[v] = worker[v]
    BY <1>2
  <1>4. GrammarInv'
    <2> SUFFICES ASSUME NEW v \in Workers PROVE Grammar(worker'[v], requests')
      BY DEF GrammarInv
    <2>1. CASE v = w
      BY <1>3, <2>1
    <2>2. CASE v # w
      <3>1. worker'[v] = worker[v] /\ worker[v] \in Seq(Instructions)
        BY <1>2, <1>3, <2>2
      <3>2. Grammar(worker[v], requests)
        BY DEF IInv, GrammarInv
      <3> QED
        BY <1>2, <3>1, <3>2, GrammarGrows
    <2> QED
      BY <2>1, <2>2
  <1>5. TurnsInv'
    <2>1. OneLock' => OneLock
      BY DEF OneLock
    <2> SUFFICES ASSUME OneLock
                 PROVE  /\ \A v, u \in Workers : worker'[v] # <<>> /\ worker'[u] # <<>> => v = u
                        /\ \A v \in Workers : worker'[v] # <<>> =>
                              /\ Ready(worker'[v][1], cand')
                              /\ Spared(worker'[v], cand', requests')
                        /\ Truthful(cand', requests')
      BY <2>1 DEF TurnsInv
    <2>2. \A v \in Workers \ {w} : worker[v] = <<>>
      <3>1. CASE worker[w] # <<>>
        BY <3>1 DEF IInv, TurnsInv
      <3>2. CASE LockFree(w)
        BY <3>2 DEF LockFree, Running, OneLock
      <3> QED
        BY <3>1, <3>2
    <2>3. \A v \in Workers : worker'[v] # <<>> => v = w
      BY <1>3, <2>2
    <2> QED
      BY <1>3, <2>3
  <1> QED
    BY <1>1, <1>4, <1>5 DEF IInv

LEMMA Unchanged ==
    ASSUME IInv, UNCHANGED <<cand, requests, current>>
    PROVE  /\ cand' \in [Contents -> CandidateRow]
           /\ requests' \in Seq(RequestRow) /\ Len(requests') <= MaxRequests
           /\ current' \in 0 .. MaxPublished
           /\ ValidOnly' /\ Grows(requests, requests')
           /\ OneLock => Truthful(cand', requests')
  <1>1. requests \in Seq(RequestRow)
    BY DEF IInv, TypeOK
  <1>2. Grows(requests, requests')
    BY <1>1, GrowsSame
  <1> QED
    BY <1>2 DEF IInv, TypeOK, ValidOnly, TurnsInv

LEMMA FreeReady ==
    ASSUME NEW i, NEW cs, Free(i)
    PROVE  Ready(i, cs)
  BY DEF Free, Ready, Told

\* A handler begins.
LEMMA StartStep ==
    ASSUME IInv, NEW w \in Workers, NEW q \in Seq(Instructions), Start(w, q),
           Grammar(q, requests), Free(q[1]), Spared(q, cand, requests)
    PROVE  IInv'
  <1>1. UNCHANGED <<cand, requests, current, home>> /\ LockFree(w)
        /\ worker' = [worker EXCEPT ![w] = q]
    BY DEF Start
  <1>2. Ready(q[1], cand)
    BY FreeReady
  <1> QED
    BY <1>1, <1>2, Unchanged, ProgramStep

\* A handler ends, or is cut off.
LEMMA ReturnStep ==
    ASSUME IInv, NEW w \in Workers, worker[w] # <<>>, Return(w),
           UNCHANGED <<cand, requests, current, home>>
    PROVE  IInv'
  <1>1. <<>> \in Seq(Instructions) /\ Grammar(<<>>, requests')
    BY EmptyProgram
  <1> QED
    BY <1>1, Unchanged, ProgramStep DEF Return

\* The closure at hand.
LEMMA AtHand ==
    ASSUME IInv, NEW w \in Workers, worker[w] # <<>>
    PROVE  /\ worker[w] \in Seq(Instructions)
           /\ This(w) = worker[w][1]
           /\ worker[w][1] \in Instructions
           /\ Fits(worker[w][1], requests)
           /\ Grammar(worker[w], requests)
           /\ Row(w) = cand[worker[w][1].content]
           /\ Row(w) \in CandidateRow
           /\ worker[w][1].content \in Contents
           /\ OneLock => Ready(worker[w][1], cand) /\ Spared(worker[w], cand, requests)
           /\ worker[w][1].do \in {"candidate", "fork"} => Tail(worker[w]) = <<>>
  <1> DEFINE p == worker[w]
  <1>1. p \in Seq(Instructions) /\ cand \in [Contents -> CandidateRow]
    BY DEF IInv, TypeOK
  <1>2. Len(p) \in Nat \ {0}
    BY <1>1, EmptySeq
  <1>3. Head(p) = p[1] /\ p[1] \in Instructions
    <2>1. Head(p) = p[1]
      OBVIOUS
    <2>2. 1 \in 1 .. Len(p)
      BY <1>2
    <2> QED
      BY <1>1, <2>1, <2>2, ElementOfSeq
  <1>4. Grammar(p, requests)
    BY DEF IInv, GrammarInv
  <1>5. Fits(p[1], requests) /\ (p[1].do \in {"candidate", "fork"} => Len(p) = 1)
    <2>1. 1 \in 1 .. Len(p)
      BY <1>2
    <2> QED
      BY <1>4, <2>1 DEF Grammar
  <1>6. p[1].content \in Contents
    BY <1>3 DEF Instructions
  <1>7. Len(p) = 1 => Tail(p) = <<>>
    <2> DEFINE t == Tail(p)
    <2>1. t \in Seq(Instructions) /\ Len(t) = Len(p) - 1
      BY <1>1, HeadTailProperties
    <2>2. t # <<>> => Len(t) \in Nat \ {0}
      <3> HIDE DEF t
      <3> QED
        BY <2>1, EmptySeq
    <2>3. Len(p) = 1 => Len(t) \notin Nat \ {0}
      BY <2>1
    <2> QED
      BY <2>2, <2>3
  <1> QED
    BY <1>1, <1>3, <1>4, <1>5, <1>6, <1>7 DEF This, Row, IInv, TurnsInv

\* A handler goes on: with the closures a, then with those left.
LEMMA ContinueStep ==
    ASSUME IInv, NEW w \in Workers, worker[w] # <<>>, NEW a \in Seq(Instructions),
           Continue(w, a), home' = home,
           cand' \in [Contents -> CandidateRow],
           requests' \in Seq(RequestRow), Len(requests') <= MaxRequests,
           current' \in 0 .. MaxPublished,
           ValidOnly', Grows(requests, requests'),
           OneLock => Truthful(cand', requests'),
           Grammar(a, requests), Plain(a, worker[w][1].content), a # <<>> => Free(a[1]),
           \A k \in Contents \ {worker[w][1].content} : cand'[k].status = cand[k].status,
           worker[w][1].do \in {"successor", "check"} => a = <<>> /\ cand' = cand,
           worker[w][1].do \in {"check", "write", "gate", "publish"} => a = <<>>,
           OneLock /\ worker[w][1].do \in {"check", "write", "gate", "publish"}
                   /\ Tail(worker[w]) # <<>>
             => Ready(worker[w][2], cand')
    PROVE  IInv'
  <1> DEFINE p == worker[w]
             q == a \o Tail(p)
  <1>1. /\ p \in Seq(Instructions) /\ Grammar(p, requests)
        /\ OneLock => Spared(p, cand, requests)
    BY AtHand
  <1>2. worker' = [worker EXCEPT ![w] = q] /\ requests \in Seq(RequestRow)
    BY DEF Continue, IInv, TypeOK
  <1>3. /\ Tail(p) \in Seq(Instructions) /\ Grammar(Tail(p), requests)
        /\ Tail(p) # <<>> =>
              /\ Tail(p)[1] = p[2]
              /\ p[1].do \notin {"check", "write", "gate", "publish"} => Free(p[2])
    BY <1>1, TailGrammar
  <1> HIDE DEF p
  <1>4. OneLock => Spared(q, cand', requests')
    BY <1>1, <1>2, SparedNext DEF p
  <1>5. q \in Seq(Instructions) /\ Grammar(q, requests)
    <2>1. CASE a = <<>>
      BY <1>3, <2>1, ConcatEmptySeq
    <2>2. CASE a # <<>>
      <3>1. Tail(p) # <<>> => Free(Tail(p)[1])
        BY <1>3, <2>2 DEF p
      <3>2. \A n \in 1 .. Len(a) : a[n].do \notin {"candidate", "fork"}
        BY DEF Plain
      <3> QED
        BY <1>3, <3>1, <3>2, JoinGrammar
    <2> QED
      BY <2>1, <2>2
  <1>6. Grammar(q, requests')
    BY <1>2, <1>5, GrammarGrows
  <1>7. OneLock /\ q # <<>> => Ready(q[1], cand')
    <2> SUFFICES ASSUME OneLock, q # <<>> PROVE Ready(q[1], cand')
      OBVIOUS
    <2>1. CASE a = <<>>
      <3>1. q = Tail(p)
        BY <1>3, <2>1, ConcatEmptySeq
      <3>2. CASE p[1].do \in {"check", "write", "gate", "publish"}
        BY <1>3, <3>1, <3>2 DEF p
      <3>3. CASE p[1].do \notin {"check", "write", "gate", "publish"}
        BY <1>3, <3>1, <3>3, FreeReady
      <3> QED
        BY <3>2, <3>3
    <2>2. CASE a # <<>>
      <3>1. Tail(p) # <<>> => Free(Tail(p)[1])
        BY <1>3, <2>2 DEF p
      <3>2. \A n \in 1 .. Len(a) : a[n].do \notin {"candidate", "fork"}
        BY DEF Plain
      <3>3. Free(q[1])
        BY <1>3, <3>1, <3>2, <2>2, JoinGrammar
      <3> QED
        BY <3>3, FreeReady
    <2> QED
      BY <2>1, <2>2
  <1> HIDE DEF q
  <1> QED
    BY <1>2, <1>4, <1>5, <1>6, <1>7, ProgramStep

LEMMA StatusEdited ==
    ASSUME NEW row \in CandidateRow, NEW s \in Statuses
    PROVE  [row EXCEPT !.status = s] \in CandidateRow /\ [row EXCEPT !.status = s].status = s
  BY DEF CandidateRow

LEMMA StatusSet ==
    ASSUME IInv, NEW k \in Contents, NEW s \in Statuses, SetStatus(k, s)
    PROVE  /\ cand' \in [Contents -> CandidateRow]
           /\ cand'[k].status = s
           /\ \A j \in Contents \ {k} : cand'[j].status = cand[j].status
  <1>1. cand \in [Contents -> CandidateRow] /\ cand[k] \in CandidateRow
    BY DEF IInv, TypeOK
  <1> DEFINE row == [cand[k] EXCEPT !.status = s]
  <1>2. row \in CandidateRow /\ row.status = s
    BY <1>1, StatusEdited
  <1>3. cand' = [cand EXCEPT ![k] = row]
    BY DEF SetStatus
  <1> HIDE DEF row
  <1> QED
    BY <1>1, <1>2, <1>3

\* A step that leaves the candidates that are over alone keeps the truth of
\* the requests it does not touch.
LEMMA TruthKept ==
    ASSUME IInv, OneLock, NEW cs, requests' = requests,
           \A k \in Contents : cand[k].status \in {"active", "rejected", "superseded"} =>
                                  cs[k].status = cand[k].status
    PROVE  Truthful(cs, requests')
  <1>1. \A r \in DOMAIN requests : requests[r].candidate \in Contents
    <2>1. requests \in Seq(RequestRow)
      BY DEF IInv, TypeOK
    <2>2. DOMAIN requests = 1 .. Len(requests)
      BY <2>1, LenProperties
    <2>3. \A r \in DOMAIN requests : requests[r] \in RequestRow
      BY <2>1, <2>2, ElementOfSeq
    <2> QED
      BY <2>3 DEF RequestRow
  <1> QED
    BY <1>1 DEF Truthful, IInv, TurnsInv, Told

LEMMA ReadAnchorStep ==
    ASSUME IInv, NEW w \in Workers, ReadAnchor(w) PROVE IInv'
  <1> DEFINE i == worker[w][1]
             j == [i EXCEPT !.do = "insert", !.version = current]
  <1>1. /\ worker[w] # <<>> /\ This(w) = i /\ i.do = "anchor" /\ i \in Instructions
        /\ UNCHANGED <<cand, requests, current, home>>
    BY AtHand DEF ReadAnchor, At, This
  <1>2. Continue(w, <<j>>)
    BY <1>1 DEF ReadAnchor
  <1>3. current \in Nat
    BY ConstantsAssumption DEF IInv, TypeOK
  <1> HIDE DEF i
  <1>4. j \in Instructions /\ j.do = "insert" /\ j.content = i.content
    BY <1>1, <1>3 DEF Instructions
  <1> HIDE DEF j
  <1>5. Fits(j, requests) /\ Free(j)
    BY <1>4 DEF Fits, Free
  <1> DEFINE a == <<j>>
  <1>6. a \in Seq(Instructions) /\ a[1] = j /\ Len(a) = 1 /\ Grammar(a, requests)
    BY <1>4, <1>5, SingleProgram
  <1>7. Plain(a, i.content)
    BY <1>4, <1>6 DEF Plain
  <1>8. Continue(w, a)
    BY <1>2
  <1> HIDE DEF a
  <1> QED
    BY <1>1, <1>5, <1>6, <1>7, <1>8, Unchanged, ContinueStep DEF i

LEMMA InsertCandidateStep ==
    ASSUME IInv, NEW w \in Workers, InsertCandidate(w) PROVE IInv'
  <1> DEFINE i == worker[w][1]
             k == i.content
             new == [status |-> IF Row(w).status = "none" THEN "candidate" ELSE Row(w).status,
                     old |-> FALSE,
                     anchor |-> IF i.version # 0 THEN i.version ELSE Row(w).anchor,
                     weak |-> i.weak]
             ok == Row(w).status \in PreDraft \cup {"none"}
  <1>1. /\ worker[w] # <<>> /\ This(w) = i /\ i.do = "insert" /\ i \in Instructions
        /\ UNCHANGED <<requests, current, home>>
        /\ k \in Contents /\ Row(w) = cand[k] /\ Row(w) \in CandidateRow
    BY AtHand DEF InsertCandidate, At, This
  <1>2. /\ cand' = IF ok THEN [cand EXCEPT ![k] = new] ELSE cand
        /\ Guarded(w, ok, <<>>)
    BY <1>1 DEF InsertCandidate
  <1>3. new \in CandidateRow
    <2>1. /\ i.version \in Nat /\ i.weak \in BOOLEAN
          /\ Row(w).anchor \in Nat /\ Row(w).status \in Statuses
      BY <1>1 DEF Instructions, CandidateRow
    <2> QED
      BY <2>1 DEF CandidateRow, Statuses
  <1>4. ok => new.status \in PreDraft
    BY DEF PreDraft
  <1> HIDE DEF new, i
  <1>5. CASE ~ok
    <2>1. Return(w) /\ cand' = cand
      BY <1>2, <1>5 DEF Guarded
    <2> QED
      BY <1>1, <2>1, ReturnStep
  <1>6. CASE ok
    <2>0. cand \in [Contents -> CandidateRow]
      BY DEF IInv, TypeOK
    <2>1. Continue(w, <<>>) /\ cand' = [cand EXCEPT ![k] = new]
      BY <1>2, <1>6 DEF Guarded
    <2>2. /\ cand' \in [Contents -> CandidateRow] /\ cand'[k] = new
          /\ \A j \in Contents \ {k} : cand'[j] = cand[j]
      BY <1>1, <1>3, <2>0, <2>1
    <2>3. ValidOnly'
      BY <1>4, <1>6, <2>2 DEF ValidOnly, PreDraft, IInv
    <2>4. cand[k].status \notin {"active", "rejected", "superseded"}
      BY <1>1, <1>6 DEF PreDraft
    <2>5. OneLock => Truthful(cand', requests')
      BY <1>1, <2>2, <2>4, TruthKept
    <2>6. /\ requests' \in Seq(RequestRow) /\ Len(requests') <= MaxRequests
          /\ current' \in 0 .. MaxPublished /\ Grows(requests, requests')
      BY <1>1, GrowsSame DEF IInv, TypeOK
    <2>7. <<>> \in Seq(Instructions) /\ Grammar(<<>>, requests) /\ Plain(<<>>, k)
      BY EmptyProgram
    <2> QED
      BY <1>1, <2>1, <2>2, <2>3, <2>5, <2>6, <2>7, ContinueStep DEF i
  <1> QED
    BY <1>5, <1>6

LEMMA EvaluateContentStep ==
    ASSUME IInv, NEW w \in Workers, EvaluateContent(w) PROVE IInv'
  <1> DEFINE i == worker[w][1]
             k == i.content
             ok == Row(w).status \in PreDraft \cup {"draft"}
             a == IF k \in Valid THEN Evaluation(k, Row(w).status) ELSE <<>>
  <1>1. /\ worker[w] # <<>> /\ This(w) = i /\ i.do = "evaluate"
        /\ UNCHANGED <<cand, requests, current, home>>
    BY AtHand DEF EvaluateContent, At, This
  <1>2. Guarded(w, ok, a)
    BY <1>1 DEF EvaluateContent
  <1>3. /\ a \in Seq(Instructions) /\ Grammar(a, requests) /\ Plain(a, k)
        /\ a # <<>> => Free(a[1])
    BY EvaluationProgram, EmptyProgram
  <1> HIDE DEF a
  <1>4. CASE ok
    <2>1. Continue(w, a)
      BY <1>2, <1>4 DEF Guarded
    <2> QED
      BY <1>1, <1>3, <2>1, Unchanged, ContinueStep
  <1>5. CASE ~ok
    <2>1. Return(w)
      BY <1>2, <1>5 DEF Guarded
    <2> QED
      BY <1>1, <2>1, ReturnStep
  <1> QED
    BY <1>4, <1>5

LEMMA CheckStep ==
    ASSUME IInv, NEW w \in Workers, CheckTransition(w) \/ CheckPromotion(w) PROVE IInv'
  <1> DEFINE i == worker[w][1]
             ok == IF i.do = "check" THEN CanTransition(Row(w).status, i.to)
                   ELSE CanTransition(Row(w).status, "draft") /\ i.content \in Valid
  <1>1. /\ worker[w] # <<>> /\ This(w) = i /\ i.do \in {"check", "promote"}
        /\ Row(w) = cand[i.content]
        /\ UNCHANGED <<cand, requests, current, home>>
    BY AtHand DEF CheckTransition, CheckPromotion, At, This
  <1>2. Guarded(w, ok, <<>>)
    BY <1>1 DEF CheckTransition, CheckPromotion, At, This
  <1>3. <<>> \in Seq(Instructions) /\ Grammar(<<>>, requests) /\ Plain(<<>>, i.content)
    BY EmptyProgram
  <1>4. CASE ok
    <2>1. Continue(w, <<>>)
      BY <1>2, <1>4 DEF Guarded
    <2>2. ASSUME Tail(worker[w]) # <<>>, i.do = "check" PROVE Ready(worker[w][2], cand')
      <3>1. Linked(i, worker[w][2])
        BY <1>1, <2>2, AtHand, TailGrammar
      <3>2. CanTransition(cand[i.content].status, i.to)
        BY <1>1, <1>4, <2>2
      <3> QED
        BY <1>1, <2>2, <3>1, <3>2 DEF Ready, Linked, Told
    <2> QED
      BY <1>1, <1>3, <2>1, <2>2, Unchanged, ContinueStep
  <1>5. CASE ~ok
    <2>1. Return(w)
      BY <1>2, <1>5 DEF Guarded
    <2> QED
      BY <1>1, <2>1, ReturnStep
  <1> QED
    BY <1>4, <1>5

\* UPDATE candidate: from where the check found the row, with one lock, and
\* never from a state a consumed request tells of.
LEMMA WriteTransitionStep ==
    ASSUME IInv, NEW w \in Workers, WriteTransition(w) PROVE IInv'
  <1> DEFINE i == worker[w][1]
             k == i.content
             to == i.to
  <1>1. /\ worker[w] # <<>> /\ This(w) = i /\ i.do = "write"
        /\ UNCHANGED <<requests, current, home>> /\ Continue(w, <<>>)
        /\ k \in Contents /\ Fits(i, requests)
        /\ OneLock => Ready(i, cand) /\ Spared(worker[w], cand, requests)
        /\ worker[w] \in Seq(Instructions) /\ Grammar(worker[w], requests)
    BY AtHand DEF WriteTransition, At, This
  <1>2. SetStatus(k, to)
    BY <1>1 DEF WriteTransition
  <1>3. to \in Statuses /\ (to \in {"draft", "validated", "active"} => k \in Valid)
    BY <1>1 DEF Fits
  <1>4. /\ cand' \in [Contents -> CandidateRow] /\ cand'[k].status = to
        /\ \A j \in Contents \ {k} : cand'[j].status = cand[j].status
    BY <1>1, <1>2, <1>3, StatusSet
  <1>5. ValidOnly'
    BY <1>3, <1>4 DEF ValidOnly, IInv
  <1>6. OneLock => cand[k].status \notin {"active", "rejected", "superseded"}
    <2> SUFFICES ASSUME OneLock PROVE cand[k].status \notin {"active", "rejected", "superseded"}
      OBVIOUS
    <2>1. CanTransition(cand[k].status, to)
      BY <1>1 DEF Ready
    <2>2. to = "superseded" => cand[k].status = "validated"
      <3>1. 1 \in 1 .. Len(worker[w])
        BY <1>1, EmptySeq
      <3> QED
        BY <1>1, <3>1 DEF Spared
    <2> QED
      BY <2>1, <2>2 DEF CanTransition
  <1>7. OneLock => Truthful(cand', requests')
    BY <1>1, <1>4, <1>6, TruthKept
  <1>8. /\ requests' \in Seq(RequestRow) /\ Len(requests') <= MaxRequests
        /\ current' \in 0 .. MaxPublished /\ Grows(requests, requests')
    BY <1>1, GrowsSame DEF IInv, TypeOK
  <1>9. Tail(worker[w]) # <<>> => Ready(worker[w][2], cand')
    <2> SUFFICES ASSUME Tail(worker[w]) # <<>> PROVE Ready(worker[w][2], cand')
      OBVIOUS
    <2>1. Linked(i, worker[w][2])
      BY <1>1, TailGrammar
    <2> QED
      BY <1>1, <1>4, <2>1 DEF Ready, Linked, Told
  <1>10. <<>> \in Seq(Instructions) /\ Grammar(<<>>, requests) /\ Plain(<<>>, k)
    BY EmptyProgram
  <1> QED
    BY <1>1, <1>4, <1>5, <1>7, <1>8, <1>9, <1>10, ContinueStep

LEMMA WritePromotionStep ==
    ASSUME IInv, NEW w \in Workers, WritePromotion(w) PROVE IInv'
  <1> DEFINE i == worker[w][1]
             k == i.content
  <1>1. /\ worker[w] # <<>> /\ This(w) = i /\ i.do = "draft"
        /\ UNCHANGED <<requests, current, home>> /\ Continue(w, <<>>)
        /\ k \in Contents /\ Fits(i, requests) /\ Row(w) = cand[k]
    BY AtHand DEF WritePromotion, At, This
  <1>2. IF cand[k].status = "evaluating" THEN SetStatus(k, "draft") ELSE cand' = cand
    BY <1>1 DEF WritePromotion
  <1>3. <<>> \in Seq(Instructions) /\ Grammar(<<>>, requests) /\ Plain(<<>>, k)
    BY EmptyProgram
  <1>4. CASE cand[k].status # "evaluating"
    <2>1. cand' = cand
      BY <1>2, <1>4
    <2> QED
      BY <1>1, <1>3, <2>1, Unchanged, ContinueStep
  <1>5. CASE cand[k].status = "evaluating"
    <2>1. SetStatus(k, "draft") /\ "draft" \in Statuses
      BY <1>2, <1>5 DEF Statuses
    <2>2. /\ cand' \in [Contents -> CandidateRow] /\ cand'[k].status = "draft"
          /\ \A j \in Contents \ {k} : cand'[j].status = cand[j].status
      BY <1>1, <2>1, StatusSet
    <2>3. ValidOnly'
      BY <1>1, <2>2 DEF ValidOnly, IInv, Fits
    <2>4. OneLock => Truthful(cand', requests')
      BY <1>1, <1>5, <2>2, TruthKept
    <2>5. /\ requests' \in Seq(RequestRow) /\ Len(requests') <= MaxRequests
          /\ current' \in 0 .. MaxPublished /\ Grows(requests, requests')
      BY <1>1, GrowsSame DEF IInv, TypeOK
    <2> QED
      BY <1>1, <1>3, <2>2, <2>3, <2>4, <2>5, ContinueStep
  <1> QED
    BY <1>4, <1>5

LEMMA RequestRows ==
    ASSUME IInv
    PROVE  /\ \A r \in DOMAIN requests : requests[r] \in RequestRow
           /\ requests = [r \in DOMAIN requests |-> requests[r]]
  <1>1. requests \in Seq(RequestRow)
    BY DEF IInv, TypeOK
  <1>2. DOMAIN requests = 1 .. Len(requests) /\ requests \in [1 .. Len(requests) -> RequestRow]
    BY <1>1, LenProperties
  <1> QED
    BY <1>2

LEMMA NewRequestRow ==
    ASSUME NEW i, i.content \in Contents, i.version \in Nat, NEW parent \in Nat,
           NEW action \in Actions, NEW root \in Workspaces
    PROVE  /\ NewRequest(i, action, root, parent) \in RequestRow
           /\ NewRequest(i, action, root, parent).status = "pending"
  BY DEF NewRequest, RequestRow

LEMMA RootType ==
    ASSUME IInv, NEW w \in Workers PROVE Root(w) \in Workspaces
  <1>1. home[w] \in Workspaces \X Processes
    BY DEF IInv, TypeOK
  <1> QED
    BY <1>1 DEF Root

LEMMA RequestAdded ==
    ASSUME IInv, NEW row \in RequestRow, row.status = "pending",
           requests' = Append(requests, row), cand' = cand
    PROVE  /\ requests' \in Seq(RequestRow) /\ Grows(requests, requests')
           /\ Len(requests') = Len(requests) + 1
           /\ OneLock => Truthful(cand', requests')
  <1>1. requests \in Seq(RequestRow) /\ Len(requests) \in Nat
        /\ DOMAIN requests = 1 .. Len(requests)
    BY LenProperties DEF IInv, TypeOK
  <1>2. /\ requests' \in Seq(RequestRow) /\ Len(requests') = Len(requests) + 1
        /\ \A r \in 1 .. Len(requests) : requests'[r] = requests[r]
        /\ requests'[Len(requests) + 1] = row
    BY <1>1, AppendProperties
  <1>3. DOMAIN requests' = 1 .. Len(requests')
    BY <1>2, LenProperties
  <1>4. \A r \in DOMAIN requests' : r \in DOMAIN requests \/ r = Len(requests) + 1
    BY <1>1, <1>2, <1>3
  <1>5. OneLock => Truthful(cand', requests')
    BY <1>1, <1>2, <1>4 DEF Truthful, IInv, TurnsInv, Told
  <1> QED
    BY <1>1, <1>2, <1>5 DEF Grows

LEMMA CreateRequestStep ==
    ASSUME IInv, NEW w \in Workers, CreateRequest(w) PROVE IInv'
  <1> DEFINE i == worker[w][1]
             row == NewRequest(i, i.to, Root(w), 0)
  <1>1. /\ worker[w] # <<>> /\ This(w) = i /\ i.do = "request" /\ i \in Instructions
        /\ UNCHANGED <<cand, current, home>> /\ Continue(w, <<>>)
        /\ Len(requests') <= MaxRequests /\ Fits(i, requests)
    BY AtHand DEF CreateRequest, At, This
  <1>2. requests' = requests \/ requests' = Append(requests, row)
    BY <1>1 DEF CreateRequest
  <1>3. <<>> \in Seq(Instructions) /\ Grammar(<<>>, requests) /\ Plain(<<>>, i.content)
    BY EmptyProgram
  <1>4. CASE requests' = requests
    BY <1>1, <1>3, <1>4, Unchanged, ContinueStep
  <1>5. CASE requests' = Append(requests, row)
    <2>1. i.content \in Contents /\ i.version \in Nat /\ 0 \in Nat
          /\ i.to \in Actions /\ Root(w) \in Workspaces
      BY <1>1, RootType DEF Instructions, Fits
    <2>2. row \in RequestRow /\ row.status = "pending"
      BY <2>1, NewRequestRow
    <2> HIDE DEF row
    <2>3. /\ requests' \in Seq(RequestRow) /\ Grows(requests, requests')
          /\ OneLock => Truthful(cand', requests')
      BY <1>1, <1>5, <2>2, RequestAdded
    <2>4. /\ cand' \in [Contents -> CandidateRow] /\ current' \in 0 .. MaxPublished
          /\ ValidOnly'
      BY <1>1 DEF IInv, TypeOK, ValidOnly
    <2> QED
      BY <1>1, <1>3, <2>3, <2>4, ContinueStep
  <1> QED
    BY <1>2, <1>4, <1>5

LEMMA InsertSuccessorStep ==
    ASSUME IInv, NEW w \in Workers, InsertSuccessor(w) PROVE IInv'
  <1> DEFINE i == worker[w][1]
             r == i.request
             row == NewRequest(i, requests[r].action, requests[r].root, r)
  <1>1. /\ worker[w] # <<>> /\ This(w) = i /\ i.do = "successor" /\ i \in Instructions
        /\ UNCHANGED <<cand, current, home>> /\ Continue(w, <<>>)
        /\ Len(requests) < MaxRequests /\ Fits(i, requests)
    BY AtHand DEF InsertSuccessor, At, This
  <1>2. requests' = Append(requests, row)
    BY <1>1 DEF InsertSuccessor
  <1>3. <<>> \in Seq(Instructions) /\ Grammar(<<>>, requests) /\ Plain(<<>>, i.content)
    BY EmptyProgram
  <1>4. /\ i.content \in Contents /\ i.version \in Nat /\ r \in Nat
        /\ requests[r].action \in Actions /\ requests[r].root \in Workspaces
    <2>1. requests[r] \in RequestRow
      BY <1>1, RequestRows DEF Fits
    <2> QED
      BY <1>1, <2>1, ConstantsAssumption DEF Instructions, RequestRow
  <1>5. row \in RequestRow /\ row.status = "pending"
    BY <1>4, NewRequestRow
  <1> HIDE DEF row
  <1>6. /\ requests' \in Seq(RequestRow) /\ Grows(requests, requests')
        /\ Len(requests') = Len(requests) + 1
        /\ OneLock => Truthful(cand', requests')
    BY <1>1, <1>2, <1>5, RequestAdded
  <1>7. Len(requests') <= MaxRequests
    <2>1. Len(requests) \in Nat
      BY LenProperties DEF IInv, TypeOK
    <2> QED
      BY <1>1, <1>6, <2>1, ConstantsAssumption
  <1>8. /\ cand' \in [Contents -> CandidateRow] /\ current' \in 0 .. MaxPublished
        /\ ValidOnly'
    BY <1>1 DEF IInv, TypeOK, ValidOnly
  <1> QED
    BY <1>1, <1>3, <1>6, <1>7, <1>8, ContinueStep

LEMMA ReadCandidateStep ==
    ASSUME IInv, NEW w \in Workers, ReadCandidate(w) PROVE IInv'
  <1> DEFINE i == worker[w][1]
             r == i.request
             k == i.content
  <1>1. /\ worker[w] # <<>> /\ This(w) = i /\ i.do = "candidate" /\ Tail(worker[w]) = <<>>
        /\ UNCHANGED <<cand, requests, current, home>>
        /\ k \in Contents /\ Fits(i, requests) /\ Row(w) = cand[k]
    BY AtHand DEF ReadCandidate, At, This
  <1>2. r \in DOMAIN requests /\ requests[r].candidate = k /\ TypeOK
    BY <1>1 DEF Fits, IInv
  <1>3. ASSUME NEW q \in Seq(Instructions), Continue(w, q), q # <<>>, Grammar(q, requests),
               Free(q[1]), OneLock => Spared(q, cand, requests)
        PROVE  IInv'
    <2>1. q \o Tail(worker[w]) = q
      BY <1>1, ConcatEmptySeq
    <2>2. worker' = [worker EXCEPT ![w] = q]
      BY <1>3, <2>1 DEF Continue
    <2>3. Ready(q[1], cand)
      BY <1>3, FreeReady
    <2> QED
      BY <1>1, <1>3, <2>2, <2>3, Unchanged, ProgramStep
  <1>4. CASE Return(w)
    BY <1>1, <1>4, ReturnStep
  <1>5. ASSUME NEW response \in {"approve", "reject", "defer"}, Continue(w, Answer(r, response, k))
        PROVE  IInv'
    <2> DEFINE q == Answer(r, response, k)
    <2>1. /\ q \in Seq(Instructions) /\ q # <<>> /\ Grammar(q, requests) /\ Plain(q, k)
          /\ Free(q[1])
      BY <1>2, AnswerProgram
    <2>2. Spared(q, cand, requests)
      BY <2>1, PlainSpared
    <2> HIDE DEF q
    <2>3. Continue(w, q)
      BY <1>5 DEF q
    <2> QED
      BY <1>3, <2>1, <2>2, <2>3
  <1>6. ASSUME NEW m \in Contents \ {k}, Continue(w, Answer(r, "modify", m)),
               cand[k].status = "validated"
        PROVE  IInv'
    <2> DEFINE q == Answer(r, "modify", m)
    <2>1. /\ q \in Seq(Instructions) /\ q # <<>> /\ Len(q) = 3 /\ Grammar(q, requests)
          /\ Free(q[1])
          /\ \A n \in 1 .. 3 : q[n].content = m /\ q[n].do \notin {"check", "write"}
          /\ \A n \in 1 .. 3 : q[n].do = "fork" => q[n].request = r
      BY <1>2, ModifyProgram
    <2> HIDE DEF q
    <2>2. Spared(q, cand, requests)
      BY <1>2, <1>6, <2>1 DEF Spared
    <2>3. Continue(w, q)
      BY <1>6 DEF q
    <2> QED
      BY <1>3, <2>1, <2>2, <2>3
  <1> QED
    BY <1>1, <1>4, <1>5, <1>6 DEF ReadCandidate

LEMMA ForkStep ==
    ASSUME IInv, NEW w \in Workers, Fork(w) PROVE IInv'
  <1> DEFINE i == worker[w][1]
             r == i.request
             parent == requests[r].candidate
             v == Row(w).anchor
             ok == Row(w).status = "validated"
             q == IF ok THEN <<[i EXCEPT !.do = "successor", !.version = v]>>
                             \o Transition(parent, "superseded") \o <<Close(r, "replaced")>>
                        ELSE <<Close(r, "superseded")>>
  <1>1. /\ worker[w] # <<>> /\ This(w) = i /\ i.do = "fork" /\ Tail(worker[w]) = <<>>
        /\ UNCHANGED <<cand, requests, current, home>>
        /\ Fits(i, requests) /\ i \in Instructions /\ Row(w) \in CandidateRow
        /\ OneLock => Spared(worker[w], cand, requests)
        /\ worker[w] \in Seq(Instructions)
    BY AtHand DEF Fork, At, This
  <1>2. Continue(w, q)
    BY <1>1 DEF Fork
  <1>3. r \in DOMAIN requests /\ TypeOK /\ parent \in Contents /\ v \in Nat
    <2>1. r \in DOMAIN requests /\ TypeOK /\ v \in Nat
      BY <1>1 DEF Fits, IInv, CandidateRow
    <2> QED
      BY <2>1, CloseFacts DEF Answers
  <1>4. ok \in BOOLEAN
    OBVIOUS
  <1>5. ASSUME NEW cs, cs[parent].status = "validated"
        PROVE  /\ q \in Seq(Instructions) /\ q # <<>> /\ Grammar(q, requests) /\ Free(q[1])
               /\ Spared(q, cs, requests)
    <2> HIDE DEF ok, v
    <2> QED
      BY <1>1, <1>3, <1>4, <1>5, ForkProgram
  <1>6. [k \in Contents |-> [status |-> "validated"]][parent].status = "validated"
    BY <1>3
  <1>7. OneLock => cand[parent].status = "validated"
    <2>1. 1 \in 1 .. Len(worker[w])
      BY <1>1, EmptySeq
    <2> QED
      BY <1>1, <2>1 DEF Spared
  <1> HIDE DEF q
  <1>8. q \in Seq(Instructions) /\ q # <<>> /\ Grammar(q, requests) /\ Free(q[1])
    BY <1>5, <1>6
  <1>9. OneLock => Spared(q, cand, requests)
    BY <1>5, <1>7
  <1>10. q \o Tail(worker[w]) = q
    BY <1>1, <1>8, ConcatEmptySeq
  <1>11. worker' = [worker EXCEPT ![w] = q]
    BY <1>2, <1>10 DEF Continue
  <1>12. Ready(q[1], cand)
    BY <1>8, FreeReady
  <1> QED
    BY <1>1, <1>8, <1>9, <1>11, <1>12, Unchanged, ProgramStep

\* The gates hand the version they read to the transaction.
LEMMA PublishGateStep ==
    ASSUME IInv, NEW w \in Workers, PublishGate(w) PROVE IInv'
  <1> DEFINE p == worker[w]
             i == p[1]
             k == i.content
             j == [p[2] EXCEPT !.version = current + 1]
             b == Tail(p)
             t == Tail(b)
             q == <<j>> \o t
             open == /\ Row(w).status = "validated" /\ ~Row(w).weak
                     /\ k \in Valid
                     /\ current = 0 \/ Row(w).anchor \in {0, current}
  <1>1. /\ p # <<>> /\ This(w) = i /\ i.do = "gate"
        /\ UNCHANGED <<cand, requests, current, home>>
        /\ p \in Seq(Instructions) /\ Grammar(p, requests) /\ Row(w) = cand[k]
        /\ OneLock => Spared(p, cand, requests)
    BY AtHand DEF PublishGate, At, This
  <1>2. IF ~open THEN Return(w) ELSE worker' = [worker EXCEPT ![w] = q]
    BY <1>1 DEF PublishGate
  <1>3. CASE ~open
    BY <1>1, <1>2, <1>3, ReturnStep
  <1>4. CASE open
    <2>1. /\ Len(p) \in Nat /\ Len(p) > 1 /\ p[2].do = "publish" /\ p[2].content = k
          /\ p[2] \in Instructions
      <3>1. 1 \in 1 .. Len(p) /\ Len(p) \in Nat
        BY <1>1, EmptySeq, LenProperties
      <3>2. 1 < Len(p) /\ p[1 + 1].do = "publish" /\ p[1 + 1].content = k
        BY <1>1, <3>1 DEF Grammar
      <3>3. 2 \in 1 .. Len(p)
        BY <3>1, <3>2
      <3> QED
        BY <1>1, <3>1, <3>2, <3>3, ElementOfSeq
    <2>2. /\ b \in Seq(Instructions) /\ Grammar(b, requests) /\ Len(b) = Len(p) - 1
          /\ \A n \in 1 .. Len(b) : b[n] = p[n + 1]
      BY <1>1, TailGrammar, HeadTailProperties
    <2>3. b # <<>> /\ b[1] = p[2] /\ Len(b) \in Nat \ {0}
      BY <2>1, <2>2, EmptySeq
    <2>4. /\ j \in Instructions /\ j.do = "publish" /\ j.content = k
          /\ j.to = p[2].to /\ j.request = p[2].request
      <3>1. current + 1 \in Nat
        BY ConstantsAssumption DEF IInv, TypeOK
      <3> QED
        BY <2>1, <3>1 DEF Instructions
    <2>5. worker' = [worker EXCEPT ![w] = q]
      BY <1>2, <1>4
    <2>6. k \in Valid /\ cand[k].status = "validated"
      BY <1>1, <1>4
    <2> HIDE DEF b, j, open
    <2>7. /\ t \in Seq(Instructions) /\ Len(t) = Len(b) - 1 /\ Len(t) \in Nat
          /\ \A n \in 1 .. Len(t) : t[n] = b[n + 1]
      BY <2>2, <2>3, HeadTailProperties, LenProperties
    <2> HIDE DEF t
    <2>8. /\ q \in Seq(Instructions) /\ Len(q) = Len(b) /\ q[1] = j
          /\ \A n \in 2 .. Len(q) : q[n] = b[n]
      <3> DEFINE a == <<j>>
      <3>1. a \in Seq(Instructions) /\ Len(a) = 1 /\ a[1] = j
        BY <2>4
      <3>2. q = a \o t
        OBVIOUS
      <3> HIDE DEF a, q
      <3>3. /\ q \in Seq(Instructions) /\ Len(q) = Len(a) + Len(t)
            /\ \A n \in 1 .. Len(a) + Len(t) : q[n] = IF n <= Len(a) THEN a[n] ELSE t[n - Len(a)]
        BY <2>7, <3>1, <3>2, ConcatProperties, ZenonT(40)
      <3>4. q[1] = j /\ Len(q) = Len(b)
        BY <2>3, <2>7, <3>1, <3>3
      <3>5. ASSUME NEW n \in 2 .. Len(q) PROVE q[n] = b[n]
        <4>1. n - 1 \in 1 .. Len(t) /\ q[n] = t[n - 1] /\ (n - 1) + 1 = n
          BY <2>3, <2>7, <3>1, <3>3, <3>4
        <4> QED
          BY <2>7, <4>1
      <3> QED
        BY <3>3, <3>4, <3>5
    <2> HIDE DEF q
    <2>9. Grammar(q, requests)
      <3>1. Fits(j, requests)
        BY <2>4, <2>6 DEF Fits
      <3>2. ASSUME NEW n \in 1 .. Len(q)
            PROVE  /\ Fits(q[n], requests)
                   /\ n > 1 => Linked(q[n - 1], q[n])
                   /\ q[n].do = "gate" =>
                         /\ n < Len(q) /\ q[n + 1].do = "publish"
                         /\ q[n + 1].content = q[n].content
                   /\ q[n].do \in {"candidate", "fork"} => n = Len(q)
        <4>1. CASE n = 1
          BY <2>4, <2>8, <3>1, <4>1
        <4>2. CASE n > 1
          <5>1. n \in 1 .. Len(b) /\ q[n] = b[n] /\ (n < Len(q) => q[n + 1] = b[n + 1])
            BY <2>3, <2>8, <4>2
          <5>2. Linked(b[n - 1], b[n])
            BY <2>2, <4>2, <5>1 DEF Grammar
          <5>3. Linked(q[n - 1], b[n])
            <6>1. CASE n = 2
              BY <2>1, <2>3, <2>4, <2>8, <5>2, <6>1 DEF Linked
            <6>2. CASE n # 2
              BY <2>3, <2>8, <4>2, <5>2, <6>2
            <6> QED
              BY <6>1, <6>2
          <5> QED
            BY <2>2, <2>8, <5>1, <5>3 DEF Grammar
        <4> QED
          BY <4>1, <4>2
      <3> QED
        BY <3>2 DEF Grammar
    <2>10. Ready(q[1], cand)
      BY <2>4, <2>6, <2>8 DEF Ready
    <2>11. OneLock => Spared(q, cand, requests)
      <3> SUFFICES ASSUME OneLock PROVE Spared(q, cand, requests)
        OBVIOUS
      <3>1. Spared(p, cand, requests)
        BY <1>1
      <3>2. ASSUME NEW n \in 1 .. Len(q)
            PROVE  /\ n + 1 \in 1 .. Len(p) /\ q[n].do = p[n + 1].do
                   /\ q[n].content = p[n + 1].content
                   /\ q[n].to = p[n + 1].to /\ q[n].request = p[n + 1].request
        <4>1. n \in 1 .. Len(b) /\ n + 1 \in 1 .. Len(p) /\ b[n] = p[n + 1]
          BY <2>1, <2>2, <2>3, <2>8
        <4>2. CASE n = 1
          BY <2>1, <2>4, <2>8, <4>1, <4>2
        <4>3. CASE n > 1
          BY <2>8, <4>1, <4>3
        <4> QED
          BY <4>2, <4>3
      <3>3. ASSUME NEW n \in 1 .. Len(q), q[n].do = "fork"
            PROVE  LET parent == requests[q[n].request].candidate
                   IN  /\ cand[parent].status = "validated"
                       /\ \A m \in 1 .. Len(q) : q[m].content # parent
        BY <3>1, <3>2, <3>3, SMTT(40) DEF Spared
      <3>4. ASSUME NEW n \in 1 .. Len(q), q[n].do \in {"check", "write"}, q[n].to = "superseded"
            PROVE  FALSE
        <4>1. 1 \in 1 .. ((n + 1) - 1)
          OBVIOUS
        <4> QED
          BY <1>1, <3>1, <3>2, <3>4, <4>1 DEF Spared
      <3> QED
        BY <3>3, <3>4 DEF Spared
    <2> QED
      BY <1>1, <2>5, <2>8, <2>9, <2>10, <2>11, Unchanged, ProgramStep
  <1> QED
    BY <1>3, <1>4

\* The transaction: from validated, with one lock.
LEMMA PublishStep ==
    ASSUME IInv, NEW w \in Workers, Publish(w) PROVE IInv'
  <1> DEFINE i == worker[w][1]
             k == i.content
  <1>1. /\ worker[w] # <<>> /\ This(w) = i /\ i.do = "publish" /\ i \in Instructions
        /\ UNCHANGED <<requests, home>>
        /\ k \in Contents /\ Fits(i, requests)
        /\ OneLock => Ready(i, cand)
        /\ worker[w] \in Seq(Instructions) /\ Grammar(worker[w], requests)
    BY AtHand DEF Publish, At, This
  <1>2. CASE i.version <= current /\ Return(w) /\ UNCHANGED <<cand, current>>
    BY <1>1, <1>2, ReturnStep
  <1>3. CASE /\ i.version > current /\ SetStatus(k, "active")
             /\ i.version <= MaxPublished /\ current' = i.version /\ Continue(w, <<>>)
    <2>1. i.version # 0 /\ current' \in 0 .. MaxPublished
      BY <1>1, <1>3, ConstantsAssumption DEF Instructions, IInv, TypeOK
    <2>2. /\ cand' \in [Contents -> CandidateRow] /\ cand'[k].status = "active"
          /\ \A j \in Contents \ {k} : cand'[j].status = cand[j].status
      <3>1. "active" \in Statuses
        BY DEF Statuses
      <3> QED
        BY <1>1, <1>3, <3>1, StatusSet
    <2>3. ValidOnly'
      BY <1>1, <2>1, <2>2 DEF ValidOnly, IInv, Fits
    <2>4. OneLock => cand[k].status = "validated"
      BY <1>1, <2>1 DEF Ready
    <2>5. OneLock => Truthful(cand', requests')
      BY <1>1, <2>2, <2>4, TruthKept
    <2>6. /\ requests' \in Seq(RequestRow) /\ Len(requests') <= MaxRequests
          /\ Grows(requests, requests')
      BY <1>1, GrowsSame DEF IInv, TypeOK
    <2>7. Tail(worker[w]) # <<>> => Ready(worker[w][2], cand')
      <3> SUFFICES ASSUME Tail(worker[w]) # <<>> PROVE Ready(worker[w][2], cand')
        OBVIOUS
      <3>1. Linked(i, worker[w][2])
        BY <1>1, TailGrammar
      <3> QED
        BY <1>1, <2>2, <3>1 DEF Ready, Linked, Told
    <2>8. <<>> \in Seq(Instructions) /\ Grammar(<<>>, requests) /\ Plain(<<>>, k)
      BY EmptyProgram
    <2> QED
      BY <1>1, <1>3, <2>1, <2>2, <2>3, <2>5, <2>6, <2>7, <2>8, ContinueStep
  <1> QED
    BY <1>1, <1>2, <1>3 DEF Publish

\* Rows of requests are edited in place.
LEMMA RowsEdited ==
    ASSUME IInv, cand' = cand, DOMAIN requests' = DOMAIN requests,
           requests' = [r \in DOMAIN requests |-> requests'[r]],
           \A r \in DOMAIN requests :
               /\ requests'[r] \in RequestRow
               /\ requests'[r].candidate = requests[r].candidate,
           OneLock => \A r \in DOMAIN requests :
               \/ requests'[r].status = requests[r].status
               \/ Told(requests'[r].status, cand[requests[r].candidate].status)
    PROVE  /\ cand' \in [Contents -> CandidateRow]
           /\ requests' \in Seq(RequestRow) /\ Len(requests') <= MaxRequests
           /\ ValidOnly' /\ Grows(requests, requests')
           /\ OneLock => Truthful(cand', requests')
  <1>1. /\ requests \in Seq(RequestRow) /\ Len(requests) \in Nat
        /\ DOMAIN requests = 1 .. Len(requests) /\ Len(requests) <= MaxRequests
    BY LenProperties DEF IInv, TypeOK
  <1>2. requests' \in [1 .. Len(requests) -> RequestRow]
    BY <1>1
  <1>3. requests' \in Seq(RequestRow)
    BY <1>1, <1>2, SeqDef
  <1>4. Len(requests') = Len(requests)
    <2>1. DOMAIN requests' = 1 .. Len(requests') /\ Len(requests') \in Nat
      BY <1>3, LenProperties
    <2> QED
      BY <1>1, <2>1
  <1>5. Grows(requests, requests')
    BY <1>1, <1>4 DEF Grows
  <1>6. OneLock => Truthful(cand', requests')
    BY DEF Truthful, IInv, TurnsInv
  <1> QED
    BY <1>1, <1>3, <1>4, <1>5, <1>6 DEF IInv, TypeOK, ValidOnly

LEMMA RequestEdited ==
    ASSUME NEW row \in RequestRow,
           NEW s \in Answers \cup {"pending", "expired"}
    PROVE  LET new == [row EXCEPT !.status = s]
           IN  new \in RequestRow /\ new.status = s /\ new.candidate = row.candidate
  BY DEF RequestRow, Answers

LEMMA CloseRequestStep ==
    ASSUME IInv, NEW w \in Workers, CloseRequest(w) PROVE IInv'
  <1> DEFINE i == worker[w][1]
             r == i.request
             row == [requests[r] EXCEPT !.status = i.to]
  <1>1. /\ worker[w] # <<>> /\ This(w) = i /\ i.do = "close"
        /\ UNCHANGED <<cand, current, home>> /\ Continue(w, <<>>)
        /\ Fits(i, requests)
        /\ OneLock => Ready(i, cand)
    BY AtHand DEF CloseRequest, At, This
  <1>2. requests' = IF requests[r].status = "pending" THEN [requests EXCEPT ![r] = row]
                    ELSE requests
    BY <1>1 DEF CloseRequest
  <1>3. /\ r \in DOMAIN requests /\ requests[r].candidate = i.content
        /\ i.to \in Answers
    BY <1>1 DEF Fits
  <1>4. /\ \A q \in DOMAIN requests : requests[q] \in RequestRow
        /\ requests = [q \in DOMAIN requests |-> requests[q]]
    BY RequestRows
  <1>5. row \in RequestRow /\ row.status = i.to /\ row.candidate = requests[r].candidate
    <2>1. requests[r] \in RequestRow
      BY <1>3, <1>4
    <2>2. i.to \in Answers \cup {"pending", "expired"}
      BY <1>3
    <2> QED
      BY <2>1, <2>2, RequestEdited
  <1>6. <<>> \in Seq(Instructions) /\ Grammar(<<>>, requests) /\ Plain(<<>>, i.content)
    BY EmptyProgram
  <1> HIDE DEF row
  <1>7. CASE requests[r].status # "pending"
    <2>1. requests' = requests
      BY <1>2, <1>7
    <2> QED
      BY <1>1, <1>6, <2>1, Unchanged, ContinueStep
  <1>8. CASE requests[r].status = "pending"
    <2>1. requests' = [requests EXCEPT ![r] = row]
      BY <1>2, <1>8
    <2>2. /\ DOMAIN requests' = DOMAIN requests
          /\ requests' = [q \in DOMAIN requests |-> requests'[q]]
          /\ requests'[r] = row
          /\ \A q \in DOMAIN requests \ {r} : requests'[q] = requests[q]
      BY <1>3, <1>4, <2>1
    <2>3. \A q \in DOMAIN requests :
              requests'[q] \in RequestRow /\ requests'[q].candidate = requests[q].candidate
      BY <1>4, <1>5, <2>2
    <2>4. OneLock => Told(i.to, cand[requests[r].candidate].status)
      BY <1>1, <1>3 DEF Ready
    <2>6. OneLock => \A q \in DOMAIN requests :
              \/ requests'[q].status = requests[q].status
              \/ Told(requests'[q].status, cand[requests[q].candidate].status)
      <3> SUFFICES ASSUME OneLock, NEW q \in DOMAIN requests
                   PROVE  \/ requests'[q].status = requests[q].status
                          \/ Told(requests'[q].status, cand[requests[q].candidate].status)
        OBVIOUS
      <3>1. CASE q # r
        BY <2>2, <3>1
      <3>2. CASE q = r
        BY <1>3, <1>5, <2>2, <2>4, <3>2
      <3> QED
        BY <3>1, <3>2
    <2>7. /\ cand' \in [Contents -> CandidateRow]
          /\ requests' \in Seq(RequestRow) /\ Len(requests') <= MaxRequests
          /\ ValidOnly' /\ Grows(requests, requests')
          /\ OneLock => Truthful(cand', requests')
      BY <1>1, <2>2, <2>3, <2>6, RowsEdited
    <2>8. current' \in 0 .. MaxPublished
      BY <1>1 DEF IInv, TypeOK
    <2> QED
      BY <1>1, <1>6, <2>7, <2>8, ContinueStep
  <1> QED
    BY <1>7, <1>8

LEMMA SweepRequestsStep ==
    ASSUME IInv, NEW w \in Workers, SweepRequests(w) PROVE IInv'
  <1>1. /\ worker[w] # <<>> /\ Return(w) /\ UNCHANGED <<cand, current, home>>
        /\ requests' = [r \in DOMAIN requests |->
              IF requests[r].status = "pending" /\ requests[r].age = "past"
              THEN [requests[r] EXCEPT !.status = "expired"] ELSE requests[r]]
    BY DEF SweepRequests, At
  <1>2. \A r \in DOMAIN requests : requests[r] \in RequestRow
    BY RequestRows
  <1>3. ASSUME NEW r \in DOMAIN requests
        PROVE  /\ requests'[r] \in RequestRow
               /\ requests'[r].candidate = requests[r].candidate
               /\ requests'[r].status \in {requests[r].status, "expired"}
    <2> DEFINE row == [requests[r] EXCEPT !.status = "expired"]
    <2>1. row \in RequestRow /\ row.status = "expired" /\ row.candidate = requests[r].candidate
      BY <1>2, RequestEdited
    <2>2. requests'[r] = row \/ requests'[r] = requests[r]
      BY <1>1
    <2> HIDE DEF row
    <2> QED
      BY <1>2, <2>1, <2>2
  <1>4. DOMAIN requests' = DOMAIN requests /\ requests' = [r \in DOMAIN requests |-> requests'[r]]
    BY <1>1
  <1>5. /\ cand' \in [Contents -> CandidateRow]
        /\ requests' \in Seq(RequestRow) /\ Len(requests') <= MaxRequests
        /\ ValidOnly' /\ Grows(requests, requests')
        /\ OneLock => Truthful(cand', requests')
    BY <1>1, <1>3, <1>4, RowsEdited DEF Told
  <1>6. <<>> \in Seq(Instructions) /\ Grammar(<<>>, requests')
    BY EmptyProgram
  <1>7. worker' = [worker EXCEPT ![w] = <<>>] /\ current' \in 0 .. MaxPublished
    BY <1>1 DEF Return, IInv, TypeOK
  <1> QED
    BY <1>1, <1>5, <1>6, <1>7, ProgramStep

\* Steps of no handler, which leave the status of every candidate as it is or
\* find nobody at work.
LEMMA OutsideStep ==
    ASSUME IInv, UNCHANGED <<worker, home, current>>,
           cand' \in [Contents -> CandidateRow],
           requests' \in Seq(RequestRow), Len(requests') <= MaxRequests,
           ValidOnly', Grows(requests, requests'),
           OneLock => Truthful(cand', requests'),
           OneLock => \/ \A k \in Contents : cand'[k].status = cand[k].status
                      \/ \A w \in Workers : worker[w] = <<>>
    PROVE  IInv'
  <1>1. TypeOK'
    BY DEF IInv, TypeOK
  <1>2. worker \in [Workers -> Seq(Instructions)] /\ requests \in Seq(RequestRow)
    BY DEF IInv, TypeOK
  <1>3. GrammarInv'
    <2> SUFFICES ASSUME NEW v \in Workers PROVE Grammar(worker[v], requests')
      BY DEF GrammarInv
    <2> QED
      BY <1>2, GrammarGrows DEF IInv, GrammarInv
  <1>4. TurnsInv'
    <2>1. OneLock' => OneLock
      BY DEF OneLock
    <2> SUFFICES ASSUME OneLock, NEW v \in Workers, worker[v] # <<>>
                 PROVE  Ready(worker[v][1], cand') /\ Spared(worker[v], cand', requests')
      BY <2>1 DEF TurnsInv, IInv
    <2> DEFINE p == worker[v]
    <2>2. /\ p \in Seq(Instructions) /\ Grammar(p, requests) /\ p[1].content \in Contents
          /\ Ready(p[1], cand) /\ Spared(p, cand, requests)
      BY AtHand
    <2>3. \A k \in Contents : cand'[k].status = cand[k].status
      OBVIOUS
    <2>4. Ready(p[1], cand')
      BY <2>2, <2>3 DEF Ready
    <2>5. ASSUME NEW n \in 1 .. Len(p)
          PROVE  /\ p[n].content \in Contents
                 /\ p[n].do = "fork" =>
                       /\ requests'[p[n].request].candidate = requests[p[n].request].candidate
                       /\ requests[p[n].request].candidate \in Contents
      <3>1. p[n] \in Instructions /\ Fits(p[n], requests)
        BY <2>2, ElementOfSeq DEF Grammar
      <3>2. DOMAIN requests = 1 .. Len(requests)
        BY <1>2, LenProperties
      <3>3. \A r \in 1 .. Len(requests) : requests[r] \in RequestRow
        BY <1>2, ElementOfSeq
      <3> QED
        BY <3>1, <3>2, <3>3 DEF Instructions, Fits, Grows, RequestRow
    <2> HIDE DEF p
    <2>6. Spared(p, cand', requests')
      BY <2>2, <2>3, <2>5 DEF Spared
    <2> QED
      BY <2>4, <2>6 DEF p
  <1> QED
    BY <1>1, <1>3, <1>4 DEF IInv

LEMMA ExpireCandidatesStep ==
    ASSUME IInv, NEW w \in Workers, ExpireCandidates(w) PROVE IInv'
  <1>1. /\ LockFree(w) /\ UNCHANGED <<requests, current, worker, home>>
        /\ cand' = [k \in Contents |->
              IF cand[k].status \in PreDraft /\ cand[k].old
              THEN [cand[k] EXCEPT !.status = "expired"] ELSE cand[k]]
    BY DEF ExpireCandidates
  <1>2. cand \in [Contents -> CandidateRow]
    BY DEF IInv, TypeOK
  <1>3. ASSUME NEW k \in Contents
        PROVE  /\ cand'[k] \in CandidateRow
               /\ cand'[k].status = cand[k].status
                  \/ (cand[k].status \in PreDraft /\ cand'[k].status = "expired")
    <2> DEFINE row == [cand[k] EXCEPT !.status = "expired"]
    <2>1. row \in CandidateRow /\ row.status = "expired"
      <3>1. "expired" \in Statuses
        BY DEF Statuses
      <3> QED
        BY <1>2, <3>1, StatusEdited
    <2>2. cand'[k] = cand[k] \/ (cand[k].status \in PreDraft /\ cand'[k] = row)
      BY <1>1
    <2> HIDE DEF row
    <2> QED
      BY <1>2, <2>1, <2>2
  <1>4. cand' \in [Contents -> CandidateRow]
    <2>1. cand' = [k \in Contents |-> cand'[k]]
      BY <1>1
    <2> QED
      BY <1>3, <2>1
  <1>5. ValidOnly'
    BY <1>3 DEF ValidOnly, IInv
  <1>6. OneLock => Truthful(cand', requests')
    BY <1>1, <1>3, TruthKept DEF PreDraft
  <1>7. OneLock => \A v \in Workers : worker[v] = <<>>
    BY <1>1 DEF LockFree, Running, OneLock
  <1>8. /\ requests' \in Seq(RequestRow) /\ Len(requests') <= MaxRequests
        /\ Grows(requests, requests')
    BY <1>1, GrowsSame DEF IInv, TypeOK
  <1> QED
    BY <1>1, <1>4, <1>5, <1>6, <1>7, <1>8, OutsideStep

LEMMA AgedRow ==
    ASSUME NEW row \in CandidateRow
    PROVE  [row EXCEPT !.old = TRUE] \in CandidateRow /\ [row EXCEPT !.old = TRUE].status = row.status
  BY DEF CandidateRow

LEMMA CandidateAgesStep ==
    ASSUME IInv, NEW k \in Contents, CandidateAges(k) PROVE IInv'
  <1> DEFINE row == [cand[k] EXCEPT !.old = TRUE]
  <1>1. UNCHANGED <<requests, current, worker, home>> /\ cand' = [cand EXCEPT ![k] = row]
    BY DEF CandidateAges
  <1>2. cand \in [Contents -> CandidateRow]
    BY DEF IInv, TypeOK
  <1>3. row \in CandidateRow /\ row.status = cand[k].status
    BY <1>2, AgedRow
  <1> HIDE DEF row
  <1>4. cand' \in [Contents -> CandidateRow] /\ \A j \in Contents : cand'[j].status = cand[j].status
    BY <1>1, <1>2, <1>3
  <1>5. ValidOnly'
    BY <1>4 DEF ValidOnly, IInv
  <1>6. OneLock => Truthful(cand', requests')
    BY <1>1, <1>4, TruthKept
  <1>7. /\ requests' \in Seq(RequestRow) /\ Len(requests') <= MaxRequests
        /\ Grows(requests, requests')
    BY <1>1, GrowsSame DEF IInv, TypeOK
  <1> QED
    BY <1>1, <1>4, <1>5, <1>6, <1>7, OutsideStep

LEMMA RequestAgesStep ==
    ASSUME IInv, NEW r \in DOMAIN requests, RequestAges(r) PROVE IInv'
  <1> DEFINE age == IF requests[r].age = "fresh" THEN "due" ELSE "past"
             row == [requests[r] EXCEPT !.age = age]
  <1>1. UNCHANGED <<cand, current, worker, home>> /\ requests' = [requests EXCEPT ![r] = row]
    BY DEF RequestAges
  <1>2. /\ \A q \in DOMAIN requests : requests[q] \in RequestRow
        /\ requests = [q \in DOMAIN requests |-> requests[q]]
    BY RequestRows
  <1>3. /\ row \in RequestRow /\ row.status = requests[r].status
        /\ row.candidate = requests[r].candidate
    <2>1. age \in {"fresh", "due", "past"} /\ requests[r] \in RequestRow
      BY <1>2
    <2> HIDE DEF age
    <2> QED
      BY <2>1 DEF RequestRow
  <1> HIDE DEF row
  <1>4. /\ DOMAIN requests' = DOMAIN requests
        /\ requests' = [q \in DOMAIN requests |-> requests'[q]]
    BY <1>1, <1>2
  <1>5. \A q \in DOMAIN requests : /\ requests'[q] \in RequestRow
                                   /\ requests'[q].candidate = requests[q].candidate
                                   /\ requests'[q].status = requests[q].status
    BY <1>1, <1>2, <1>3
  <1>6. /\ cand' \in [Contents -> CandidateRow]
        /\ requests' \in Seq(RequestRow) /\ Len(requests') <= MaxRequests
        /\ ValidOnly' /\ Grows(requests, requests')
        /\ OneLock => Truthful(cand', requests')
    BY <1>1, <1>4, <1>5, RowsEdited
  <1> QED
    BY <1>1, <1>6, OutsideStep

\* The tool calls.
LEMMA CallStep ==
    ASSUME IInv, NEW w \in Workers, NEW k \in Contents,
           Propose(w, k) \/ Evaluate(w, k) \/ Reject(w, k) \/ Approve(w, k)
           \/ RequestApproval(w, k)
    PROVE  IInv'
  <1>1. ASSUME NEW i \in Instructions, i.do \in {"anchor", "evaluate", "request"},
               i.do = "request" => i.to \in Actions, Start(w, <<i>>)
        PROVE  IInv'
    <2>1. Fits(i, requests) /\ Free(i)
      BY <1>1 DEF Fits, Free
    <2> DEFINE q == <<i>>
    <2>2. q \in Seq(Instructions) /\ Len(q) = 1 /\ q[1] = i /\ Grammar(q, requests)
      BY <1>1, <2>1, SingleProgram
    <2>3. Start(w, q)
      BY <1>1
    <2> HIDE DEF q
    <2>4. Spared(q, cand, requests)
      BY <1>1, <2>2 DEF Spared
    <2> QED
      BY <2>1, <2>2, <2>3, <2>4, StartStep
  <1>2. CASE Propose(w, k)
    <2>1. PICK weak \in BOOLEAN : Start(w, Proposal(k, weak))
      BY <1>2 DEF Propose
    <2> DEFINE i == [Do("anchor", k) EXCEPT !.weak = weak]
    <2>2. Do("anchor", k) \in Instructions /\ Do("anchor", k).do = "anchor"
      BY DoFacts
    <2>3. i \in Instructions /\ i.do = "anchor"
      BY <2>2 DEF Instructions
    <2>4. Start(w, <<i>>)
      BY <2>1 DEF Proposal
    <2> HIDE DEF i
    <2> QED
      BY <1>1, <2>3, <2>4
  <1>3. CASE Evaluate(w, k)
    <2> DEFINE i == Do("evaluate", k)
    <2>1. i \in Instructions /\ i.do = "evaluate"
      BY DoFacts
    <2>2. Start(w, <<i>>)
      BY <1>3 DEF Evaluate
    <2> HIDE DEF i
    <2> QED
      BY <1>1, <2>1, <2>2
  <1>4. CASE Reject(w, k)
    <2> DEFINE q == Transition(k, "rejected")
    <2>1. "rejected" \in Statuses
      BY DEF Statuses
    <2>2. /\ q \in Seq(Instructions) /\ Len(q) = 2 /\ Grammar(q, requests) /\ Free(q[1])
          /\ \A n \in 1 .. 2 : /\ q[n].do \in {"check", "write"}
                               /\ q[n].to = "rejected"
      BY <2>1, TransitionProgram
    <2>3. Start(w, q)
      BY <1>4 DEF Reject
    <2> HIDE DEF q
    <2>4. Spared(q, cand, requests)
      BY <2>2 DEF Spared
    <2> QED
      BY <2>2, <2>3, <2>4, StartStep
  <1>5. CASE Approve(w, k)
    <2> DEFINE q == Approval(k)
    <2>1. /\ q \in Seq(Instructions) /\ Grammar(q, requests) /\ Plain(q, k)
          /\ q[1].do = "gate"
      BY ApprovalProgram
    <2>2. Start(w, q)
      BY <1>5 DEF Approve
    <2> HIDE DEF q
    <2>3. Spared(q, cand, requests) /\ Free(q[1])
      BY <2>1, PlainSpared DEF Free
    <2> QED
      BY <2>1, <2>2, <2>3, StartStep
  <1>6. CASE RequestApproval(w, k)
    <2>0. PICK action \in Actions :
             Start(w, <<[Do("request", k) EXCEPT !.to = action, !.version = cand[k].anchor]>>)
      BY <1>6 DEF RequestApproval
    <2> DEFINE i == [Do("request", k) EXCEPT !.to = action, !.version = cand[k].anchor]
    <2>1. Do("request", k) \in Instructions /\ Do("request", k).do = "request"
      BY DoFacts
    <2>2. cand[k].anchor \in Nat
      BY DEF IInv, TypeOK, CandidateRow
    <2>3. i \in Instructions /\ i.do = "request" /\ i.to \in Actions
      BY <2>1, <2>2 DEF Instructions
    <2>4. Start(w, <<i>>)
      BY <2>0
    <2> HIDE DEF i
    <2> QED
      BY <1>1, <2>3, <2>4
  <1> QED
    BY <1>2, <1>3, <1>4, <1>5, <1>6

LEMMA RespondStep ==
    ASSUME IInv, NEW w \in Workers, NEW r \in DOMAIN requests, Respond(w, r)
    PROVE  IInv'
  <1> DEFINE k == requests[r].candidate
  <1>0. TypeOK /\ k \in Contents /\ r \in 0 .. MaxRequests
    <2>1. TypeOK
      BY DEF IInv
    <2>2. r \in 1 .. Len(requests) /\ Len(requests) \in Nat /\ Len(requests) <= MaxRequests
      BY <2>1, LenProperties DEF TypeOK
    <2> QED
      BY <2>1, <2>2, CloseFacts, ConstantsAssumption DEF Answers
  <1>1. ASSUME NEW i \in Instructions, Start(w, <<i>>),
               i.do = "sweep" \/ (i.do = "candidate" /\ i.request = r /\ i.content = k)
        PROVE  IInv'
    <2>1. Fits(i, requests) /\ Free(i)
      BY <1>1 DEF Fits, Free
    <2> DEFINE q == <<i>>
    <2>2. q \in Seq(Instructions) /\ Len(q) = 1 /\ q[1] = i /\ Grammar(q, requests)
      BY <1>1, <2>1, SingleProgram
    <2>3. Start(w, q)
      BY <1>1
    <2> HIDE DEF q
    <2>4. Spared(q, cand, requests)
      BY <1>1, <2>2 DEF Spared
    <2> QED
      BY <2>1, <2>2, <2>3, <2>4, StartStep
  <1> HIDE DEF k
  <1>2. CASE Start(w, <<Do("sweep", k)>>)
    BY <1>0, <1>1, <1>2, DoFacts
  <1>3. CASE Start(w, <<[Do("candidate", k) EXCEPT !.request = r]>>)
    <2> DEFINE i == [Do("candidate", k) EXCEPT !.request = r]
    <2>1. i \in Instructions /\ i.do = "candidate" /\ i.content = k /\ i.request = r
      BY <1>0, DoRequest
    <2>2. Start(w, <<i>>)
      BY <1>3
    <2> HIDE DEF i
    <2> QED
      BY <1>1, <2>1, <2>2
  <1> QED
    BY <1>2, <1>3 DEF Respond, k

LEMMA NextIInv ==
    ASSUME IInv, [Next]_vars PROVE IInv'
  <1>1. ASSUME NEW w \in Workers, Closure(w) PROVE IInv'
    BY <1>1, ReadAnchorStep, InsertCandidateStep, EvaluateContentStep, CheckStep,
       WriteTransitionStep, WritePromotionStep, CreateRequestStep, ReadCandidateStep,
       PublishGateStep, PublishStep, ForkStep, InsertSuccessorStep, CloseRequestStep,
       SweepRequestsStep DEF Closure
  <1>2. ASSUME NEW w \in Workers, Abort(w) PROVE IInv'
    BY <1>2, ReturnStep DEF Abort
  <1>3. CASE UNCHANGED vars
    BY <1>3 DEF vars, IInv, TypeOK, ValidOnly, GrammarInv, TurnsInv, OneLock
  <1> QED
    BY <1>1, <1>2, <1>3, CallStep, RespondStep, ExpireCandidatesStep, CandidateAgesStep,
       RequestAgesStep DEF Next

LEMMA InitIInv ==
    ASSUME Init PROVE IInv
  <1>1. TypeOK
    <2>1. [status |-> "none", old |-> FALSE, anchor |-> 0, weak |-> TRUE] \in CandidateRow
      BY DEF CandidateRow, Statuses
    <2>2. <<>> \in Seq(RequestRow) /\ Len(<<>>) = 0 /\ <<>> \in Seq(Instructions)
      BY EmptySeq
    <2> QED
      BY <2>1, <2>2, ConstantsAssumption DEF Init, TypeOK
  <1>2. ValidOnly
    BY DEF Init, ValidOnly
  <1>3. GrammarInv
    BY EmptyProgram DEF Init, GrammarInv
  <1>4. TurnsInv
    BY DEF Init, TurnsInv, Truthful
  <1> QED
    BY <1>1, <1>2, <1>3, <1>4 DEF IInv

LEMMA IInvInvariant == Spec => []IInv
  BY InitIInv, NextIInv, PTL DEF Spec

----------------------------------------------------------------------------
(* The theorems *)

(***************************************************************************)
(* The rows and the programs keep their schema: every status a closure     *)
(* writes is one a candidate or a request can have, every request a        *)
(* closure names exists.                                                   *)
(***************************************************************************)
THEOREM TypeCorrect == Spec => []TypeOK
  BY IInvInvariant, PTL DEF IInv

(***************************************************************************)
(* For any number of handlers that interleave closure by closure, without  *)
(* any lock: content that evaluate_candidate_content refuses is never      *)
(* drafted, validated or published.                                        *)
(***************************************************************************)
THEOREM ValidCorrect == Spec => []ValidOnly
  BY IInvInvariant, PTL DEF IInv

(***************************************************************************)
(* For any number of handlers that take turns on one mutation_lock and are *)
(* cut off anywhere: a request that respond consumed as approved is of a   *)
(* published candidate, one consumed as rejected of a rejected candidate,  *)
(* one that names a successor of a superseded candidate, and all stay so.  *)
(***************************************************************************)
THEOREM ConsumedCorrect == Spec => []ConsumedMeansDone
  <1>1. IInv => ConsumedMeansDone
    BY DEF IInv, TurnsInv, Truthful, ConsumedMeansDone, Told
  <1> QED
    BY <1>1, IInvInvariant, PTL

(***************************************************************************)
(* Of any number of answers and sweeps that raced past the pending check   *)
(* transition_approval_request records one: a request leaves pending once  *)
(* and its row keeps that status.                                          *)
(***************************************************************************)
THEOREM SingleUseCorrect == Spec => SingleUse
  <1> DEFINE Once == \A r \in DOMAIN requests :
                requests[r].status # "pending" => requests'[r].status = requests[r].status
  <1>1. ASSUME IInv, [Next]_vars PROVE Once
    <2>0. /\ requests \in Seq(RequestRow) /\ DOMAIN requests = 1 .. Len(requests)
          /\ \A r \in DOMAIN requests : requests[r] \in RequestRow
      BY <1>1, RequestRows, LenProperties DEF IInv, TypeOK
    <2>1. CASE requests' = requests
      BY <2>1
    <2>2. ASSUME NEW row \in RequestRow, requests' = Append(requests, row) PROVE Once
      BY <2>0, <2>2, AppendProperties
    <2>3. ASSUME NEW w \in Workers, CreateRequest(w) PROVE Once
      <3> DEFINE i == worker[w][1]
                 row == NewRequest(i, i.to, Root(w), 0)
      <3>1. This(w) = i /\ i \in Instructions /\ i.to \in Actions
        BY <1>1, <2>3, AtHand DEF CreateRequest, At, Fits
      <3>2. requests' = requests \/ requests' = Append(requests, row)
        BY <2>3, <3>1 DEF CreateRequest
      <3>3. row \in RequestRow
        BY <1>1, <3>1, NewRequestRow, RootType DEF Instructions
      <3> HIDE DEF row
      <3> QED
        BY <2>1, <2>2, <3>2, <3>3
    <2>4. ASSUME NEW w \in Workers, InsertSuccessor(w) PROVE Once
      <3> DEFINE i == worker[w][1]
                 r == i.request
                 row == NewRequest(i, requests[r].action, requests[r].root, r)
      <3>1. This(w) = i /\ i \in Instructions /\ r \in DOMAIN requests
        BY <1>1, <2>4, AtHand DEF InsertSuccessor, At, Fits
      <3>2. requests' = Append(requests, row)
        BY <2>4, <3>1 DEF InsertSuccessor
      <3>3. /\ i.content \in Contents /\ i.version \in Nat /\ r \in Nat
            /\ requests[r].action \in Actions /\ requests[r].root \in Workspaces
        BY <2>0, <3>1, ConstantsAssumption DEF Instructions, RequestRow
      <3>4. row \in RequestRow
        BY <3>3, NewRequestRow
      <3> HIDE DEF row
      <3> QED
        BY <2>2, <3>2, <3>4
    <2>5. ASSUME NEW w \in Workers, CloseRequest(w) PROVE Once
      <3> DEFINE q == This(w).request
                 row == [requests[q] EXCEPT !.status = This(w).to]
      <3>1. requests' = IF requests[q].status = "pending" THEN [requests EXCEPT ![q] = row]
                        ELSE requests
        BY <2>5 DEF CloseRequest
      <3> HIDE DEF row, q
      <3> QED
        BY <3>1
    <2>6. ASSUME NEW w \in Workers, SweepRequests(w) PROVE Once
      BY <2>6 DEF SweepRequests
    <2>7. ASSUME NEW q \in DOMAIN requests, RequestAges(q) PROVE Once
      <3> DEFINE age == IF requests[q].age = "fresh" THEN "due" ELSE "past"
                 row == [requests[q] EXCEPT !.age = age]
      <3>1. requests' = [requests EXCEPT ![q] = row] /\ requests[q].status = "pending"
        BY <2>7 DEF RequestAges
      <3> HIDE DEF row
      <3> QED
        BY <3>1
    <2> HIDE DEF Once
    <2>8. ASSUME NEW w \in Workers, Closure(w) PROVE Once
      BY <2>1, <2>3, <2>4, <2>5, <2>6, <2>8 DEF Closure, ReadAnchor, InsertCandidate,
         EvaluateContent, CheckTransition, WriteTransition, CheckPromotion, WritePromotion,
         ReadCandidate, PublishGate, Publish, Fork
    <2>9. ASSUME NEW w \in Workers, NEW k \in Contents,
                 Propose(w, k) \/ Evaluate(w, k) \/ Reject(w, k) \/ Approve(w, k)
                 \/ RequestApproval(w, k)
          PROVE  requests' = requests
      BY <2>9 DEF Propose, Evaluate, Reject, Approve, RequestApproval, Start
    <2>10. ASSUME NEW w \in Workers, NEW r \in DOMAIN requests, Respond(w, r)
           PROVE  requests' = requests
      BY <2>10 DEF Respond, Start
    <2>11. ASSUME NEW w \in Workers, Abort(w) \/ ExpireCandidates(w) PROVE requests' = requests
      BY <2>11 DEF Abort, ExpireCandidates
    <2>12. ASSUME NEW k \in Contents, CandidateAges(k) PROVE requests' = requests
      BY <2>12 DEF CandidateAges
    <2>13. CASE UNCHANGED vars
      BY <2>1, <2>13 DEF vars
    <2> QED
      BY <1>1, <2>1, <2>7, <2>8, <2>9, <2>10, <2>11, <2>12, <2>13 DEF Next
  <1>2. IInv /\ [Next]_vars => [Once]_vars
    BY <1>1
  <1> QED
    BY <1>2, IInvInvariant, PTL DEF Spec, SingleUse

=============================================================================
