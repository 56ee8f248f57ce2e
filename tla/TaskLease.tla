----------------------------- MODULE TaskLease -----------------------------
(***************************************************************************)
(* What the task runtime promises about ownership, without status machine, *)
(* contexts, transactions, events or stale reads: each task has a lease    *)
(* that one worker at a time holds until a deadline.  Ownership passes to  *)
(* another worker only after it was given up or has run out, and then the  *)
(* fence rises; a task that is over is never owned again.                  *)
(***************************************************************************)
EXTENDS Integers

CONSTANTS
    Tasks,    \* the tasks
    Workers,  \* the workers
    Nobody,   \* no owner
    Never,    \* no deadline
    TTL       \* a lease is granted for at most this long

VARIABLES
    now,      \* the time
    lease     \* [Tasks -> [phase, owner, fence, until]]

vars == <<now, lease>>

----------------------------------------------------------------------------
Unowned(phase, fence) == [phase |-> phase, owner |-> Nobody, fence |-> fence, until |-> Never]

Owned(w, fence, until) == [phase |-> "open", owner |-> w, fence |-> fence, until |-> until]

Deadlines == 0 .. now + TTL

Init ==
    /\ now = 0
    /\ lease = [t \in Tasks |-> Unowned("open", 0)]

\* A worker takes a lease that is free, that has run out, or that it holds.
Take(t, w) ==
    LET l == lease[t]
    IN  /\ l.phase = "open"
        /\ l.owner \in {Nobody, w} \/ now >= l.until
        /\ \E u \in Deadlines :
              lease' = [lease EXCEPT ![t] =
                          Owned(w, IF l.owner = w THEN l.fence ELSE l.fence + 1, u)]
        /\ UNCHANGED now

\* The holder renews.
Renew(t) ==
    /\ lease[t].owner # Nobody
    /\ \E u \in Deadlines : lease' = [lease EXCEPT ![t].until = u]
    /\ UNCHANGED now

\* The holder gives the lease back.
Give(t) ==
    /\ lease[t].owner # Nobody
    /\ lease' = [lease EXCEPT ![t] = Unowned("open", @.fence)]
    /\ UNCHANGED now

\* The task is over.
Finish(t) ==
    /\ lease[t].phase = "open"
    /\ lease' = [lease EXCEPT ![t] = Unowned("over", @.fence)]
    /\ UNCHANGED now

Pass ==
    /\ now' = now + 1
    /\ UNCHANGED lease

Next ==
    \/ \E t \in Tasks : \/ \E w \in Workers : Take(t, w)
                        \/ Renew(t)
                        \/ Give(t)
                        \/ Finish(t)
    \/ Pass

Spec == Init /\ [][Next]_vars
=============================================================================
