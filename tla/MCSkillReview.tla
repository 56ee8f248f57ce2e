--------------------------- MODULE MCSkillReview ---------------------------
(* SkillReview on small instances. *)
EXTENDS SkillReview, TLC

Symmetry ==
    UNION {Permutations(S) : S \in {Workers, Workspaces, Processes, Actions, Valid}}

----------------------------------------------------------------------------
(* The state space is the union of slices, each with its own bounds. *)

Touched ==
    {k \in Contents :
        \/ cand[k].status # "none"
        \/ \E w \in Workers : \E i \in DOMAIN worker[w] : worker[w][i].content = k}

Aged ==
    \/ \E k \in Contents : cand[k].old
    \/ \E r \in DOMAIN requests : requests[r].age # "fresh"

\* One handler after the other: two valid candidates; a valid one and a
\* modification that is not; one as time passes.  And handlers of two
\* workspaces on one candidate, valid or not.
Turns == OneLock /\ Touched \subseteq Valid /\ Len(requests) + current <= 3 /\ ~Aged
Invalid == OneLock /\ Cardinality(Touched) <= 2 /\ Len(requests) <= 1 /\ current = 0
Time == OneLock /\ Cardinality(Touched) = 1
Races == ~OneLock /\ Cardinality(Touched) = 1 /\ Len(requests) <= 1 /\ current <= 1

Slices == (Turns \/ Invalid \/ Time \/ Races)'
============================================================================
