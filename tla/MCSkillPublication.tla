------------------------- MODULE MCSkillPublication -------------------------
(* SkillPublication on small instances. *)
EXTENDS SkillPublication, TLC

CONSTANTS c1, c2, c3, c4, ta, tb, tc, l1, l2, w1, w2

\* c1 and c2 share a mutation_lock; c3 is in another server process, c4 in
\* another workspace of the first.
MCProcess == c1 :> 1 @@ c2 :> 1 @@ c3 :> 2 @@ c4 :> 1
MCWorkspace == c1 :> w1 @@ c2 :> w1 @@ c3 :> w1 @@ c4 :> w2

\* Two lineages of the name: one of workspace w1, one global.
MCOwner == l1 :> w1 @@ l2 :> Global

\* Nothing published, one version, two versions.
MCHistories == {<<>>, <<ta>>, <<ta, tb>>}
NoHistory == {<<>>}

MCWeak == {<<l2, tb>>}
NoWeak == {}

Candidated == {k \in Candidates : candidate[k].status # "none"}

\* Two processes race on one lineage; calls of one lock meet two lineages,
\* three candidates and no outsider, or, on one lineage, the published
\* candidate of version 1 and two more that are anchored on it.
Slices ==
    \/ /\ ~OneLock
       /\ \A c \in Calls : call'[c].lineage \in {l1, None}
       /\ Candidated' \subseteq {l1} \X {ta, tb}
       /\ skill'[l2].status = "none"
    \/ /\ OneLock
       /\ edits' = 0
       /\ Cardinality(Candidated') <= 3
       /\ \/ Candidated' \subseteq Lineages \X {ta, tb}
          \/ /\ Candidated' \subseteq {l1} \X Contents
             /\ version[l1] # <<>> /\ version[l1][1].content = ta
             /\ \A c \in Calls : call'[c].lineage \in {l1, None}

\* c1 and c2 are interchangeable.
CallSymmetry == Permutations({c1, c2})
=============================================================================
