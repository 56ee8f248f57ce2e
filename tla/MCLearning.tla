---------------------------- MODULE MCLearning ----------------------------
(* Learning on small instances. *)
EXTENDS Learning, TLC

Symmetry == Permutations(Workers) \cup Permutations(Workspaces)

----------------------------------------------------------------------------
(* The state space is the union of slices, each with its own bounds. *)

\* Events, seconds and expiry fall between handlers, not into them.
Quiet ==
    Running # {} => /\ support' = support /\ contra' = contra /\ now' = now
                    /\ cand'.old => cand.old

\* Handlers in turn, any of them cut off; and handlers of two workspaces at
\* once.  Records are removed where there are few of them.
Kept == \A r \in DOMAIN records' : records'[r].status # "removed"
Turns ==
    /\ OneLock' /\ (Len(records') <= 2 \/ (support' <= 1 /\ contra' <= 1 /\ Kept))
    /\ missed' > 0 => support' <= 1 /\ contra' <= 1
Races ==
    /\ ~OneLock /\ ~cut' /\ missed' = 0 /\ now' = 0 /\ support' <= 1 /\ contra' <= 1
    /\ Len(records') <= 2 /\ Kept

Slices == Quiet /\ (Turns \/ Races)
============================================================================
