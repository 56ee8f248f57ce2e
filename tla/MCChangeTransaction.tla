------------------------ MODULE MCChangeTransaction ------------------------
(* ChangeTransaction on small instances. *)
EXTENDS ChangeTransaction

Arrived == {c \in Calls : call[c].pc # "idle"}

\* One call of any shape beside an outsider's edit or a crash, or several calls
\* that each change one and the same file while no outsider writes.  Only
\* arrivals, outsiders and crashes are cut off, and none of them is fair.
Slices ==
    \/ Cardinality(Arrived') <= 1 /\ edits' + crashes' <= 1
    \/ /\ edits' = 0
       /\ \A c, d \in Arrived' : Len(call'[c].requests) = 1
              /\ call'[c].requests[1].path = call'[d].requests[1].path
============================================================================
