------------------------ MODULE MCEvidenceJournal ------------------------
(* EvidenceJournal for TLC: a cargo workspace of two files and two tests.   *)
EXTENDS EvidenceJournal

Full == [command |-> <<"cargo", "test">>, filter |-> <<>>]
OnlyA == [command |-> <<"cargo", "test", "a">>, filter |-> <<"a">>]
Packaged == [command |-> <<"cargo", "test", "-p", "m", "a">>, filter |-> <<"a">>]

MCMentions == {}
MCInvocations == {Full, OnlyA, Packaged}
MCScope == [i \in MCInvocations |-> IF i = Packaged THEN "m" ELSE "default"]
MCSelects == [i \in MCInvocations |-> IF i = Full THEN {"a", "b"} ELSE {"a"}]

\* Some invocation covers another, and none covers what it does not run.
ASSUME MatchingHolds ==
  MatchingSound /\ \E i, j \in Invocations : i # j /\ Covers(Clamped(i), Clamped(j))

Symmetry == Permutations(Handlers) \cup Permutations(Files) \cup Permutations(Contents)

---------------------------------------------------------------------------
(* The state space is the union of slices, each with its own bounds.        *)

Only(invocations, classes) ==
  /\ \A i \in DOMAIN observed :
        observed[i].invocation \in invocations /\ observed[i].class \in classes
  /\ \A c \in Handlers :
        call[c].invocation \in invocations \cup {None} /\ call[c].class \in classes \cup {None}

OneTree ==
  /\ edits = 0 /\ commits = 0 /\ \A f, g \in Files : work[f] = work[g] /\ work[f] # Absent
Serial == Cardinality({c \in Handlers : call[c].pc # "idle"}) <= 1

\* A recording that falls over the count limit: two handlers at once with two
\* invocations, or one at a time with three; likewise over the age limit; and
\* with the file corrupted.
Gate == /\ OneTree /\ now = 0 /\ corruptions = 0
        /\ \/ Only({Full, OnlyA}, {"success", "compile_error"})
           \/ Serial /\ Only(MCInvocations, {"success", "compile_error"})
Ages == /\ OneTree /\ corruptions = 0 /\ completions = {}
        /\ Only({OnlyA}, {"success", "compile_error"})
Corrupted == /\ OneTree /\ now = 0 /\ Len(observed) <= 2
             /\ Only({Full}, {"success", "compile_error"})

\* One handler at a time while files are edited and committed: two changes
\* around one run, or one change around two runs.
Trees == /\ Serial /\ now = 0 /\ corruptions = 0
         /\ \/ /\ Len(observed) <= 1 /\ edits + commits <= 2
               /\ Only({Full}, {"success"})
            \/ /\ Len(observed) <= 2 /\ edits + commits <= 1 /\ completions = {}
               /\ Only({Full}, {"success", "test_failure"})

Slices == (Gate \/ Ages \/ Corrupted \/ Trees)'
=============================================================================
