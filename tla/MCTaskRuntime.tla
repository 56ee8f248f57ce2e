--------------------------- MODULE MCTaskRuntime ---------------------------
(* TaskRuntime on small instances. *)
EXTENDS TaskRuntime, FiniteSets, TLC

\* One task whose lease expires under two processes: every operation.  TLC
\* checks the states and steps that leave a slice as well, before it drops
\* them, so histories of five events are looked at.
Leases(t) == Len(log[t]) <= 4

\* One task that is validated, taken over or failed once, and validated again,
\* to the bounds of the cfg: such a completion is the eighth event.
Completions(t) ==
    /\ tasks[t].version = Len(log[t]) - 1
    /\ \A i \in DOMAIN log[t] :
          log[t][i].kind \in {"created", "started", "resumed", "completed",
              "validation_started", "validation_passed", "validation_failed"}
    /\ Cardinality({i \in DOMAIN log[t] :
          log[t][i].kind \in {"resumed", "validation_failed"}}) <= 1

OneTask ==
    /\ sessions = <<>>
    /\ \E t \in TaskIds :
          /\ \A u \in TaskIds \ {t} : tasks[u].status = "absent"
          /\ tasks[t].key = NoKey
          /\ Leases(t) \/ Completions(t)
          /\ \A i \in DOMAIN log[t] : log[t][i].key = NoKey

\* Two tasks, keys, sessions opened twice or closed under a call; short logs.
Sessions ==
    /\ clock = 0
    /\ \A t \in TaskIds : tasks[t].version <= 1
    /\ \A t, u \in TaskIds : t # u => Len(log[t]) + Len(log[u]) <= 3
    /\ \E w \in Workers : \A t \in TaskIds : \A i \in DOMAIN log[t] : log[t][i].by = w

\* Only steps that stay in one of the slices are taken.
Slices == (OneTask \/ Sessions)'

Symmetry == Permutations(Workers) \cup Permutations(TaskIds)
============================================================================
