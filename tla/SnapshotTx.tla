----------------------------- MODULE SnapshotTx -----------------------------
(***************************************************************************)
(* What a guarded mutation of files promises, without passes, snapshots,   *)
(* system calls or rollbacks: transactions take turns, and one that ends   *)
(* has given every file it names the content it wants, or has changed      *)
(* nothing but the files it owns up to and one whose write failed.  The    *)
(* store is what the files hold, but for the work of the open transaction. *)
(* Outsiders write any file at any time; what happens to a file they have  *)
(* touched while a transaction is open is the loser's bad luck, as long as *)
(* the transaction names the file.                                         *)
(***************************************************************************)
CONSTANTS
    Files,    \* the files
    Values,   \* whatever a file may hold
    Torn,     \* the value of a file whose write was cut off
    Txs,      \* transactions that will ever be asked for
    NoTx      \* no transaction is open

VARIABLES
    store,    \* [Files -> Values]
    open,     \* the transaction whose turn it is
    touched,  \* files outsiders wrote since it began
    wanted,   \* [Txs -> [Files -> SUBSET Values]]: what it is to write
    fate,     \* [Txs -> how far the transaction is]
    noted     \* [Txs -> files it says it could not put back]

vars == <<store, open, touched, wanted, fate, noted>>

----------------------------------------------------------------------------
\* The files a transaction names.
Named(t) == {f \in Files : wanted[t][f] # {}}

\* What a file may hold when a transaction did not end as it should.
Leftover(t, f) == {store[f], Torn} \cup wanted[t][f]

Init ==
    /\ store \in [Files -> Values]
    /\ open = NoTx /\ touched = {}
    /\ wanted = [t \in Txs |-> [f \in Files |-> {}]]
    /\ fate = [t \in Txs |-> "new"]
    /\ noted = [t \in Txs |-> {}]

Ask(t) ==
    /\ fate[t] = "new"
    /\ fate' = [fate EXCEPT ![t] = "asked"]
    /\ wanted' \in [Txs -> [Files -> SUBSET Values]]
    /\ \A u \in Txs \ {t} : wanted'[u] = wanted[u]
    /\ UNCHANGED <<store, open, touched, noted>>

Begin(t) ==
    /\ fate[t] = "asked"
    /\ open = NoTx
    /\ open' = t
    /\ fate' = [fate EXCEPT ![t] = "open"]
    /\ UNCHANGED <<store, touched, wanted, noted>>

\* The end of a turn: the next transaction finds no file touched.
Close(t) ==
    /\ open = t
    /\ open' = NoTx
    /\ touched' = {}
    /\ UNCHANGED wanted

\* All that was wanted is there, and nothing else has changed.
Commit(t) ==
    /\ Close(t)
    /\ fate' = [fate EXCEPT ![t] = "done"]
    /\ DOMAIN store' = Files
    /\ \A f \in Files :
          IF f \in Named(t) \ touched THEN wanted[t][f] = {store'[f]} ELSE store'[f] = store[f]
    /\ UNCHANGED noted

\* Nothing has changed, but for what could not be put back and is named, and
\* for one file whose write failed.
Undo(t) ==
    /\ Close(t)
    /\ \E cut \in Named(t), left \in SUBSET Named(t) :
          /\ DOMAIN store' = Files
          /\ \A f \in Files :
                \/ store'[f] = store[f]
                \/ f = cut /\ f \notin touched /\ store'[f] = Torn
                \/ f \in left \ touched /\ store'[f] \in Leftover(t, f)
          /\ fate' = [fate EXCEPT ![t] = IF left = {} THEN "undone" ELSE "uncertain"]
          /\ noted' = [noted EXCEPT ![t] = left]

\* The transaction and an outsider write the same file.
Race(t) ==
    /\ open = t
    /\ \E f \in Named(t) \cap touched, v \in Values : store' = [store EXCEPT ![f] = v]
    /\ UNCHANGED <<open, touched, wanted, fate, noted>>

Outside ==
    /\ \E f \in Files, v \in Values :
          /\ store' = [store EXCEPT ![f] = v]
          /\ touched' = IF open = NoTx THEN {} ELSE touched \cup {f}
    /\ UNCHANGED <<open, wanted, fate, noted>>

\* The process ends: what is under way is lost, and the files named by the
\* open transaction hold what they held, what was wanted, or half of it.
Lose ==
    /\ open' = NoTx
    /\ touched' = {}
    /\ fate' = [t \in Txs |-> IF fate[t] \in {"asked", "open"} THEN "lost" ELSE fate[t]]
    /\ DOMAIN store' = Files
    /\ \A f \in Files :
          \/ store'[f] = store[f]
          \/ open # NoTx /\ f \in Named(open) \ touched /\ store'[f] \in Leftover(open, f)
    /\ UNCHANGED <<wanted, noted>>

Next ==
    \/ \E t \in Txs : Ask(t) \/ Begin(t) \/ Commit(t) \/ Undo(t) \/ Race(t)
    \/ Outside
    \/ Lose

Spec == Init /\ [][Next]_vars
=============================================================================
