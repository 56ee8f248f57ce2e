-------------------------- MODULE MCContextImport --------------------------
(* Two tool calls beside the import of one session, two events and two       *)
(* records.                                                                  *)
EXTENDS ContextImport

CONSTANTS c1, c2

\* An observation without a key, and the ending of the bundle's session, whose
\* key a close here would use as well.
MCBundleEvents ==
    <<[what |-> <<"observed", 0>>, dedup_key |-> NoKey, session_id |-> NoSession],
      [what |-> <<"ended", 0>>, dedup_key |-> <<"session-ended", 0>>, session_id |-> 0]>>

\* A record the devices may share, and what took its place on the other one.
MCBundleRecords ==
    <<[id |-> <<0, 1>>, status |-> "superseded", authority |-> "observed", updated_at |-> 1,
       evidence |-> 1, supersedes |-> NoRecord],
      [id |-> <<0, 2>>, status |-> "active", authority |-> "user_confirmed", updated_at |-> 1,
       evidence |-> 0, supersedes |-> <<0, 1>>]>>

\* An older observation of the user's, a younger one, and a confirmed one.
MCLocalCopies ==
    {Row("local", "active", 0, "observed", <<"local", 0>>, 1, 0, 1),
     Row("local", "active", 2, "observed", <<"local", 0>>, 1, 0, 1),
     Row("local", "active", 0, "user_confirmed", <<"user", 0>>, 0, 0, 1)}
=============================================================================
