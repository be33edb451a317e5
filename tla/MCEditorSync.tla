---------------------------- MODULE MCEditorSync ----------------------------
(***************************************************************************)
(* An editor over the models of SmallTables.  Which edits, undos and redos *)
(* (edits), other writers, faults and moves (refetches, changes of         *)
(* project, restores) come together: one edit with another writer and two  *)
(* faults; three edits; two of anything; two edits and a refetch.          *)
(***************************************************************************)
EXTENDS EditorSync, SmallTables

Authors == (Client \cup {Other}) \X (0..MaxEdits)

Moves(s) == s.refetches + s.switches + s.restores
All(s) == s.edits + s.others + s.faults + Moves(s)
MCMixtures ==
    {s \in [Spending -> 0..3] :
        \/ Moves(s) = 0 /\ (s.edits <= 1 \/ s.others + s.faults = 0)
        \/ All(s) <= 2
        \/ s.edits <= 2 /\ All(s) = s.edits + s.refetches}
=============================================================================
