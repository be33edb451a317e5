---------------------------- MODULE RevisionLog -----------------------------
(***************************************************************************)
(* What the server promises about one project: its model changes only by   *)
(* whole batches, each leaving one more revision, and every revision is    *)
(* announced to the realtime channel at most once, after it is committed.  *)
(* ProjectServer is the detailed specification that implements this one;   *)
(* EditorSync builds the clients on top of it.                             *)
(***************************************************************************)
EXTENDS OpAlgebra

CONSTANT Author     \* who asked for a revision: an edit, a push, a restore

VARIABLES
    rows,           \* the project's model as the model_* tables hold it
    revisions,      \* the revisions table; "result" is a history field: the
                    \* rows right after that revision was committed
    unpublished     \* seqs committed, whose publishOps has not run yet

logVars == <<rows, revisions, unpublished>>

Revision == [ops : Batch, author : Author, result : Model]

currentSeq == Len(revisions)
ModelAt(seq) == IF seq = 0 THEN Empty ELSE revisions[seq].result

LogTypeOK ==
    /\ rows \in Model
    /\ revisions \in Seq(Revision)
    /\ unpublished \subseteq 1..Len(revisions)

LogInit == rows = Empty /\ revisions = << >> /\ unpublished = {}

(* The transaction of runMutation commits: applyOps validated the batch    *)
(* with its authoritative history, persistOps wrote it.                    *)
Acceptable(batch) ==
    /\ Apply(rows, Rewrite(rows, batch)) # Failure
    /\ Persist(rows, Rewrite(rows, batch)) # Failure

Commit(batch, author) ==
    /\ Acceptable(batch)
    /\ rows' = Persist(rows, Rewrite(rows, batch))
    /\ revisions' = Append(revisions,
                       [ops |-> Rewrite(rows, batch), author |-> author, result |-> rows'])
    /\ unpublished' = unpublished \cup {currentSeq + 1}

(* hub.publishOps runs once the commit is acknowledged; two requests whose *)
(* commits are acknowledged together may publish in either order.          *)
Announce(seq) ==
    /\ seq \in unpublished
    /\ unpublished' = unpublished \ {seq}
    /\ UNCHANGED <<rows, revisions>>

(* The process dies between commit and publish.                            *)
ForgetUnpublished ==
    /\ unpublished # {}
    /\ unpublished' = {}
    /\ UNCHANGED <<rows, revisions>>

LogNext ==
    \/ \E b \in Batch, a \in Author : Commit(b, a)
    \/ \E s \in unpublished : Announce(s)
    \/ ForgetUnpublished

LogSpec == LogInit /\ [][LogNext]_logVars
-----------------------------------------------------------------------------
(* The revisions replay: each one, applied to the model of the previous    *)
(* one, gives its own model, and the rows are the model of the last one.   *)
LogReplays ==
    /\ rows = ModelAt(currentSeq)
    /\ \A s \in 1..Len(revisions) : Apply(ModelAt(s - 1), revisions[s].ops) = ModelAt(s)
=============================================================================
