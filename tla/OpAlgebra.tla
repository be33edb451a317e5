----------------------------- MODULE OpAlgebra ------------------------------
(***************************************************************************)
(* What the server and the editor need to know of the op functions of      *)
(* packages/core, and nothing else: a set of integral models, a set of     *)
(* batches, and the functions as operator parameters.  ModelOps defines    *)
(* them; the MC modules put those definitions here, and TLC evaluates the  *)
(* assumptions on them in every run.  MCModelOps checks the same laws over *)
(* a much larger set of models.                                            *)
(***************************************************************************)
EXTENDS Integers, Sequences

CONSTANTS
    Model,          \* integral project models (validateModelIntegrity = [])
    Batch,          \* non-empty op batches
    NoOps,          \* the empty batch
    Empty,          \* createEmptyModel()
    Failure,        \* a thrown OpApplyError or database error
    Apply(_, _),    \* applyOps(model, ops)
    Persist(_, _),  \* persistOps(rows, ops)
    Rewrite(_, _),  \* withAuthoritativeHistory(model, ops)
    Diff(_, _),     \* diffModels(base, target)
    Invert(_),      \* invertOps(ops)
    Chunks(_)       \* chunkOps(ops, MAX_OPS_PER_MUTATION)

(* chunks, applied one after the other, lead from model m to model n.      *)
LeadsTo(m, chunks, n) ==
    \E after \in [0..Len(chunks) -> Model] :
        /\ after[0] = m
        /\ after[Len(chunks)] = n
        /\ \A i \in 1..Len(chunks) : Apply(after[i-1], chunks[i]) = after[i]

ASSUME EmptyLaw == Empty \in Model /\ Failure \notin Model \cup Batch \cup {NoOps} /\ NoOps \notin Batch

(* applyOps is atomic: an integral model or an error.                      *)
ASSUME ApplyLaw ==
    \A m \in Model, b \in Batch : Apply(m, b) \in Model \cup {Failure}

(* The rows a batch leaves are the model applyOps computed for it.         *)
ASSUME PersistLaw ==
    \A m \in Model, b \in Batch :
        Apply(m, b) # Failure /\ Persist(m, b) # Failure => Persist(m, b) = Apply(m, b)

(* Rewriting from / before does not change what a batch does.              *)
ASSUME RewriteLaw ==
    \A m \in Model, b \in Batch : Rewrite(m, b) \in Batch /\ Apply(m, Rewrite(m, b)) = Apply(m, b)

(* Only equal models have an empty diff; otherwise the diff leads from one *)
(* to the other, in one batch and in the chunks the client cuts it into.   *)
ASSUME DiffLaw ==
    \A m, n \in Model : m # n =>
        /\ Diff(m, n) \in Batch
        /\ Apply(m, Diff(m, n)) = n
        /\ Chunks(Diff(m, n)) \in Seq(Batch)
        /\ Chunks(Diff(m, n)) # << >>
        /\ LeadsTo(m, Chunks(Diff(m, n)), n)

(* The inverse of an edit leads back to where the edit was made.           *)
ASSUME InvertLaw ==
    \A m, n \in Model : m # n => Apply(n, Invert(Diff(m, n))) = m

ASSUME SameModelLaw == \A m \in Model : Diff(m, m) = NoOps
=============================================================================
