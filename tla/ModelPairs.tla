----------------------------- MODULE ModelPairs -----------------------------
(***************************************************************************)
(* Pairs of models, as an editor makes them: a step edits one entity of    *)
(* the target, keeping it integral, or starts a new edit from where the    *)
(* last one ended.  So the reachable states are all the pairs of integral  *)
(* models over the given entities, and what a diff promises is said of     *)
(* every one of them.                                                      *)
(***************************************************************************)
EXTENDS ModelOps

CONSTANT Entities       \* what an entity may be, for each key there is

ASSUME KindsHaveFields ==
    \A k \in DOMAIN Entities :
        /\ k[1] \in Range(ENTITY_KINDS)
        /\ \A e, f \in Entities[k] : IsFunction(e) /\ DOMAIN e = DOMAIN f
ASSUME ErrorIsNoModel ==
    \A K \in SUBSET DOMAIN Entities : OpApplyError \notin [K -> UNION {Entities[k] : k \in K}]

VARIABLES
    diffBase,     \* the model an edit starts from
    diffTarget    \* the model it makes
diffVars == <<diffBase, diffTarget>>

Neighbours(model) ==
    (UNION {{With(model, k, e) : e \in Entities[k]} : k \in DOMAIN Entities})
    \cup {Without(model, k) : k \in DOMAIN model}

DiffInit == diffBase = EmptyModel /\ diffTarget = EmptyModel
EditTarget ==
    /\ diffTarget' \in {m \in Neighbours(diffTarget) : validateModelIntegrity(m) /\ m # diffTarget}
    /\ UNCHANGED diffBase
Settle == diffBase' = diffTarget /\ diffBase # diffTarget /\ UNCHANGED diffTarget

DiffNext == EditTarget \/ Settle
DiffSpec == DiffInit /\ [][DiffNext]_diffVars
-----------------------------------------------------------------------------
diff == diffModels(diffBase, diffTarget)
KeepsColumnsInPlace(from, to) ==
    \A k \in KeysOf(from, "column") \cap KeysOf(to, "column") : from[k].tableId = to[k].tableId

(* Chunks, sent one request at a time: the model after each of them.       *)
SentUpTo(model, chunks) ==
    LET after[i \in 0..Len(chunks)] == IF i = 0 THEN model ELSE applyOps(after[i-1], chunks[i])
    IN  after

(* Cut into chunks of any size and sent one request at a time, a diff      *)
(* leaves an integral model after every request and ends in its target,    *)
(* unless a column changes its table (the exception data-layer.md states): *)
(* what useSubmit relies on when it cuts one edit at any op, chunks of one *)
(* op being every prefix (chunkOps; diff.ts:8-9).                          *)
ChunksAddUp ==
    KeepsColumnsInPlace(diffBase, diffTarget) =>
        \A size \in 1..3 :
            LET chunks == chunkOps(diff, size)
                after  == SentUpTo(diffBase, chunks)
            IN  /\ \A i \in 1..Len(chunks) : after[i] # OpApplyError /\ validateModelIntegrity(after[i])
                /\ after[Len(chunks)] = diffTarget

(* The rows never violate a foreign key at any statement, also when a      *)
(* column changes its table, so a batch applyOps accepts is a batch the    *)
(* database accepts, and both end in the same model (persistOps).          *)
RowsFollowModel == persistOps(diffBase, diff) = diffTarget

(* A batch computed on one model and accepted on another one is logged     *)
(* with the rows' own from / before, so the logged revision can be rolled  *)
(* back exactly (mutation.ts:36-54; invertOps).  Rows here are any integral *)
(* model that is one edit away from the client's.                          *)
LoggedHistoryRollsBack ==
    \A rows \in {m \in Neighbours(diffBase) : validateModelIntegrity(m)} :
        LET result == applyOps(rows, diff)
            logged == withAuthoritativeHistory(rows, diff)
        IN  result # OpApplyError =>
                /\ applyOps(rows, logged) = result
                /\ applyOps(result, invertOps(logged)) = rows
=============================================================================
