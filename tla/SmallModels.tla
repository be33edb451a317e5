----------------------------- MODULE SmallModels ----------------------------
(***************************************************************************)
(* What the numbers of SmallTables stand for: model m is Models[m], batch  *)
(* b is Batches[b], and every table is the function of ModelOps it is      *)
(* named for.                                                              *)
(***************************************************************************)
EXTENDS ModelOps, SmallTables

TableState(v) == [groupId |-> None, data |-> v]
t == <<"table", "t">>
u == <<"table", "u">>
T(m, v) == With(m, t, TableState(v))
U(m) == With(m, u, TableState(1))

Models == << EmptyModel, T(EmptyModel, 1), T(EmptyModel, 2),
             U(EmptyModel), T(U(EmptyModel), 1), T(U(EmptyModel), 2) >>

Plus(k, v)  == CreateOp(k, TableState(v))
Minus(k, v) == DeleteOp(k, TableState(v))
Rename(v, w) == UpdateOp(t, [data |-> [from |-> v, to |-> w]])

Batches == <<
    <<Rename(2, 2)>>, <<Rename(1, 2)>>, <<Plus(t, 2)>>, <<Minus(t, 2)>>,
    <<Minus(t, 1)>>, <<Rename(2, 1)>>, <<Rename(1, 1)>>, <<Plus(t, 1)>>,
    <<Minus(u, 1), Minus(t, 2)>>, <<Minus(u, 1), Minus(t, 1)>>,
    <<Rename(2, 1), Minus(u, 1)>>, <<Rename(1, 1), Minus(u, 1)>>,
    <<Plus(u, 1), Minus(t, 2)>>, <<Plus(u, 1), Minus(t, 1)>>,
    <<Plus(u, 1), Rename(2, 1)>>, <<Plus(u, 1), Rename(1, 1)>>,
    <<Plus(t, 1), Minus(u, 1)>>, <<Plus(t, 1), Plus(u, 1)>>,
    <<Minus(u, 1)>>, <<Plus(u, 1)>>,
    <<Rename(2, 2), Minus(u, 1)>>, <<Rename(1, 2), Minus(u, 1)>>,
    <<Plus(t, 2), Minus(u, 1)>>, <<Plus(t, 2), Plus(u, 1)>>,
    <<Plus(u, 1), Rename(2, 2)>>, <<Plus(u, 1), Rename(1, 2)>> >>

(* The batches the runs can meet: an edit, its inverse, the chunks of      *)
(* both, and each of them as the server logs it.                           *)
BatchSet ==
    LET models == Range(Models)
        diffs  == {diffModels(m, n) : m, n \in models} \ {<< >>}
        whole  == diffs \cup {invertOps(b) : b \in diffs}
        posted == whole \cup UNION {{<<b[i]>> : i \in DOMAIN b} : b \in whole}
    IN  posted \cup {withAuthoritativeHistory(m, b) : m \in models, b \in posted}

(* Batches that apply to some of the models and never leave them.          *)
ClosedOn(S) ==
    {b \in DOMAIN Batches :
        LET ends == {applyOps(Models[m], Batches[b]) : m \in S} \ {OpApplyError}
        IN  ends # {} /\ ends \subseteq {Models[m] : m \in S}}

ASSUME BatchesAreClosed ==
    /\ Range(Batches) = BatchSet
    /\ FullBatch = DOMAIN Batches
    /\ RenameBatch = ClosedOn(RenameModel)
    /\ PairBatch = ClosedOn(PairModel)

Meant(list, i) == IF i = 0 THEN OpApplyError ELSE list[i]
Edit(b) == IF b = 0 THEN << >> ELSE Batches[b]

ASSUME TablesAreModelOps ==
    /\ \A m \in FullModel, b \in FullBatch :
          /\ applyOps(Models[m], Batches[b]) = Meant(Models, ApplyTable[m][b])
          /\ persistOps(Models[m], Batches[b]) = Meant(Models, PersistTable[m][b])
          /\ withAuthoritativeHistory(Models[m], Batches[b]) = Batches[RewriteTable[m][b]]
    /\ \A m, n \in FullModel : diffModels(Models[m], Models[n]) = Edit(DiffTable[m][n])
    /\ \A b \in FullBatch :
          /\ invertOps(Batches[b]) = Batches[InvertTable[b]]
          /\ chunkOps(Batches[b], 1)                   \* MAX_OPS_PER_MUTATION
                = [i \in DOMAIN ChunkTable[b] |-> Batches[ChunkTable[b][i]]]
=============================================================================
