------------------------------ MODULE FileMerge -----------------------------
(***************************************************************************)
(* The three-way merge of packages/core/src/file-merge.ts, on the models   *)
(* of ModelOps: what the files had at the last sync (base), what they have *)
(* now (local) and what the server has (server).                           *)
(*                                                                         *)
(* The files do not hold everything: notes and the places of tables are    *)
(* the server's alone.  Here "position" stands for a table's place on the  *)
(* canvas and "origin" for a dictionary entry's source in a shared library *)
(***************************************************************************)
EXTENDS ModelOps

CONSTANT NoPlace   \* the place of a table in the files, and of a new one

(* Every entity is checked against the schema of its kind when it comes    *)
(* from a client or out of a file: it has that kind's fields.              *)
EntityFields ==
    [tableGroup  |-> {"data"},
     domain      |-> {"data", "origin"},
     word        |-> {"data", "origin"},
     term        |-> {"data", "origin", "domainId"},
     customField |-> {"data", "origin"},
     table       |-> {"data", "groupId", "position"},
     column      |-> {"data", "tableId", "domainId"},
     relationship |-> {"data", "parentTableId", "childTableId", "columnMappings"},
     index       |-> {"data", "tableId", "columns"},
     note        |-> {"data"}]
Shaped(model) ==
    \A k \in DOMAIN model : k[1] \in DOMAIN EntityFields /\ DOMAIN model[k] = EntityFields[k[1]]
FromSchemas(model) == WellFormed(model) /\ Shaped(model)

FILE_INVISIBLE_FIELDS == {"position"}
FILE_FIELDS(entity) == DOMAIN entity \ FILE_INVISIBLE_FIELDS
deleteJudgeFields(entity) == FILE_FIELDS(entity) \ {"origin"}

MERGE_KINDS == Range(ENTITY_KINDS) \ {"note"}
MergeKeys(model) == {k \in DOMAIN model : k[1] \in MERGE_KINDS}

fileVisibleModel(model) ==
    [k \in MergeKeys(model) |->
        [f \in DOMAIN model[k] |-> IF f \in FILE_INVISIBLE_FIELDS THEN NoPlace ELSE model[k][f]]]

Same(a, b, fields) == \A f \in fields : a[f] = b[f]

(***************************************************************************)
(* mergeModels: key by key and, where all three have the key, field by     *)
(* field.  The side that did not change gives way to the one that did;     *)
(* what both changed is a conflict and the merge is not used.              *)
(***************************************************************************)
(* The keys one side deleted: to be deleted if the other side left them    *)
(* alone (origins aside), a conflict if not.                               *)
Deleted(base, side) == DOMAIN base \ DOMAIN side
Untouched(base, side, k) == Same(base[k], side[k], deleteJudgeFields(base[k]))
(* A mutated form: a deletion wins over a change.                          *)
DeleteConflicts_None(base, deleter, other, reason) == {}
DeleteConflicts(base, deleter, other, reason) ==
    {[key |-> k, reason |-> reason] :
        k \in {key \in Deleted(base, deleter) \cap DOMAIN other : ~ Untouched(base, other, key)}}

BothAdded(base, local, server) ==
    {[key |-> k, reason |-> "both-added"] :
        k \in {key \in (DOMAIN local \cap DOMAIN server) \ DOMAIN base :
                  ~ Same(local[key], server[key], FILE_FIELDS(local[key]))}}

InAll(base, local, server) == DOMAIN base \cap DOMAIN local \cap DOMAIN server
BothChanged(b, l, s, f) == l[f] # b[f] /\ s[f] # b[f] /\ l[f] # s[f]
FieldConflicts(base, local, server) ==
    {[key |-> k, reason |-> "field"] :
        k \in {key \in InAll(base, local, server) :
                  \E f \in FILE_FIELDS(base[key]) : BothChanged(base[key], local[key], server[key], f)}}

MergedField(b, l, s) == IF l = b THEN s ELSE IF s = b THEN l ELSE s
MergedEntity(b, l, s) ==
    [f \in DOMAIN s |-> IF f \in FILE_INVISIBLE_FIELDS THEN s[f] ELSE MergedField(b[f], l[f], s[f])]

Merged(base, local, server) ==
    LET deletedHere == {k \in Deleted(base, local) \cap DOMAIN server : Untouched(base, server, k)}
        addedHere   == DOMAIN local \ (DOMAIN base \cup DOMAIN server)
    IN  [k \in (DOMAIN server \ deletedHere) \cup addedHere |->
            IF k \in InAll(base, local, server) THEN MergedEntity(base[k], local[k], server[k])
            ELSE IF k \in addedHere THEN local[k] ELSE server[k]]

(* Two ids with one origin, one of which the files brought in: the same    *)
(* shared word taken over here and on the server.                          *)
OriginOf(model, k) ==
    IF k \in DOMAIN model /\ "origin" \in DOMAIN model[k] THEN model[k].origin ELSE None
Introduced(base, local, merged, k) ==
    /\ OriginOf(local, k) = OriginOf(merged, k)
    /\ OriginOf(base, k) # OriginOf(merged, k)

duplicateOriginConflicts(base, local, merged) ==
    {[key |-> k, reason |-> "duplicate-origin"] :
        k \in {key \in DOMAIN merged :
                  /\ OriginOf(merged, key) # None
                  /\ Introduced(base, local, merged, key)
                  /\ \E other \in DOMAIN merged \ {key} :
                        other[1] = key[1] /\ OriginOf(merged, other) = OriginOf(merged, key)}}

mergeModels(base, local, server) ==
    LET merged == Merged(base, local, server)
    IN  [merged    |-> merged,
         conflicts |-> DeleteConflicts(base, local, server, "local-delete")
                         \cup DeleteConflicts(base, server, local, "server-delete")
                         \cup BothAdded(base, local, server)
                         \cup FieldConflicts(base, local, server)
                         \cup duplicateOriginConflicts(base, local, merged)]

(***************************************************************************)
(* pruneDangling: an entity whose owner is gone goes with it - columns     *)
(* first, so that indexes and relationships are judged by what is left -   *)
(* and a reference to a group or a domain that is gone becomes null.       *)
(***************************************************************************)
ColumnsWithTable(model) ==
    Restrict(model, {k \in DOMAIN model :
        k[1] = "column" => Has(model, "table", model[k].tableId)})

IndexHolds(model, index) ==
    /\ Has(model, "table", index.tableId)
    /\ \A c \in index.columns : ColumnIn(model, c, index.tableId)
RelationshipHolds(model, r) ==
    /\ Has(model, "table", r.parentTableId) /\ Has(model, "table", r.childTableId)
    /\ \A m \in r.columnMappings :
          ColumnIn(model, m.child, r.childTableId) /\ ColumnIn(model, m.parent, r.parentTableId)
PartsWithColumns(model) ==
    Restrict(model, {k \in DOMAIN model :
        /\ k[1] = "index" => IndexHolds(model, model[k])
        /\ k[1] = "relationship" => RelationshipHolds(model, model[k])})

LooseReferences == [groupId |-> "tableGroup", domainId |-> "domain"]
WithoutLooseReferences(model) ==
    [k \in DOMAIN model |->
        [f \in DOMAIN model[k] |->
            IF f \in DOMAIN LooseReferences /\ ~ HasOrNone(model, LooseReferences[f], model[k][f])
            THEN None ELSE model[k][f]]]

(* A mutated form: only what has no table any more is pruned.              *)
pruneDangling_ColumnsOnly(model) == WithoutLooseReferences(ColumnsWithTable(model))
pruneDangling(model) == WithoutLooseReferences(PartsWithColumns(ColumnsWithTable(model)))

(***************************************************************************)
(* applyMerge: the visible fields written over the server's own entities,  *)
(* its notes and places left as they are.                                  *)
(***************************************************************************)
WrittenOver(server, merged) ==
    LET notes == KeysOf(server, "note")
        Over(s, m) == [f \in DOMAIN s |-> IF f \in FILE_FIELDS(s) THEN m[f] ELSE s[f]]
    IN  [k \in notes \cup DOMAIN merged |->
            IF k \in notes THEN server[k]
            ELSE IF k \in DOMAIN server THEN Over(server[k], merged[k]) ELSE merged[k]]

applyMerge(server, merged) == pruneDangling(WrittenOver(server, merged))
=============================================================================
