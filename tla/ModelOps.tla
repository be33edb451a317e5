------------------------------ MODULE ModelOps ------------------------------
(***************************************************************************)
(* The pure op algebra of packages/core: a project model, the ops that     *)
(* change it, and the four functions every other part of the system is     *)
(* built on - applyOps (op.ts), diffModels (diff.ts), invertOps            *)
(* (invert.ts), validateModelIntegrity (integrity.ts) - together with the  *)
(* two server functions that see the same ops: withAuthoritativeHistory    *)
(* (mutation.ts) and persistOps (model-store.ts).                          *)
(*                                                                         *)
(* A model is a partial function from keys to entities.  A key is a pair   *)
(* <<kind, id>>, so DOMAIN model is "the entities the model has".  An      *)
(* entity is a record of its fields: the references by their own names,    *)
(* everything else folded into one field "data".  "id" is the key's second *)
(* component, which is why "key # id" and "changes id" cannot be written   *)
(* down here.                                                              *)
(***************************************************************************)
EXTENDS Integers, FiniteSets, SequencesExt

CONSTANTS None,     \* the null of a nullable reference
          OpApplyError   \* what a function returns where the code throws

(* Parents first: diffModels creates in this order and deletes in reverse. *)
ENTITY_KINDS == << "tableGroup", "domain", "word", "term", "customField",
                   "table", "column", "relationship", "index", "note" >>

EmptyModel == [k \in {} |-> None]

KeysOf(model, kind) == {k \in DOMAIN model : k[1] = kind}
Has(model, kind, id) == <<kind, id>> \in DOMAIN model
HasOrNone(model, kind, id) == id = None \/ Has(model, kind, id)

(* What every model is: finitely many entities of the kinds there are,     *)
(* each with its fields.  Entities of one id have the fields of their kind *)
IsFunction(f) == f = [x \in DOMAIN f |-> f[x]]
WellFormed(model) ==
    /\ IsFunction(model) /\ IsFiniteSet(DOMAIN model)
    /\ \A k \in DOMAIN model : k[1] \in Range(ENTITY_KINDS) /\ IsFunction(model[k])
SameFields(model, other) ==
    \A k \in DOMAIN model \cap DOMAIN other : DOMAIN model[k] = DOMAIN other[k]

(***************************************************************************)
(* validateModelIntegrity(model) = []: no dangling reference, and every    *)
(* column a relationship or an index names belongs to the table on that    *)
(* side of it.                                                             *)
(***************************************************************************)
ColumnIn(model, columnId, tableId) ==
    /\ Has(model, "column", columnId)
    /\ model[<<"column", columnId>>].tableId = tableId

GroupRefsHold(model) ==
    \A k \in KeysOf(model, "table") : HasOrNone(model, "tableGroup", model[k].groupId)

TableRefsHold(model) ==
    /\ \A k \in KeysOf(model, "column") : Has(model, "table", model[k].tableId)
    /\ \A k \in KeysOf(model, "index")  : Has(model, "table", model[k].tableId)
    /\ \A k \in KeysOf(model, "relationship") :
          /\ Has(model, "table", model[k].parentTableId)
          /\ Has(model, "table", model[k].childTableId)

DomainRefsHold(model) ==
    \A k \in KeysOf(model, "column") \cup KeysOf(model, "term") :
        HasOrNone(model, "domain", model[k].domainId)

ColumnRefsHold(model) ==
    /\ \A k \in KeysOf(model, "relationship") : \A m \in model[k].columnMappings :
          /\ ColumnIn(model, m.child,  model[k].childTableId)
          /\ ColumnIn(model, m.parent, model[k].parentTableId)
    /\ \A k \in KeysOf(model, "index") : \A c \in model[k].columns :
          ColumnIn(model, c, model[k].tableId)

validateModelIntegrity(model) ==
    /\ GroupRefsHold(model)
    /\ TableRefsHold(model)
    /\ DomainRefsHold(model)
    /\ ColumnRefsHold(model)

(***************************************************************************)
(* Ops.  from / before are a record of what was replaced: applyOps never   *)
(* looks at them, invertOp lives off them.                                 *)
(***************************************************************************)
CreateOp(key, data)    == [action |-> "create", key |-> key, data |-> data]
UpdateOp(key, changes) == [action |-> "update", key |-> key, changes |-> changes]
DeleteOp(key, before)  == [action |-> "delete", key |-> key, before |-> before]

Without(model, key) == [k \in DOMAIN model \ {key} |-> model[k]]
With(model, key, entity) ==
    [k \in DOMAIN model \cup {key} |-> IF k = key THEN entity ELSE model[k]]

(* An entity after the "to" side of a changes record is written over it.   *)
Patched(entity, changes) ==
    [p \in DOMAIN entity |-> IF p \in DOMAIN changes THEN changes[p].to ELSE entity[p]]

Applicable(model, op) ==
    IF op.action = "create" THEN op.key \notin DOMAIN model ELSE op.key \in DOMAIN model

ApplyOp(model, op) ==
    CASE op.action = "create" -> With(model, op.key, op.data)
      [] op.action = "update" -> With(model, op.key, Patched(model[op.key], op.changes))
      [] op.action = "delete" -> Without(model, op.key)

(* The loop of applyOps without its final check: the model after each op,  *)
(* or OpApplyError from the first op that does not apply.                       *)
AppliedUpTo(model, ops) ==
    LET after[i \in 0..Len(ops)] ==
          IF i = 0 THEN model
          ELSE IF after[i-1] = OpApplyError \/ ~ Applicable(after[i-1], ops[i]) THEN OpApplyError
          ELSE ApplyOp(after[i-1], ops[i])
    IN  after

(* Atomic batch: integrity is judged once, after the last op.              *)
applyOps(model, ops) ==
    LET result == AppliedUpTo(model, ops)[Len(ops)]
    IN  IF result # OpApplyError /\ validateModelIntegrity(result) THEN result ELSE OpApplyError

(***************************************************************************)
(* diffModels(base, target): creates parents first, then updates, then     *)
(* deletes children first.                                                 *)
(***************************************************************************)
ChangedFields(old, new) == {p \in DOMAIN new : old[p] # new[p]}
Changes(old, new) ==
    [p \in ChangedFields(old, new) |-> [from |-> old[p], to |-> new[p]]]

(* The keys of K, kind after kind in ENTITY_KINDS order.                    *)
InKindOrder(K) ==
    FlattenSeq([i \in 1..Len(ENTITY_KINDS) |-> SetToSeq({k \in K : k[1] = ENTITY_KINDS[i]})])

Creates(base, target) ==
    LET keys == InKindOrder(DOMAIN target \ DOMAIN base)
    IN  [i \in DOMAIN keys |-> CreateOp(keys[i], target[keys[i]])]
Updates(base, target) ==
    LET keys == InKindOrder({k \in DOMAIN target \cap DOMAIN base :
                                ChangedFields(base[k], target[k]) # {}})
    IN  [i \in DOMAIN keys |-> UpdateOp(keys[i], Changes(base[keys[i]], target[keys[i]]))]
Deletes(base, target) ==
    LET keys == Reverse(InKindOrder(DOMAIN base \ DOMAIN target))
    IN  [i \in DOMAIN keys |-> DeleteOp(keys[i], base[keys[i]])]

(* A mutated form: deletes not reversed.                                   *)
diffModels_ParentsDeletedFirst(base, target) ==
    Creates(base, target) \o Updates(base, target) \o Reverse(Deletes(base, target))

diffModels(base, target) ==
    Creates(base, target) \o Updates(base, target) \o Deletes(base, target)

(***************************************************************************)
(* invertOps: each op inverted, in reverse order.                          *)
(***************************************************************************)
invertOp(op) ==
    CASE op.action = "create" -> DeleteOp(op.key, op.data)
      [] op.action = "delete" -> CreateOp(op.key, op.before)
      [] op.action = "update" ->
            UpdateOp(op.key, [p \in DOMAIN op.changes |->
                                 [from |-> op.changes[p].to, to |-> op.changes[p].from]])

invertOps(ops) == [i \in 1..Len(ops) |-> invertOp(ops[Len(ops) + 1 - i])]

(***************************************************************************)
(* withAuthoritativeHistory(model, ops): from / before rewritten with what *)
(* the locked rows hold.  Every op of the batch is compared with the rows  *)
(* as they were BEFORE the batch.                                          *)
(***************************************************************************)
(* A mutated form: only deletes are rewritten.                             *)
withAuthoritativeHistory_DeletesOnly(model, ops) ==
    [i \in 1..Len(ops) |->
        IF ops[i].action = "delete" /\ ops[i].key \in DOMAIN model
        THEN DeleteOp(ops[i].key, model[ops[i].key]) ELSE ops[i]]

withAuthoritativeHistory(model, ops) ==
    [i \in 1..Len(ops) |->
        LET op == ops[i]
        IN  CASE op.key \notin DOMAIN model \/ op.action = "create" -> op
              [] op.action = "delete" /\ op.key \in DOMAIN model -> DeleteOp(op.key, model[op.key])
              [] op.action = "update" /\ op.key \in DOMAIN model ->
                    UpdateOp(op.key, [p \in DOMAIN op.changes |->
                        [from |-> model[op.key][p], to |-> op.changes[p].to]])]

(***************************************************************************)
(* persistOps(rows, ops): the same batch as row statements.  The tables    *)
(* have immediate foreign keys (apps/server/src/db/schema.ts), so the rows *)
(* are checked after EVERY statement; a violation aborts the transaction.  *)
(* Column lists of relationships and indexes are jsonb: no key guards them.*)
(***************************************************************************)
ForeignKeysHold(rows) == GroupRefsHold(rows) /\ TableRefsHold(rows) /\ DomainRefsHold(rows)

(* INSERT of a taken id fails; UPDATE and DELETE of no row do nothing.     *)
Statement(rows, op) ==
    CASE Applicable(rows, op) -> ApplyOp(rows, op)
      [] ~ Applicable(rows, op) /\ op.action = "create" -> OpApplyError
      [] OTHER -> rows

persistOps(rows, ops) ==
    LET after[i \in 0..Len(ops)] ==
          IF i = 0 THEN rows
          ELSE IF after[i-1] = OpApplyError THEN OpApplyError
          ELSE LET next == Statement(after[i-1], ops[i])
               IN  IF next # OpApplyError /\ ForeignKeysHold(next) THEN next ELSE OpApplyError
    IN  after[Len(ops)]

(***************************************************************************)
(* chunkOps(ops, size): the web client's cut of one edit into requests.    *)
(***************************************************************************)
CeilDiv(a, b) == (a + b - 1) \div b

(* A mutated form: the last, shorter chunk is dropped.                     *)
chunkOps_FullChunksOnly(ops, size) ==
    [i \in 1..(Len(ops) \div size) |-> SubSeq(ops, (i-1) * size + 1, i * size)]

chunkOps(ops, size) ==
    [i \in 1..CeilDiv(Len(ops), size) |->
        SubSeq(ops, (i-1) * size + 1, IF i * size < Len(ops) THEN i * size ELSE Len(ops))]
=============================================================================
