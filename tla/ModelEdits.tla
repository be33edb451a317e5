----------------------------- MODULE ModelEdits -----------------------------
(***************************************************************************)
(* The edits of a project model: the producers the editor hands to its     *)
(* mutation chain (packages/core relationship.ts, group.ts, table-index.ts *)
(* and apps/web editor/*-edits.ts, edges.ts), each a function of the       *)
(* newest model.  What the user was shown when he started an edit - the    *)
(* ids of a connection or a junction, a propagation he has to confirm, a   *)
(* clipboard - is a plan made on an earlier model; other edits, his own    *)
(* queued ones and his peers', may come in between.                        *)
(*                                                                         *)
(* Ids are numbers: newId() counts.  Of a column's two names the logical   *)
(* one is kept, of its type the domain; a name that gets a suffix because  *)
(* it is taken is a name nobody else has.  A throw is OpApplyError.        *)
(***************************************************************************)
EXTENDS ModelOps

CONSTANTS Names,      \* the names a user may type
          Starts,     \* the models a session may start from
          FirstNewId, \* above every id of theirs
          MaxEdits    \* bound: edits of one session

(* A model of the editor: every entity has the fields of its kind, a column *)
(* its place in the table; ids are numbers.                                *)
FieldsOf(kind) ==
    CASE kind = "table"  -> {"groupId", "name"}
      [] kind = "column" -> {"tableId", "domainId", "isPk", "order", "name"}
      [] kind = "relationship" -> {"parentTableId", "childTableId", "identifying", "columnMappings"}
      [] kind = "index"  -> {"tableId", "columns"}
      [] kind = "term"   -> {"name", "domainId"}
      [] OTHER           -> {"data"}
IsEntity(kind, e) ==
    /\ kind \in Range(ENTITY_KINDS) /\ IsFunction(e) /\ DOMAIN e = FieldsOf(kind)
    /\ kind = "column" => e.order \in Int
WellTyped(m, ids) ==
    /\ IsFunction(m) /\ IsFiniteSet(DOMAIN m)
    /\ \A k \in DOMAIN m : k = <<k[1], k[2]>> /\ k[2] \in ids /\ IsEntity(k[1], m[k])

(* The editor makes no relationship without a mapping, and removes the one *)
(* that loses its last.                                                    *)
Mapped(m) == \A k \in KeysOf(m, "relationship") : m[k].columnMappings # {}

ASSUME SessionsStartWhole ==
    /\ FirstNewId \in Nat
    /\ \A m \in Starts : WellTyped(m, 0..(FirstNewId - 1)) /\ validateModelIntegrity(m) /\ Mapped(m)

VARIABLES model,    \* the loaded project's model
          plan,     \* what the user was shown and has not confirmed yet
          nextId,   \* what newId() gives next
          edits,    \* edits made
          refused   \* an edit was refused though all it names was there
vars == <<model, plan, nextId, edits, refused>>

Ids(m, kind) == {k[2] : k \in KeysOf(m, kind)}
Col(m, c)    == m[<<"column", c>>]
Rel(m, r)    == m[<<"relationship", r>>]
ColumnsOf(m, table) == {c \in Ids(m, "column") : Col(m, c).tableId = table}
PkColumns(m, table) == {c \in ColumnsOf(m, table) : Col(m, c).isPk}
InOrder(m, columns) ==
    CHOOSE s \in [1..Cardinality(columns) -> columns] :
        \A i, j \in DOMAIN s : i < j => s[i] # s[j] /\ Col(m, s[i]).order <= Col(m, s[j]).order
ChildColumns(r) == {x.child : x \in r.columnMappings}
Ends(r) == {r.parentTableId, r.childTableId}

Put(m, entities) ==
    [k \in DOMAIN m \cup DOMAIN entities |-> IF k \in DOMAIN entities THEN entities[k] ELSE m[k]]
Drop(m, keys) == [k \in DOMAIN m \ keys |-> m[k]]
Keys(kind, ids) == {<<kind, i>> : i \in ids}

NextOrder(m, table) ==
    IF ColumnsOf(m, table) = {} THEN 0 ELSE Max({Col(m, c).order : c \in ColumnsOf(m, table)}) + 1

SuffixOf(id) == 100 + id
UniqueName(name, used, id) == IF name \in used THEN SuffixOf(id) ELSE name
NamesIn(m, columns) == {Col(m, c).name : c \in columns}

(***************************************************************************)
(* Relationships.                                                          *)
(***************************************************************************)
(* A foreign key column for each of the parent's key columns, in order.    *)
Related(m, pks, parent, child, id, ids, identifying) ==
    LET columns == [k \in {<<"column", ids[i]>> : i \in DOMAIN pks} |->
            LET i == CHOOSE i \in DOMAIN pks : ids[i] = k[2]
                used == NamesIn(m, ColumnsOf(m, child) \cup {pks[j] : j \in 1..(i-1)})
            IN  [tableId |-> child, domainId |-> None, isPk |-> identifying,
                 order |-> NextOrder(m, child) + i - 1, name |-> UniqueName(Col(m, pks[i]).name, used, ids[i])]]
    IN  With(Put(m, columns), <<"relationship", id>>,
             [parentTableId |-> parent, childTableId |-> child, identifying |-> identifying,
              columnMappings |-> {[child |-> ids[i], parent |-> pks[i]] : i \in DOMAIN pks}])

createRelationshipFromParentPk(m, parent, child, id, ids, identifying) ==
    LET pks == InOrder(m, PkColumns(m, parent))
    IN  IF ~ {parent, child} \subseteq Ids(m, "table") \/ pks = << >> THEN m
        ELSE IF Len(ids) < Len(pks) THEN OpApplyError
        ELSE Related(m, pks, parent, child, id, ids, identifying)

MappedOrIndexed(m, c) ==
    \/ \E r \in Ids(m, "relationship") : \E x \in Rel(m, r).columnMappings : c \in {x.child, x.parent}
    \/ \E i \in KeysOf(m, "index") : c \in m[i].columns

(* Mutated form: the column that was mapped before always goes.            *)
Unneeded_Always(m, c) == {<<"column", c>>}

(* The column that was mapped before goes, unless something else uses it.  *)
Unneeded(m, c) == IF MappedOrIndexed(m, c) THEN {} ELSE {<<"column", c>>}

remapRelationshipChildColumn(m, r, parentColumn, new) ==
    LET rel == Rel(m, r)
        old == {x \in rel.columnMappings : x.parent = parentColumn}
    IN  IF <<"relationship", r>> \notin DOMAIN m THEN m
        ELSE IF old = {} \/ new \notin ColumnsOf(m, rel.childTableId) THEN m
        ELSE LET was == (CHOOSE x \in old : TRUE).child
                 next == [m EXCEPT ![<<"column", new>>].isPk = rel.identifying,
                                   ![<<"relationship", r>>].columnMappings =
                                        (@ \ old) \cup {[child |-> new, parent |-> parentColumn]}]
             IN  IF was = new THEN m ELSE Drop(next, Unneeded(next, was))

setRelationshipIdentifying(m, r, identifying) ==
    IF <<"relationship", r>> \notin DOMAIN m THEN m
    ELSE [Put(m, [k \in Keys("column", ChildColumns(Rel(m, r))) |-> [m[k] EXCEPT !.isPk = identifying]])
             EXCEPT ![<<"relationship", r>>].identifying = identifying]

deleteRelationship(m, r) == Drop(m, {<<"relationship", r>>})

deleteTableCascade(m, t) ==
    Drop(m, {<<"table", t>>} \cup Keys("column", ColumnsOf(m, t))
            \cup {k \in KeysOf(m, "index") : m[k].tableId = t}
            \cup {k \in KeysOf(m, "relationship") : t \in Ends(m[k])})

(* Mappings and index columns go with the column; what is left without     *)
(* any goes too.                                                           *)
deleteColumnCascade(m, c) ==
    LET mapped(k) == {x \in m[k].columnMappings : c \notin {x.child, x.parent}}
        touched == {k \in KeysOf(m, "index") : c \in m[k].columns}
                   \cup {k \in KeysOf(m, "relationship") : mapped(k) # m[k].columnMappings}
        without == [k \in touched |-> IF k[1] = "index" THEN [m[k] EXCEPT !.columns = @ \ {c}]
                                      ELSE [m[k] EXCEPT !.columnMappings = mapped(k)]]
        empty == {k \in KeysOf(m, "relationship") : mapped(k) = {}}
                 \cup {k \in touched : k[1] = "index" /\ m[k].columns = {c}}
    IN  Drop(Put(m, without), empty \cup {<<"column", c>>})

(* Mutated form: the key is counted with the columns that will go.         *)
KeyLeft_Counted(m, rel) == PkColumns(m, rel.childTableId)

KeyLeft(m, rel) == PkColumns(m, rel.childTableId) \ ChildColumns(rel)

Downstream(m, r) ==
    \E other \in Ids(m, "relationship") \ {r} :
        \E x \in Rel(m, other).columnMappings : x.parent \in ChildColumns(Rel(m, r))

Resolvable(m, r) ==
    /\ r \in Ids(m, "relationship") /\ ~ Rel(m, r).identifying
    /\ Ends(Rel(m, r)) \subseteq Ids(m, "table")
    /\ PkColumns(m, Rel(m, r).parentTableId) # {} /\ KeyLeft(m, Rel(m, r)) # {}
    /\ ~ Downstream(m, r)

resolveManyToMany(m, r, junction, group, a, b) ==
    IF ~ Resolvable(m, r) THEN m
    ELSE LET rel == Rel(m, r)
             freed == FoldSet(LAMBDA c, acc : deleteColumnCascade(acc, c), m, ChildColumns(rel))
             table == With(freed, <<"table", junction>>, [groupId |-> group, name |-> SuffixOf(junction)])
             first == createRelationshipFromParentPk(table, rel.parentTableId, junction, a.id, a.ids, TRUE)
         IN  IF first = OpApplyError THEN OpApplyError
             ELSE createRelationshipFromParentPk(first, rel.childTableId, junction, b.id, b.ids, TRUE)

(***************************************************************************)
(* The other edits.                                                        *)
(***************************************************************************)
addTable(m, id) == With(m, <<"table", id>>, [groupId |-> None, name |-> SuffixOf(id)])
addColumn(m, t, id) ==
    With(m, <<"column", id>>, [tableId |-> t, domainId |-> None, isPk |-> FALSE,
                               order |-> NextOrder(m, t), name |-> SuffixOf(id)])
updateColumn(m, c, field, value) == [m EXCEPT ![<<"column", c>>][field] = value]

(* The order is swapped with the column above or below.                    *)
reorderColumn(m, c, dir) ==
    LET columns == InOrder(m, ColumnsOf(m, Col(m, c).tableId))
        at == CHOOSE i \in DOMAIN columns : columns[i] = c
    IN  IF at + dir \notin DOMAIN columns THEN m
        ELSE [m EXCEPT ![<<"column", c>>].order = Col(m, columns[at + dir]).order,
                       ![<<"column", columns[at + dir]>>].order = Col(m, c).order]

usageOf(m, d) == {c \in Ids(m, "column") : Col(m, c).domainId = d}
TermsOf(m, d) == {k \in KeysOf(m, "term") : m[k].domainId = d}
removeDomain(m, d) == IF usageOf(m, d) # {} THEN OpApplyError ELSE Drop(m, {<<"domain", d>>})

setTableGroup(m, t, g) ==
    IF HasOrNone(m, "tableGroup", g) THEN [m EXCEPT ![<<"table", t>>].groupId = g] ELSE m
deleteGroup(m, g) ==
    LET members == {k \in KeysOf(m, "table") : m[k].groupId = g}
    IN  Drop(Put(m, [k \in members |-> [m[k] EXCEPT !.groupId = None]]), {<<"tableGroup", g>>})

createIndex(m, t, id, columns) ==
    IF Has(m, "table", t) THEN With(m, <<"index", id>>, [tableId |-> t, columns |-> columns]) ELSE m

(* What is copied names a column's domain, not its id, and a table's own   *)
(* columns by position.  (domainIdByName: a domain nobody has any more     *)
(* becomes none.)                                                          *)
Pasted(m, t, c, order, id) ==
    [c EXCEPT !.tableId = t, !.order = order,
              !.domainId = IF HasOrNone(m, "domain", c.domainId) THEN c.domainId ELSE None]
pasteColumns(m, columns, t, ids) ==
    IF ~ Has(m, "table", t) THEN m
    ELSE Put(m, [k \in Keys("column", Range(ids)) |->
            LET i == CHOOSE i \in DOMAIN ids : ids[i] = k[2]
                used == NamesIn(m, ColumnsOf(m, t)) \cup {columns[j].name : j \in 1..(i-1)}
            IN  [Pasted(m, t, columns[i], NextOrder(m, t) + i - 1, k[2])
                    EXCEPT !.isPk = FALSE, !.name = UniqueName(@, used, k[2])]])
pasteTable(m, copy, t, ids, indexIds) ==
    LET columns == [k \in Keys("column", Range(ids)) |->
            LET i == CHOOSE i \in DOMAIN ids : ids[i] = k[2] IN Pasted(m, t, copy.columns[i], i - 1, k[2])]
        indexes == [k \in Keys("index", Range(indexIds)) |->
            [tableId |-> t, columns |-> {ids[i] : i \in copy.indexes[CHOOSE j \in DOMAIN indexIds : indexIds[j] = k[2]]}]]
    IN  With(Put(Put(m, columns), indexes), <<"table", t>>, [groupId |-> None, name |-> SuffixOf(t)])

(***************************************************************************)
(* Changing a term and what bears its name.                                *)
(***************************************************************************)
PropagationOf(m, c, old, new) ==
    {x \in {[field |-> "name", before |-> Col(m, c).name, after |-> new.name],
            [field |-> "domainId", before |-> Col(m, c).domainId, after |-> new.domainId]} :
        x.after # old[x.field] /\ x.after # None /\ x.after # x.before}
planTermPropagation(m, term, new) ==
    LET old == m[<<"term", term>>]
        uses == {c \in Ids(m, "column") : Col(m, c).name = old.name}
    IN  {e \in {[column |-> c, changes |-> PropagationOf(m, c, old, new)] : c \in uses} : e.changes # {}}

(* Mutated form: a column that was changed meanwhile is written over.      *)
Still_Any(column, x) == TRUE
Still(column, x) == column[x.field] = x.before

applyTermPropagation(m, entries) ==
    Put(m, [k \in Keys("column", {e.column : e \in entries}) \cap DOMAIN m |->
        LET due == {x \in (CHOOSE e \in entries : e.column = k[2]).changes : Still(m[k], x)}
        IN  [f \in DOMAIN m[k] |-> IF \E x \in due : x.field = f THEN (CHOOSE x \in due : x.field = f).after
                                   ELSE m[k][f]]])
updateTerm(m, term, new) == IF <<"term", term>> \in DOMAIN m THEN With(m, <<"term", term>>, new) ELSE m

(***************************************************************************)
(* An editing session.                                                     *)
(***************************************************************************)
NoPlan == [kind |-> "none"]
Init == /\ model \in Starts /\ plan = NoPlan /\ nextId = FirstNewId /\ edits = 0 /\ refused = FALSE

(* useMutate: what the producer changed is sent and applied as one batch   *)
(* of ops, or not at all.                                                  *)
Landed(produced) ==
    IF produced = OpApplyError THEN OpApplyError ELSE applyOps(model, diffModels(model, produced))
Mutate(produced, offered) ==
    /\ edits < MaxEdits /\ edits' = edits + 1
    /\ \E after \in {Landed(produced)} :
          /\ model' = IF after = OpApplyError THEN model ELSE after
          /\ refused' = (refused \/ (after = OpApplyError /\ offered))

(* An edit of what the user sees now, with the ids it takes.               *)
Now(produced, ids) == Mutate(produced, TRUE) /\ nextId' = nextId + ids /\ UNCHANGED plan

EditTables ==
    \/ Now(addTable(model, nextId), 1)
    \/ \E t \in Ids(model, "table") :
          \/ Now(deleteTableCascade(model, t), 0)
          \/ Now(addColumn(model, t, nextId), 1)
          \/ \E c \in ColumnsOf(model, t) : Now(createIndex(model, t, nextId, {c}), 1)
          \/ \E g \in Ids(model, "tableGroup") \cup {None} : Now(setTableGroup(model, t, g), 0)
    \/ \E i \in KeysOf(model, "index") : Now(Drop(model, {i}), 0)
    \/ \E g \in Ids(model, "tableGroup") : Now(deleteGroup(model, g), 0)
EditColumns ==
    \/ \E c \in Ids(model, "column") :
          \/ Now(deleteColumnCascade(model, c), 0)
          \/ Now(updateColumn(model, c, "isPk", ~ Col(model, c).isPk), 0)
          \/ \E n \in Names : Now(updateColumn(model, c, "name", n), 0)
          \/ \E d \in Ids(model, "domain") \cup {None} : Now(updateColumn(model, c, "domainId", d), 0)
          \/ \E dir \in {-1, 1} : Now(reorderColumn(model, c, dir), 0)
RemoveDomain ==
    \E d \in Ids(model, "domain") :
        /\ usageOf(model, d) = {} /\ UNCHANGED <<plan, nextId>>
        /\ Mutate(removeDomain(model, d), TermsOf(model, d) = {})
EditRelationships ==
    \E r \in Ids(model, "relationship") :
        \/ Now(deleteRelationship(model, r), 0)
        \/ Now(setRelationshipIdentifying(model, r, ~ Rel(model, r).identifying), 0)
        \/ \E x \in Rel(model, r).columnMappings, c \in ColumnsOf(model, Rel(model, r).childTableId) :
              Now(remapRelationshipChildColumn(model, r, x.parent, c), 0)

(* The ids a plan takes, from the next one on.                             *)
NewIds(from, n) == [i \in 1..n |-> from + i]
Shown(what, ids) ==
    /\ plan = NoPlan /\ edits < MaxEdits
    /\ plan' = what /\ nextId' = nextId + ids /\ UNCHANGED <<model, edits, refused>>

planConnection ==
    \E parent, child \in Ids(model, "table") :
        LET n == Cardinality(PkColumns(model, parent))
        IN  /\ parent # child /\ n > 0
            /\ Shown([kind |-> "connection", parent |-> parent, child |-> child,
                      id |-> nextId, ids |-> NewIds(nextId, n)], n + 1)
planJunction ==
    \E r \in Ids(model, "relationship"), g \in Ids(model, "tableGroup") \cup {None} :
        LET n == Cardinality(PkColumns(model, Rel(model, r).parentTableId))
            k == Cardinality(KeyLeft(model, Rel(model, r)))
        IN  /\ Resolvable(model, r)
            /\ Shown([kind |-> "junction", of |-> r, id |-> nextId, group |-> g,
                      a |-> [id |-> nextId + 1, ids |-> NewIds(nextId + 1, n)],
                      b |-> [id |-> nextId + n + 2, ids |-> NewIds(nextId + n + 2, k)]], n + k + 3)
PlanTerm ==
    \E t \in Ids(model, "term"), n \in Names, d \in Ids(model, "domain") \cup {None} :
        LET new == [name |-> n, domainId |-> d]
            entries == planTermPropagation(model, t, new)
        IN  entries # {} /\ Shown([kind |-> "term", of |-> t, new |-> new, entries |-> entries], 0)
Copy ==
    \E t \in Ids(model, "table") :
        LET columns == InOrder(model, ColumnsOf(model, t))
            at(cs) == {i \in DOMAIN columns : columns[i] \in cs}
        IN  Shown([kind |-> "copy", columns |-> [i \in DOMAIN columns |-> Col(model, columns[i])],
                   indexes |-> SetToSeq({at(model[k].columns) : k \in
                                   {k \in KeysOf(model, "index") : model[k].tableId = t}})], 0)

(* What was shown is confirmed, or its turn in the mutation chain has come. *)
Confirm(kind, produced, ids) ==
    plan.kind = kind /\ Mutate(produced, FALSE) /\ plan' = NoPlan /\ nextId' = nextId + ids

Connect ==
    Confirm("connection", createRelationshipFromParentPk(model, plan.parent, plan.child, plan.id, plan.ids, FALSE), 0)
Resolve == Confirm("junction", resolveManyToMany(model, plan.of, plan.id, plan.group, plan.a, plan.b), 0)
ChangeTerm == Confirm("term", applyTermPropagation(updateTerm(model, plan.of, plan.new), plan.entries), 0)
Paste ==
    LET n == Len(plan.columns)
        k == Len(plan.indexes)
    IN  \/ Confirm("copy", pasteTable(model, plan, nextId, NewIds(nextId, n), NewIds(nextId + n, k)), n + k + 1)
        \/ \E t \in Ids(model, "table") : Confirm("copy", pasteColumns(model, plan.columns, t, NewIds(nextId - 1, n)), n)

Next == \/ EditTables \/ EditColumns \/ RemoveDomain \/ EditRelationships
        \/ planConnection \/ Connect \/ planJunction \/ Resolve
        \/ PlanTerm \/ ChangeTerm \/ Copy \/ Paste
Spec == Init /\ [][Next]_vars
-----------------------------------------------------------------------------
(* An edit the editor offers, of things that are all there, is never       *)
(* refused: its producer does not throw and what it leaves is integral, so *)
(* no cascade misses what depends on what it removes.  (The one exception  *)
(* is a domain only terms use: the editor counts the columns alone, offers *)
(* its removal, and the edit is refused.)                                  *)
OfferedEditsLand == ~ refused

(* Relationship r refers to the whole key of its parent, each key column   *)
(* by a new column of the child.                                           *)
Refers(m, r, parent, child, key) ==
    /\ r \in Ids(m, "relationship")
    /\ LET mappings == Rel(m, r).columnMappings
       IN  /\ Rel(m, r).parentTableId = parent /\ Rel(m, r).childTableId = child
           /\ {x.parent : x \in mappings} = key /\ Cardinality(mappings) = Cardinality(key)
           /\ ChildColumns(Rel(m, r)) \subseteq ColumnsOf(m, child) \ Ids(model, "column")
           /\ Cardinality(ChildColumns(Rel(m, r))) = Cardinality(key)

(* Resolving into a junction table is all or nothing, also when the model  *)
(* has changed since the button was lit: the relationship and its columns  *)
(* are gone, the junction's key is made of what is left of both whole      *)
(* keys, and nobody else's relationship lost anything but what those       *)
(* columns mapped (relationship.ts:219, the manual's "Resolving into a     *)
(* junction table").                                                       *)
Junction(rel) ==
    /\ Refers(model', plan.a.id, rel.parentTableId, plan.id, PkColumns(model, rel.parentTableId) \ ChildColumns(rel))
    /\ Refers(model', plan.b.id, rel.childTableId, plan.id, KeyLeft(model, rel))
    /\ ColumnsOf(model', plan.id) = PkColumns(model', plan.id)
    /\ plan.of \notin Ids(model', "relationship") /\ ChildColumns(rel) \cap Ids(model', "column") = {}
    /\ \A other \in Ids(model, "relationship") : \A x \in Rel(model, other).columnMappings :
          x.child \in ChildColumns(rel)
          \/ (other \in Ids(model', "relationship") /\ x \in Rel(model', other).columnMappings)

(* A confirmed propagation changes exactly what the dialog showed: no      *)
(* field that someone else changed after it, and every other one if the    *)
(* edit lands (dict-edits.ts:299-304).                                     *)
Propagation ==
    \A c \in Ids(model, "column") : \A f \in {"name", "domainId"} :
        LET due == UNION {e.changes : e \in {e \in plan.entries : e.column = c}}
            x == [field |-> f, before |-> Col(model, c)[f], after |-> Col(model', c)[f]]
        IN  IF Col(model', c)[f] # Col(model, c)[f] THEN x \in due
            ELSE ~ \E y \in due : y.field = f /\ y.before = x.before

(* A plan that waited for its confirmation on a model that others change:  *)
(* what is carried out is what the screen showed, on the model of now, or  *)
(* nothing (relationship.ts:231, dict-edits.ts:299).                       *)
ShownIsWhatHappens ==
    [][(plan.kind \in {"junction", "term"} /\ plan' = NoPlan /\ model' # model) =>
          IF plan.kind = "junction" THEN Junction(Rel(model, plan.of)) ELSE Propagation]_vars
=============================================================================
