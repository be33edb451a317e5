----------------------------- MODULE Changesets -----------------------------
(***************************************************************************)
(* Change records of a local project (packages/core/src/changeset): the    *)
(* schema as a projection, the record that leads from one projection to    *)
(* the next (diff.ts), its replay (replay.ts) and the self check before a  *)
(* record is written (plan.ts).  The baseline exists nowhere but in the    *)
(* records: it is what replaying all of them gives, also when they were    *)
(* written on two branches that did not know of each other.                *)
(*                                                                         *)
(* A projection has four partial functions from ids.  Targets are found by *)
(* id; what an index, a foreign key, a primary key or a column's position  *)
(* refers to is found by NAME at that point of the replay.  A name is a    *)
(* number, so that the records' order by code units is <.  "data" stands   *)
(* for the fields nothing refers to: a function for a column, whose fields *)
(* are compared and set one by one.                                        *)
(***************************************************************************)
EXTENDS Integers, FiniteSets, SequencesExt

CONSTANTS None,     \* a name that could not be resolved
          First     \* "after" nothing: the first column

Put(f, x, e)  == [y \in DOMAIN f \cup {x} |-> IF y = x THEN e ELSE f[y]]
Drop(f, S)    == [y \in DOMAIN f \ S |-> f[y]]
(* A mutated form: a value that is not the recorded one is left alone.     *)
Over_AsRecorded(f, g) ==
    [x \in DOMAIN f |-> IF x \in DOMAIN g /\ f[x] = g[x].from THEN g[x].to ELSE f[x]]
Over(f, g)    == [x \in DOMAIN f |-> IF x \in DOMAIN g THEN g[x].to ELSE f[x]]
Each(s, Op(_)) == [i \in DOMAIN s |-> Op(s[i])]
Kept(s, S)    == SelectSeq(s, LAMBDA x : x \in S)
ColumnsOfTable(p, t) == {c \in DOMAIN p.columns : p.columns[c].tableId = t}
Unique(S) == IF Cardinality(S) = 1 THEN CHOOSE x \in S : TRUE ELSE None

(***************************************************************************)
(* projectSchema(model): what the DDL export would write of a model.  A    *)
(* table that has no physical name yet, or no columns, stays out, with its *)
(* columns, indexes and foreign keys.                                      *)
(***************************************************************************)
exportable(m) == {t \in DOMAIN m.tables : m.tables[t].name # None /\ m.tables[t].columnIds # <<>>}

projectSchema(m) ==
    LET out == exportable(m)
    IN  [tables |-> [t \in out |->
            [name |-> m.tables[t].name, data |-> m.tables[t].data, columnIds |-> m.tables[t].columnIds,
             primaryKey |-> SelectSeq(m.tables[t].columnIds, LAMBDA c : m.columns[c].isPk)]],
         columns |-> [c \in {c \in DOMAIN m.columns : m.columns[c].tableId \in out} |->
            [tableId |-> m.columns[c].tableId, name |-> m.columns[c].name, data |-> m.columns[c].data]],
         indexes |-> [x \in {x \in DOMAIN m.indexes : m.indexes[x].tableId \in out} |-> m.indexes[x]],
         foreignKeys |->
            [k \in {k \in DOMAIN m.foreignKeys :
                {m.foreignKeys[k].childTableId, m.foreignKeys[k].parentTableId} \subseteq out} |-> m.foreignKeys[k]]]
-----------------------------------------------------------------------------
findTable(p, name) == Unique({t \in DOMAIN p.tables : p.tables[t].name = name})
findColumn(p, t, name) == Unique({c \in ColumnsOfTable(p, t) : p.columns[c].name = name})
findColumns(p, t, names) == Each(names, LAMBDA n : findColumn(p, t, n))
Resolved(ids) == None \notin Range(ids)
-----------------------------------------------------------------------------
(***************************************************************************)
(* refusalOf(base, target): a name borne twice, or a column that changed   *)
(* its table, cannot be recorded.                                          *)
(***************************************************************************)
NamesOnce(f, S) == \A x, y \in S : f[x].name = f[y].name => x = y

(* A mutated form: a name borne twice is recorded all the same.            *)
Recordable_AnyNames(base, target) ==
    \A c \in DOMAIN base.columns \cap DOMAIN target.columns :
        base.columns[c].tableId = target.columns[c].tableId

Recordable(base, target) ==
    /\ NamesOnce(target.tables, DOMAIN target.tables)
    /\ \A t \in DOMAIN target.tables : NamesOnce(target.columns, ColumnsOfTable(target, t))
    /\ \A c \in DOMAIN base.columns \cap DOMAIN target.columns :
          base.columns[c].tableId = target.columns[c].tableId

ByName(f, S) == SetToSortSeq(S, LAMBDA x, y : f[x].name < f[y].name)

(***************************************************************************)
(* renameOrder: an item goes first whose new name no waiting item bears;   *)
(* of a circle, the first that came.                                       *)
(***************************************************************************)
renameOrder_AsGiven(items) == items

renameOrder(items) ==
    LET Free(rest) == {i \in DOMAIN rest : \A j \in DOMAIN rest : rest[j].from # rest[i].to}
        Next(rest) == IF Free(rest) = {} THEN 1 ELSE CHOOSE i \in Free(rest) : \A j \in Free(rest) : i <= j
        turn[n \in 0..Len(items)] ==
            IF n = 0 THEN [rest |-> items, out |-> <<>>]
            ELSE LET rest == turn[n-1].rest
                     i    == Next(rest)
                 IN  [rest |-> RemoveAt(rest, i), out |-> Append(turn[n-1].out, rest[i])]
    IN  turn[Len(items)].out

(* The elements of the longest common subsequence the code's table yields. *)
longestCommonSubsequence(a, b) ==
    LET size[i \in 1..(Len(a) + 1), j \in 1..(Len(b) + 1)] ==
            IF i > Len(a) \/ j > Len(b) THEN 0
            ELSE IF a[i] = b[j] THEN 1 + size[i+1, j+1]
            ELSE IF size[i+1, j] >= size[i, j+1] THEN size[i+1, j] ELSE size[i, j+1]
        walk[i \in 1..(Len(a) + 1), j \in 1..(Len(b) + 1)] ==
            IF i > Len(a) \/ j > Len(b) THEN {}
            ELSE IF a[i] = b[j] THEN {a[i]} \cup walk[i+1, j+1]
            ELSE IF size[i+1, j] >= size[i, j+1] THEN walk[i+1, j] ELSE walk[i, j+1]
    IN  walk[1, 1]

(***************************************************************************)
(* alterActions: drop, rename, add, modify columns, primary key, comment.  *)
(***************************************************************************)
Renames(kind, f, g, ids) ==
    renameOrder(Each(SelectSeq(ids, LAMBDA x : f[x].name # g[x].name),
        LAMBDA x : [kind |-> kind, id |-> x, from |-> f[x].name, to |-> g[x].name]))

alterActions(base, target, t) ==
    LET prev == base.tables[t]
        next == target.tables[t]
        was  == Range(prev.columnIds)
        is   == Range(next.columnIds)
        prevPk  == Kept(prev.primaryKey, is)
        stable  == longestCommonSubsequence(Kept(prev.columnIds, is), Kept(next.columnIds, was))
        After(c) == LET i == CHOOSE i \in DOMAIN next.columnIds : next.columnIds[i] = c
                    IN  IF i = 1 THEN First ELSE target.columns[next.columnIds[i-1]].name
        Changes(c) == LET a == base.columns[c].data
                          b == target.columns[c].data
                      IN  [f \in {f \in DOMAIN b : a[f] # b[f]} |-> [from |-> a[f], to |-> b[f]]]
        NameList(ids) == Each(ids, LAMBDA c : target.columns[c].name)
    IN  Each(SelectSeq(prev.columnIds, LAMBDA c : c \notin is),
             LAMBDA c : [kind |-> "dropColumn", id |-> c, name |-> base.columns[c].name])
     \o Renames("renameColumn", base.columns, target.columns, Kept(next.columnIds, was))
     \o Each(SelectSeq(next.columnIds, LAMBDA c : c \notin was),
             LAMBDA c : [kind |-> "addColumn", id |-> c, name |-> target.columns[c].name,
                         data |-> target.columns[c].data, after |-> After(c)])
     \o Each(SelectSeq(next.columnIds, LAMBDA c : c \in was /\ (DOMAIN Changes(c) # {} \/ c \notin stable)),
             LAMBDA c : [kind |-> "modifyColumn", id |-> c, changes |-> Changes(c),
                         moved |-> c \notin stable, after |-> After(c)])
     \o (IF prevPk = next.primaryKey THEN <<>>
         ELSE << [kind |-> "primaryKey", from |-> NameList(prevPk), to |-> NameList(next.primaryKey)] >>)
     \o (IF prev.data = next.data THEN <<>>
         ELSE << [kind |-> "tableComment", from |-> prev.data, to |-> next.data] >>)

(***************************************************************************)
(* diffProjection(base, target): the statements of a record, in an order   *)
(* that can be written down as SQL from top to bottom.                     *)
(***************************************************************************)
ColumnNamesIn(p, ids) == Each(ids, LAMBDA c : p.columns[c].name)
Changed(f, g) == {x \in DOMAIN f : x \notin DOMAIN g \/ f[x] # g[x]}
Contents(indexes) == [x \in DOMAIN indexes |-> [indexes[x] EXCEPT !.name = None]]

DropForeignKeys(base, target) ==
    Each(ByName(base.foreignKeys, Changed(base.foreignKeys, target.foreignKeys)),
         LAMBDA x : [kind |-> "dropForeignKey", id |-> x])
(* The indexes of a table that is dropped go with it.                      *)
LivingIndexes(base, target) == {x \in DOMAIN base.indexes : base.indexes[x].tableId \in DOMAIN target.tables}
DropIndexes(base, target) ==
    Each(ByName(base.indexes, LivingIndexes(base, target) \cap Changed(Contents(base.indexes), Contents(target.indexes))),
         LAMBDA x : [kind |-> "dropIndex", id |-> x])
DropTables(base, target) ==
    Each(ByName(base.tables, DOMAIN base.tables \ DOMAIN target.tables),
         LAMBDA t : [kind |-> "dropTable", id |-> t])
RenameIndexes(base, target) ==
    Renames("renameIndex", base.indexes, target.indexes,
        ByName(base.indexes, LivingIndexes(base, target) \ Changed(Contents(base.indexes), Contents(target.indexes))))
RenameTables(base, target) ==
    Renames("renameTable", base.tables, target.tables,
        ByName(base.tables, DOMAIN base.tables \cap DOMAIN target.tables))
CreateTables(base, target) ==
    Each(ByName(target.tables, DOMAIN target.tables \ DOMAIN base.tables),
         LAMBDA t : LET new == target.tables[t]
                    IN  [kind |-> "createTable", id |-> t, name |-> new.name, data |-> new.data,
                         columnIds |-> new.columnIds, columns |-> [c \in Range(new.columnIds) |-> target.columns[c]],
                         primaryKey |-> ColumnNamesIn(target, new.primaryKey)])
AlterTables(base, target) ==
    SelectSeq(
        Each(ByName(target.tables, DOMAIN target.tables \cap DOMAIN base.tables),
             LAMBDA t : [kind |-> "alterTable", id |-> t, name |-> target.tables[t].name,
                         actions |-> alterActions(base, target, t)]),
        LAMBDA s : s.actions # <<>>)
AddIndexes(base, target) ==
    Each(ByName(target.indexes, Changed(Contents(target.indexes), Contents(base.indexes))),
         LAMBDA x : LET new == target.indexes[x]
                    IN  [kind |-> "addIndex", id |-> x, name |-> new.name, data |-> new.data,
                         table |-> target.tables[new.tableId].name, columns |-> ColumnNamesIn(target, new.columnIds)])
AddForeignKeys(base, target) ==
    Each(ByName(target.foreignKeys, Changed(target.foreignKeys, base.foreignKeys)),
         LAMBDA x : LET new == target.foreignKeys[x]
                    IN  [kind |-> "addForeignKey", id |-> x, name |-> new.name, data |-> new.data,
                         child  |-> target.tables[new.childTableId].name,
                         parent |-> target.tables[new.parentTableId].name,
                         childColumns  |-> ColumnNamesIn(target, new.childColumnIds),
                         parentColumns |-> ColumnNamesIn(target, new.parentColumnIds)])

diffProjection(base, target) ==
    DropForeignKeys(base, target) \o DropIndexes(base, target) \o DropTables(base, target)
    \o RenameIndexes(base, target) \o RenameTables(base, target) \o CreateTables(base, target)
    \o AlterTables(base, target) \o AddIndexes(base, target) \o AddForeignKeys(base, target)
-----------------------------------------------------------------------------
(***************************************************************************)
(* Replay.  Its state is the projection so far, whether something did not  *)
(* fit and was warned of, and whether the replay has stopped (error).      *)
(***************************************************************************)
Replayed(p, warned, error) == [projection |-> p, warned |-> warned, error |-> error]
Done(p)          == Replayed(p, FALSE, FALSE)
Warned(p, odd)   == Replayed(p, odd, FALSE)
Stopped(p)       == Replayed(p, TRUE, TRUE)
Skipped(p)       == Warned(p, TRUE)

ReferringTo(f, Refers(_)) == {x \in DOMAIN f : Refers(f[x])}

(* What goes with a table; what goes with a column.  Foreign keys (and the *)
(* indexes of a column) that the record did not drop itself are warned of. *)
dropTable(p, t) ==
    LET fks == ReferringTo(p.foreignKeys, LAMBDA k : t \in {k.childTableId, k.parentTableId})
        ixs == ReferringTo(p.indexes, LAMBDA ix : ix.tableId = t)
    IN  Warned([tables |-> Drop(p.tables, {t}), indexes |-> Drop(p.indexes, ixs),
                columns |-> Drop(p.columns, Range(p.tables[t].columnIds)),
                foreignKeys |-> Drop(p.foreignKeys, fks)], fks # {})

(* A mutated form: the indexes and foreign keys of another record stay.    *)
dropColumn_Alone(p, t, c) ==
    LET others == DOMAIN p.columns \ {c}
    IN  Done([p EXCEPT !.columns = Drop(@, {c}),
                       !.tables[t].columnIds = Kept(@, others), !.tables[t].primaryKey = Kept(@, others)])

dropColumn(p, t, c) ==
    LET fks == ReferringTo(p.foreignKeys, LAMBDA k : c \in Range(k.childColumnIds) \cup Range(k.parentColumnIds))
        ixs == ReferringTo(p.indexes, LAMBDA ix : c \in Range(ix.columnIds))
        others == DOMAIN p.columns \ {c}
    IN  Warned([tables |-> [p.tables EXCEPT ![t].columnIds = Kept(@, others), ![t].primaryKey = Kept(@, others)],
                columns |-> Drop(p.columns, {c}),
                indexes |-> Drop(p.indexes, ixs), foreignKeys |-> Drop(p.foreignKeys, fks)],
               fks \cup ixs # {})

(* The primary key with the names that cannot be resolved left out.        *)
WithPrimaryKey(p, t, names) ==
    LET ids == findColumns(p, t, names)
    IN  Warned([p EXCEPT !.tables[t].primaryKey = SelectSeq(ids, LAMBDA c : c # None)], ~ Resolved(ids))

NewColumns(p, t, new) ==
    [c \in DOMAIN p.columns \cup DOMAIN new |->
        IF c \in DOMAIN new THEN [tableId |-> t, name |-> new[c].name, data |-> new[c].data] ELSE p.columns[c]]

createTable(p, s) ==
    IF s.id \in DOMAIN p.tables \/ DOMAIN s.columns \cap DOMAIN p.columns # {} THEN Stopped(p)
    ELSE WithPrimaryKey(
            [p EXCEPT !.columns = NewColumns(p, s.id, s.columns),
                      !.tables = Put(@, s.id, [name |-> s.name, data |-> s.data,
                                               columnIds |-> s.columnIds, primaryKey |-> <<>>])],
            s.id, s.primaryKey)

(***************************************************************************)
(* alter table.  A column another record dropped (columnOf finds nothing)  *)
(* is passed over; an old value that is not the recorded one is warned of. *)
(***************************************************************************)
columnOf(p, t, a) == a.id \in ColumnsOfTable(p, t)

applyAction(p, t, a) ==
    CASE a.kind = "dropColumn" ->
            IF columnOf(p, t, a) THEN dropColumn(p, t, a.id) ELSE Skipped(p)
      [] a.kind = "renameColumn" ->
            IF columnOf(p, t, a)
            THEN Warned([p EXCEPT !.columns[a.id].name = a.to], p.columns[a.id].name # a.from) ELSE Skipped(p)
      [] a.kind = "addColumn" ->
            IF a.id \in DOMAIN p.columns THEN Stopped(p)
            ELSE Done([p EXCEPT !.columns = NewColumns(p, t, [c \in {a.id} |-> a])])
      [] a.kind = "modifyColumn" ->
            IF columnOf(p, t, a)
            THEN Warned([p EXCEPT !.columns[a.id].data = Over(@, a.changes)],
                        \E f \in DOMAIN a.changes : p.columns[a.id].data[f] # a.changes[f].from)
            ELSE Skipped(p)
      [] a.kind = "primaryKey" ->
            LET new == WithPrimaryKey(p, t, a.to)
            IN  [new EXCEPT !.warned = @ \/ ColumnNamesIn(p, p.tables[t].primaryKey) # a.from]
      [] a.kind = "tableComment" ->
            Warned([p EXCEPT !.tables[t].data = a.to], p.tables[t].data # a.from)

(* One step after another; nothing is done any more once the replay stopped. *)
InTurn(p, steps, Apply(_, _)) ==
    FoldLeft(LAMBDA r, s :
                IF r.error THEN r
                ELSE LET next == Apply(r.projection, s) IN [next EXCEPT !.warned = @ \/ r.warned],
             Done(p), steps)

(* The columns of a block that take a new place.                           *)
Placed(p, t, actions) ==
    SelectSeq(actions, LAMBDA a : a.kind = "addColumn" \/ (a.kind = "modifyColumn" /\ a.moved /\ columnOf(p, t, a)))

(***************************************************************************)
(* resolveOrder: the columns that were not placed keep their order, and    *)
(* behind each of them, and in front, hangs the chain of columns placed    *)
(* after one another.  A column whose predecessor cannot be found goes to  *)
(* the end.  Two columns in one place, or a chain that closes, is an error. *)
(***************************************************************************)
resolveOrder(p, t, placed) ==
    LET ids    == {placed[i].id : i \in DOMAIN placed}
        Key(a) == IF a.after = First THEN First ELSE findColumn(p, t, a.after)
        hung   == {i \in DOMAIN placed : Key(placed[i]) # None}
        child  == [k \in {Key(placed[i]) : i \in hung} |->
                      placed[CHOOSE i \in hung : Key(placed[i]) = k].id]
        chain[k \in ids \cup ColumnsOfTable(p, t) \cup {First}, n \in 0..Cardinality(hung)] ==
            IF n = 0 \/ k \notin DOMAIN child THEN <<>> ELSE <<child[k]>> \o chain[child[k], n-1]
        WithChain(c) == <<c>> \o chain[c, Cardinality(hung)]
        atEnd  == Each(SelectSeq(placed, LAMBDA a : Key(a) = None), LAMBDA a : a.id)
        order  == chain[First, Cardinality(hung)]
                    \o FlattenSeq(Each(SelectSeq(p.tables[t].columnIds, LAMBDA c : c \notin ids), WithChain))
                    \o FlattenSeq(Each(atEnd, WithChain))
    IN  IF Cardinality(DOMAIN child) # Cardinality(hung) \/ Range(order) # ColumnsOfTable(p, t) THEN Stopped(p)
        ELSE Warned([p EXCEPT !.tables[t].columnIds = order], atEnd # <<>>)

applyAlter(p, s) ==
    IF s.id \notin DOMAIN p.tables THEN Skipped(p)
    ELSE LET r      == InTurn(p, s.actions, LAMBDA q, a : applyAction(q, s.id, a))
             placed == Placed(r.projection, s.id, s.actions)
             last   == IF r.error \/ placed = <<>> THEN r ELSE resolveOrder(r.projection, s.id, placed)
         IN  [last EXCEPT !.warned = @ \/ r.warned \/ p.tables[s.id].name # s.name]

addIndex(p, s) ==
    LET t   == findTable(p, s.table)
        ids == findColumns(p, t, s.columns)
    IN  CASE s.id \in DOMAIN p.indexes -> Stopped(p)
          [] s.id \notin DOMAIN p.indexes /\ (t = None \/ ~ Resolved(ids)) -> Skipped(p)
          [] OTHER -> Done([p EXCEPT !.indexes = Put(@, s.id,
                        [name |-> s.name, data |-> s.data, tableId |-> t, columnIds |-> ids])])

addForeignKey(p, s) ==
    LET child      == findTable(p, s.child)
        parent     == findTable(p, s.parent)
        childIds   == findColumns(p, child, s.childColumns)
        parentIds  == findColumns(p, parent, s.parentColumns)
    IN  CASE s.id \in DOMAIN p.foreignKeys -> Stopped(p)
          [] s.id \notin DOMAIN p.foreignKeys /\ ~ Resolved(<<child, parent>> \o childIds \o parentIds) -> Skipped(p)
          [] OTHER -> Done([p EXCEPT !.foreignKeys = Put(@, s.id,
                        [name |-> s.name, data |-> s.data, childTableId |-> child, childColumnIds |-> childIds,
                         parentTableId |-> parent, parentColumnIds |-> parentIds])])

Target(p, kind) ==
    CASE kind = "dropForeignKey" -> DOMAIN p.foreignKeys
      [] kind \in {"dropIndex", "renameIndex"} -> DOMAIN p.indexes
      [] kind \in {"dropTable", "renameTable"} -> DOMAIN p.tables

applyStatement(p, s) ==
    CASE s.kind = "createTable"   -> createTable(p, s)
      [] s.kind = "alterTable"    -> applyAlter(p, s)
      [] s.kind = "addIndex"      -> addIndex(p, s)
      [] s.kind = "addForeignKey" -> addForeignKey(p, s)
      [] OTHER ->
            IF s.id \notin Target(p, s.kind) THEN Skipped(p)
            ELSE CASE s.kind = "dropForeignKey" -> Done([p EXCEPT !.foreignKeys = Drop(@, {s.id})])
                   [] s.kind = "dropIndex"   -> Done([p EXCEPT !.indexes = Drop(@, {s.id})])
                   [] s.kind = "renameIndex" ->
                        Warned([p EXCEPT !.indexes[s.id].name = s.to], p.indexes[s.id].name # s.from)
                   [] s.kind = "renameTable" ->
                        Warned([p EXCEPT !.tables[s.id].name = s.to], p.tables[s.id].name # s.from)
                   [] s.kind = "dropTable"   -> dropTable(p, s.id)

applyChangeset(p, statements) == InTurn(p, statements, applyStatement)

(* The records in the order of their file names, from the empty schema: a   *)
(* baseline and what was recorded since.                                   *)
replay(p, records) == InTurn(p, records, applyChangeset)

(***************************************************************************)
(* composeChangeset's self check of a new record: read back and replayed   *)
(* on the baseline it must have led to the schema it was made for.         *)
(***************************************************************************)
SelfCheck(again, target) == ~ again.error /\ again.projection = target
=============================================================================
