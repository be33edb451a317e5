---------------------------- MODULE MCChangesets ----------------------------
(***************************************************************************)
(* Two branches of a local project: from a common model, each is edited    *)
(* without the other and records what it changed; then the branches are    *)
(* merged and all the records are replayed.  States are the three models.  *)
(***************************************************************************)
EXTENDS Changesets

CONSTANTS MaxLeft, MaxRight,   \* edits of the one and of the other branch
          TrunkNames           \* the names the second table may have at first

VARIABLES trunk, left, right, edits, merged
vars == <<trunk, left, right, edits, merged>>

Name == 1..3
Column(t, n, pk) == [tableId |-> t, name |-> n, isPk |-> pk, data |-> [type |-> 1]]

(* A table with a key, a second column and an index; a new table, nameless *)
(* or named, that it refers to.                                            *)
Trunk(name) ==
    [tables  |-> [t \in {"t", "u"} |-> [name |-> IF t = "t" THEN 1 ELSE name, data |-> 1,
                                        columnIds |-> IF t = "t" THEN <<"a", "b">> ELSE <<"c">>]],
     columns |-> [c \in {"a", "b", "c"} |->
                    Column(IF c = "c" THEN "u" ELSE "t", IF c = "b" THEN 2 ELSE 1, c = "a")],
     indexes |-> [i \in {"i"} |-> [tableId |-> "t", name |-> 1, data |-> 1, columnIds |-> <<"b">>]],
     foreignKeys |-> [k \in {"k"} |-> [name |-> 1, data |-> 1, childTableId |-> "t", childColumnIds |-> <<"b">>,
                                       parentTableId |-> "u", parentColumnIds |-> <<"c">>]]]

Moved(s, c, i) == LET rest == SelectSeq(s, LAMBDA x : x # c) IN InsertAt(rest, i, c)

WithoutTable(m, t) ==
    [tables  |-> Drop(m.tables, {t}), columns |-> Drop(m.columns, ColumnsOfTable(m, t)),
     indexes |-> Drop(m.indexes, {i \in DOMAIN m.indexes : m.indexes[i].tableId = t}),
     foreignKeys |-> Drop(m.foreignKeys, {k \in DOMAIN m.foreignKeys :
                        t \in {m.foreignKeys[k].childTableId, m.foreignKeys[k].parentTableId}})]

(* The instance's indexes and foreign keys have one column each, so they   *)
(* go with it (deleteColumnCascade).                                       *)
WithoutColumn(m, c) ==
    [tables  |-> [t \in DOMAIN m.tables |-> [m.tables[t] EXCEPT !.columnIds = SelectSeq(@, LAMBDA x : x # c)]],
     columns |-> Drop(m.columns, {c}),
     indexes |-> Drop(m.indexes, {i \in DOMAIN m.indexes : m.indexes[i].columnIds = <<c>>}),
     foreignKeys |-> Drop(m.foreignKeys, {k \in DOMAIN m.foreignKeys :
                        c \in Range(m.foreignKeys[k].childColumnIds \o m.foreignKeys[k].parentColumnIds)})]

WithColumn(m, t, c, n, i) ==
    [m EXCEPT !.columns = Put(@, c, Column(t, n, FALSE)), !.tables[t].columnIds = InsertAt(@, i, c)]

Own(new) == IF new = "l" THEN 2 ELSE 3

TableEdits(m, new) ==
    {[m EXCEPT !.tables[t].name = n] : t \in DOMAIN m.tables, n \in Name}
    \cup {[m EXCEPT !.tables[t].data = Own(new)] : t \in DOMAIN m.tables}
    \cup {WithoutTable(m, t) : t \in DOMAIN m.tables}
    \cup {WithColumn([m EXCEPT !.tables = Put(@, new, [name |-> n, data |-> 1, columnIds |-> <<>>])],
                     new, new, 1, 1) : n \in {n \in {1, 3} : new \notin DOMAIN m.tables \cup DOMAIN m.columns}}
ColumnEdits(m, new) ==
    UNION {{WithColumn(m, t, new, n, i) : n \in 2..3, i \in 1..(Len(m.tables[t].columnIds) + 1)} :
              t \in {t \in DOMAIN m.tables : new \notin DOMAIN m.columns}}
    \cup {[m EXCEPT !.columns[c].name = n] : c \in DOMAIN m.columns, n \in Name}
    \cup {[m EXCEPT !.columns[c].data.type = Own(new)] : c \in DOMAIN m.columns}
    \cup {[m EXCEPT !.columns[c].isPk = ~ @] : c \in DOMAIN m.columns}
    \cup {WithoutColumn(m, c) : c \in DOMAIN m.columns}
    \cup UNION {{[m EXCEPT !.tables[m.columns[c].tableId].columnIds = Moved(@, c, i)] :
                    i \in DOMAIN m.tables[m.columns[c].tableId].columnIds} : c \in DOMAIN m.columns}
IndexEdits(m, new) ==
    {[m EXCEPT !.indexes[i].name = n] : i \in DOMAIN m.indexes, n \in 1..2}
    \cup {[m EXCEPT !.indexes = Drop(@, {i})] : i \in DOMAIN m.indexes}
    \cup {[m EXCEPT !.indexes = Put(@, new, [tableId |-> m.columns[c].tableId, name |-> 2, data |-> 1,
                                           columnIds |-> <<c>>])] :
            c \in {c \in DOMAIN m.columns : new \notin DOMAIN m.indexes}}
    \cup {[m EXCEPT !.foreignKeys[k].data = Own(new)] : k \in DOMAIN m.foreignKeys}
    \cup {[m EXCEPT !.foreignKeys = Drop(@, {k})] : k \in DOMAIN m.foreignKeys}
Edits(m, new) == (TableEdits(m, new) \cup ColumnEdits(m, new) \cup IndexEdits(m, new)) \ {m}

base   == projectSchema(trunk)
lefts  == projectSchema(left)
rights == projectSchema(right)

Init == /\ trunk \in {Trunk(n) : n \in TrunkNames} /\ left = trunk /\ right = trunk
        /\ edits = [l |-> 0, r |-> 0] /\ merged = {}
EditLeft ==
    /\ merged = {} /\ edits.l < MaxLeft /\ edits.r = 0 /\ edits' = [edits EXCEPT !.l = @ + 1]
    /\ left' \in Edits(left, "l") /\ UNCHANGED <<trunk, right, merged>>
EditRight ==
    /\ merged = {} /\ edits.r < MaxRight /\ edits.l > 0 /\ edits' = [edits EXCEPT !.r = @ + 1]
    /\ right' \in Edits(right, "r") /\ UNCHANGED <<trunk, left, merged>>

(* Either branch's record may bear the earlier time stamp.                 *)
MergeBranches ==
    /\ merged = {} /\ edits.r > 0
    /\ Recordable(base, lefts) /\ Recordable(base, rights)
    /\ \E l \in {diffProjection(base, lefts)}, r \in {diffProjection(base, rights)} :
          merged' = {[earlier |-> lefts, later |-> rights, result |-> replay(base, <<l, r>>)],
                     [earlier |-> rights, later |-> lefts, result |-> replay(base, <<r, l>>)]}
    /\ UNCHANGED <<trunk, left, right, edits>>
Next == EditLeft \/ EditRight \/ MergeBranches
Spec == Init /\ [][Next]_vars

(* The baselines a merge may have given, unless the replay has stopped.    *)
Merges == {m \in merged : ~ m.result.error}
-----------------------------------------------------------------------------
(* What can be recorded is recorded: a record read back on its baseline,   *)
(* be it the replay of two branches that contradict each other, leads to   *)
(* the model exactly and without a warning, so the self check never stops  *)
(* a record from being written (composeChangeset).                         *)
Recorded(baseline, schema) ==
    Recordable(baseline, schema) =>
        \E again \in {applyChangeset(baseline, diffProjection(baseline, schema))} :
            ~ again.warned /\ SelfCheck(again, schema)
SelfCheckHolds ==
    IF merged = {} THEN edits.l = 0 \/ edits.r > 0 \/ Recorded(base, lefts)
    ELSE \A m \in Merges : \A schema \in {lefts, rights} : Recorded(m.result.projection, schema)

(* A replayed baseline is a schema: its tables list exactly their columns, *)
(* once, and every key, index and foreign key names columns of the right   *)
(* table, whatever the two branches dropped, renamed or added without      *)
(* knowing of each other (replay.ts:258-276).                              *)
Whole(p) ==
    /\ \A c \in DOMAIN p.columns : p.columns[c].tableId \in DOMAIN p.tables
    /\ \A t \in DOMAIN p.tables :
          /\ Range(p.tables[t].columnIds) = ColumnsOfTable(p, t)
          /\ IsInjective(p.tables[t].columnIds) /\ IsInjective(p.tables[t].primaryKey)
          /\ Range(p.tables[t].primaryKey) \subseteq ColumnsOfTable(p, t)
    /\ \A i \in DOMAIN p.indexes : Range(p.indexes[i].columnIds) \subseteq ColumnsOfTable(p, p.indexes[i].tableId)
    /\ \A k \in DOMAIN p.foreignKeys : LET fk == p.foreignKeys[k]
          IN  /\ Range(fk.childColumnIds) \subseteq ColumnsOfTable(p, fk.childTableId)
              /\ Range(fk.parentColumnIds) \subseteq ColumnsOfTable(p, fk.parentTableId)
BaselineIsWhole == \A m \in Merges : Whole(m.result.projection)

(* Records meet by id: what only one branch changed of a table or a column *)
(* is in the merged baseline, also when the other branch renamed or moved  *)
(* it; what both changed has the later record's value; what one branch     *)
(* dropped is gone (the guide's "replay finds its targets by @id").        *)
Latest(old, earlier, later) == IF later # old THEN later ELSE earlier
MergedInto(new, old, earlier, later) ==
    /\ DOMAIN old \cap DOMAIN new = DOMAIN old \cap DOMAIN earlier \cap DOMAIN later
    /\ \A x \in DOMAIN old \cap DOMAIN new :
          /\ new[x].name = Latest(old[x].name, earlier[x].name, later[x].name)
          /\ new[x].data = Latest(old[x].data, earlier[x].data, later[x].data)
ChangesOfBothArrive ==
    \A m \in Merges :
        /\ MergedInto(m.result.projection.tables, base.tables, m.earlier.tables, m.later.tables)
        /\ MergedInto(m.result.projection.columns, base.columns, m.earlier.columns, m.later.columns)

(* Written down as SQL from top to bottom, a record never gives a name to  *)
(* a table, column or index while another one still bears it.  Renames in  *)
(* a circle are the exception the guide states.                            *)
SplitUp(statements) ==
    FlattenSeq(Each(statements, LAMBDA s :
        IF s.kind = "alterTable" THEN Each(s.actions, LAMBDA a : [s EXCEPT !.actions = <<a>>]) ELSE <<s>>))
NamesOnceIn(p) ==
    /\ NamesOnce(p.tables, DOMAIN p.tables) /\ NamesOnce(p.indexes, DOMAIN p.indexes)
    /\ \A t \in DOMAIN p.tables : NamesOnce(p.columns, ColumnsOfTable(p, t))
Circle(f, g) ==
    \E S \in SUBSET (DOMAIN f \cap DOMAIN g) :
        /\ \A x \in S : f[x].name # g[x].name
        /\ S # {} /\ {f[x].name : x \in S} = {g[x].name : x \in S}
NamesFreeInOrder ==
    \/ merged # {} \/ edits.l = 0 \/ edits.r > 0 \/ ~ Recordable(base, lefts)
    \/ ~ NamesOnceIn(base) \/ ~ NamesOnceIn(lefts)
    \/ Circle(base.tables, lefts.tables) \/ Circle(base.indexes, lefts.indexes)
    \/ Circle(base.columns, lefts.columns)
    \/ \E steps \in {SplitUp(diffProjection(base, lefts))} :
          LET after[n \in 0..Len(steps)] ==
                IF n = 0 THEN base ELSE applyStatement(after[n-1], steps[n]).projection
          IN  \A n \in DOMAIN steps : NamesOnceIn(after[n])

(* Honest records of two branches never stop the replay: it stops only for *)
(* a contradiction inside one record or a record that came in twice        *)
(* (docs/guides/changeset-format.md:157, replay.ts:40-44).                 *)
BranchesReplay == Merges = merged
=============================================================================
