---------------------------- MODULE SchemaImport ----------------------------
(***************************************************************************)
(* Importing a schema text (packages/core ddl-import.ts, ddl-apply.ts;     *)
(* apps/web editor/ddl-import-dialog.tsx): the plan the dialog shows for   *)
(* the model on the screen, and the plan that was shown carried out on a   *)
(* model that peers have changed since.                                    *)
(***************************************************************************)
EXTENDS SchemaText

CONSTANTS ImportWords,     \* the dictionary
          ExportedSchemas, \* models that are exported and read back
          FirstSchemas,    \* the models an import may start from
          Texts,           \* what may be pasted: format, dialect, text
          PeerTables,      \* the names a peer gives to tables
          NoImport,
          MaxPeerMoves,    \* bound: changes of peers
          MaxTries,        \* bound: presses of the button
          MaxExports       \* bound: texts written

VARIABLES server,      \* the project's model
          shown,       \* the model of the editor that has the dialog open
          pasted,      \* what was read from the text in the dialog
          captured,    \* the plan the button was pressed on, and the model it was made on
          stage,       \* open, queued, sent, accepted, refused, options, closed
          request,     \* the entities of the request under way
          tableOptions,\* the project's
          ticked,      \* the user wants the text's options
          peerMoves, tries,
          landed,      \* history: the plan, and the models before and after it landed
          exports      \* history: the texts written, each with the model it was written from

(***************************************************************************)
(* What the text says of a table: its name here, and the group it belongs  *)
(* to.  The header wins over the blocks, and of two blocks the last.       *)
(***************************************************************************)
metaOf(parsed, raw, field, otherwise) ==
    IF raw \in DOMAIN parsed.meta.tables THEN parsed.meta.tables[raw][field] ELSE otherwise
madeName(parsed, raw) == metaOf(parsed, raw, "p", raw)

blockGroupOf(parsed, raw) ==
    LET blocks == Pick(LAMBDA g : raw \in Range(g.tables), parsed.groups)
    IN  IF blocks = << >> THEN Nothing ELSE blocks[Len(blocks)].name
groupOf(parsed, raw) ==
    LET said == metaOf(parsed, raw, "g", Nothing) IN IF said # Nothing THEN said ELSE blockGroupOf(parsed, raw)

(* Mutated form: names are compared as they are written in the text.       *)
scopedKey_AsWritten(parsed, raw) == <<groupOf(parsed, raw), raw>>
scopedKey(parsed, raw) == <<groupOf(parsed, raw), madeName(parsed, raw)>>
Existing(model) ==
    {<<GroupOfTable(model, model[k]).name, model[k].physicalName>> : k \in KeysOf(model, "table")}

(* The tables that are made: neither there already, nor made before by an  *)
(* earlier statement.                                                      *)
Alive(model, parsed) ==
    LET step(alive, t) ==
            IF scopedKey(parsed, t.name) \in Existing(model) \cup {scopedKey(parsed, a.name) : a \in Range(alive)}
            THEN alive ELSE Append(alive, t)
    IN  FoldLeft(step, << >>, parsed.tables)

pkOf(parsed, raw) ==
    LET keys == Pick(LAMBDA c : c.kind = "pk" /\ c.table = raw, parsed.constraints)
    IN  IF keys = << >> THEN << >> ELSE Head(keys).columns

CommentOf(parsed, raw, column) ==
    LET texts == Pick(LAMBDA c : c.table = raw /\ c.column = column, parsed.comments)
    IN  IF texts = << >> THEN Nothing ELSE texts[Len(texts)].text

(* The inverse of commentText: the first dash parts name and comment.      *)
splitComment(text) ==
    LET dashes == {i \in DOMAIN text : text[i] = Dash}
    IN  IF dashes = {} THEN [logicalName |-> text, comment |-> Nothing]
        ELSE [logicalName |-> SubSeq(text, 1, Min(dashes) - 1), comment |-> SubSeq(text, Min(dashes) + 1, Len(text))]

(* Comment, else dictionary, else the physical name.                       *)
resolveName(name, text) ==
    LET restored == restoreLogicalName(name, ImportWords, << >>, ImportRules).logicalName
    IN  IF text # Nothing THEN splitComment(text)
        ELSE [logicalName |-> IF restored = NoName THEN name ELSE restored, comment |-> Nothing]

planColumn(parsed, raw, c, dialect) ==
    LET text == CommentOf(parsed, raw, c.name)
        named == resolveName(c.name, IF text # Nothing THEN text ELSE c.note)
        isPk == c.pk \/ c.name \in Range(pkOf(parsed, raw))
    IN  [physicalName |-> c.name, logicalName |-> named.logicalName, comment |-> named.comment,
         type |-> fromDialectType(c.type, dialect).type, isPk |-> isPk, nullable |-> ~ c.notNull /\ ~ isPk]

(* The columns a list of names stands for, if it can be resolved.          *)
ColumnsGiven(table) == {c.name : c \in Range(table.columns)}
SameSet(a, b) == Len(a) = Len(b) /\ Range(a) = Range(b)

(* Indexes, then unique constraints, which become indexes: those whose     *)
(* table is made, whose columns are there, and that are more than the key. *)
Wanted(table, parsed, x, unique) ==
    /\ x.table = table.name /\ Range(x.columns) \subseteq ColumnsGiven(table)
    /\ ~ (unique /\ pkOf(parsed, table.name) # << >> /\ SameSet(x.columns, pkOf(parsed, table.name)))

planIndexes(table, parsed) ==
    LET index(x, name, unique) == [name |-> name, columns |-> x.columns, unique |-> unique]
        given == Pick(LAMBDA x : Wanted(table, parsed, x, x.unique), parsed.indexes)
        uniques == Pick(LAMBDA c : c.kind = "unique" /\ Wanted(table, parsed, c, TRUE), parsed.constraints)
        free(n, indexes) == Numbered(<<UXMark>> \o madeName(parsed, table.name), n) \notin {x.name : x \in Range(indexes)}
        named(c, indexes) ==
            IF c.name # Nothing THEN c.name
            ELSE Numbered(<<UXMark>> \o madeName(parsed, table.name),
                          CHOOSE n \in 1..Len(indexes) + 1 : free(n, indexes) /\ \A m \in 1..n - 1 : ~ free(m, indexes))
    IN  FoldLeft(LAMBDA made, c : Append(made, index(c, named(c, made), TRUE)),
                 Each(given, LAMBDA x : index(x, x.name, x.unique)), uniques)

planTable(parsed, t, dialect) ==
    LET named == resolveName(t.name, CommentOf(parsed, t.name, Nothing))
    IN  [physicalName |-> madeName(parsed, t.name), comment |-> named.comment,
         logicalName |-> metaOf(parsed, t.name, "l", named.logicalName),
         columns |-> Each(t.columns, LAMBDA c : planColumn(parsed, t.name, c, dialect)),
         indexes |-> planIndexes(t, parsed)]

RefColumns(parsed, key) == IF key.refColumns # << >> THEN key.refColumns ELSE pkOf(parsed, key.refTable)
planRelationships(alive, parsed) ==
    LET of(raw) == {t \in Range(alive) : t.name = raw}
        columns(raw) == UNION {ColumnsGiven(t) : t \in of(raw)}
        resolved(key) == /\ key.kind = "fk" /\ of(key.table) # {} /\ of(key.refTable) # {}
                         /\ RefColumns(parsed, key) # << >> /\ Len(key.columns) = Len(RefColumns(parsed, key))
                         /\ Range(key.columns) \subseteq columns(key.table)
                         /\ Range(RefColumns(parsed, key)) \subseteq columns(key.refTable)
        made(key) ==
            [child |-> madeName(parsed, key.table), parent |-> madeName(parsed, key.refTable),
             pairs |-> [i \in DOMAIN key.columns |-> [child |-> key.columns[i], parent |-> RefColumns(parsed, key)[i]]],
             identifying |-> key.columns # << >> /\ Range(key.columns) \subseteq Range(pkOf(parsed, key.table)),
             oneToOne |-> key.oneToOne = TRUE, name |-> IF key.oneToOne = None THEN Nothing ELSE key.name]
    IN  Each(Pick(resolved, parsed.constraints), made)

(* One group for each that a living table belongs to.  Its attributes have *)
(* one source: the header, else the first block of that name, else none.   *)
planGroups(model, alive, parsed) ==
    LET group(t) == groupOf(parsed, t.name)
        members(n) == Pick(LAMBDA t : group(t) = n, alive)
        firsts == Pick(LAMBDA t : group(t) # Nothing /\ Head(members(group(t))) = t, alive)
        blocks(n) == Pick(LAMBDA g : g.name = n, parsed.groups)
        attributes(n) ==
            IF n \in DOMAIN parsed.meta.groups THEN parsed.meta.groups[n]
            ELSE IF blocks(n) # << >> THEN [alias |-> Nothing, color |-> Head(blocks(n)).color,
                                            comment |-> Head(blocks(n)).comment]
            ELSE [alias |-> Nothing, color |-> None, comment |-> Nothing]
        known(n) == {k \in KeysOf(model, "tableGroup") : model[k].name = n}
        plan(n) == [name |-> n, alias |-> attributes(n).alias, color |-> attributes(n).color,
                    comment |-> attributes(n).comment,
                    members |-> Each(members(n), LAMBDA t : madeName(parsed, t.name)),
                    existingId |-> IF known(n) = {} THEN None ELSE Max({k[2] : k \in known(n)})]
    IN  Each(firsts, LAMBDA t : plan(group(t)))

(* The options most tables name; of equal ones the first.                  *)
majorityOptions(alive) ==
    LET votes == Pick(LAMBDA o : o # None, Each(alive, LAMBDA t : t.options))
        count(o) == Len(Pick(LAMBDA v : v = o, votes))
    IN  IF votes = << >> THEN None ELSE FirstOf(votes, LAMBDA o : \A v \in Range(votes) : count(v) <= count(o))

planDdlImport(model, alive, parsed, dialect) ==
    [tables |-> Each(alive, LAMBDA t : planTable(parsed, t, dialect)),
     relationships |-> planRelationships(alive, parsed), groups |-> planGroups(model, alive, parsed),
     tableOptions |-> majorityOptions(alive)]

opCountEstimate(plan) ==
    FoldLeft(+, 0, Each(plan.tables, LAMBDA t : 1 + Len(t.columns) + Len(t.indexes)))
    + Len(plan.relationships) + Len(Pick(LAMBDA g : g.existingId = None, plan.groups))
-----------------------------------------------------------------------------
(***************************************************************************)
(* Carrying a plan out.  New ids count up from next.  The plan's parts     *)
(* find each other by physical names alone; of equal ones the last counts. *)
(***************************************************************************)
LastIndex(sequence, test(_)) == Max({i \in DOMAIN sequence : test(sequence[i])})
Count(sequence, size(_)) == FoldLeft(+, 0, Each(sequence, size))
Together(kind, first, entities) == [k \in {<<kind, first + i - 1>> : i \in DOMAIN entities} |-> entities[k[2] - first + 1]]

applyDdlImport(model, plan, next) ==
    LET newGroups == Pick(LAMBDA g : g.existingId = None, plan.groups)
        firstTable == next + Len(newGroups)
        firstColumn == firstTable + Len(plan.tables)
        columns(t) == Len(plan.tables[t].columns)
        firstColumnOf(t) == firstColumn + Count(SubSeq(plan.tables, 1, t - 1), LAMBDA x : Len(x.columns))
        firstIndex == firstColumn + Count(plan.tables, LAMBDA x : Len(x.columns))
        firstRelationship == firstIndex + Count(plan.tables, LAMBDA x : Len(x.indexes))

        groupId(g) == IF g.existingId # None THEN g.existingId
                      ELSE next + LastIndex(newGroups, LAMBDA n : n = g) - 1
        ofName(n) == LastIndex(plan.tables, LAMBDA t : t.physicalName = n)
        tableId(n) == firstTable + ofName(n) - 1
        homes(n) == Pick(LAMBDA g : n \in Range(g.members), plan.groups)
        columnId(n, c) ==
            LET holders == {t \in DOMAIN plan.tables : /\ plan.tables[t].physicalName = n
                                                       /\ \E x \in Range(plan.tables[t].columns) : x.physicalName = c}
            IN  firstColumnOf(Max(holders)) + LastIndex(plan.tables[Max(holders)].columns,
                                                        LAMBDA x : x.physicalName = c) - 1

        table(t) == [groupId |-> IF homes(t.physicalName) = << >> THEN None
                                 ELSE groupId(homes(t.physicalName)[Len(homes(t.physicalName))]),
                     physicalName |-> t.physicalName, logicalName |-> t.logicalName, comment |-> t.comment]
        column(t, i) == LET c == t.columns[i]
                        IN  [tableId |-> tableId(t.physicalName), domainId |-> None, physicalName |-> c.physicalName,
                             logicalName |-> c.logicalName, comment |-> c.comment, type |-> c.type, isPk |-> c.isPk,
                             nullable |-> c.nullable, order |-> i - 1]
        index(t, x) == [tableId |-> tableId(t.physicalName), name |-> x.name, unique |-> x.unique,
                        columns |-> Each(x.columns, LAMBDA c : columnId(t.physicalName, c))]
        relationship(r) == [parentTableId |-> tableId(r.parent), childTableId |-> tableId(r.child),
                            columnMappings |-> Each(r.pairs, LAMBDA p : [child |-> columnId(r.child, p.child),
                                                                         parent |-> columnId(r.parent, p.parent)]),
                            oneToOne |-> r.oneToOne, identifying |-> r.identifying, name |-> r.name]
        group(g) == [name |-> g.name, alias |-> g.alias, color |-> g.color, comment |-> g.comment]
    IN  model
        @@ Together("tableGroup", next, Each(newGroups, group))
        @@ Together("table", firstTable, Each(plan.tables, table))
        @@ Together("column", firstColumn,
                    FlattenSeq(Each(plan.tables, LAMBDA t : [i \in DOMAIN t.columns |-> column(t, i)])))
        @@ Together("index", firstIndex,
                    FlattenSeq(Each(plan.tables, LAMBDA t : Each(t.indexes, LAMBDA x : index(t, x)))))
        @@ Together("relationship", firstRelationship, Each(plan.relationships, relationship))

(* What the integrity check sees: sets where the entity keeps an order.    *)
Stored(model) ==
    [k \in DOMAIN model |-> CASE k[1] = "index" -> [model[k] EXCEPT !.columns = Range(@)]
                              [] k[1] = "relationship" -> [model[k] EXCEPT !.columnMappings = Range(@)]
                              [] OTHER -> model[k]]
Sound(model) == validateModelIntegrity(Stored(model))
NextId(model) == 1 + Max({0} \cup {k[2] : k \in DOMAIN model})

(***************************************************************************)
(* The dialog.                                                             *)
(***************************************************************************)
importVars == <<server, shown, pasted, captured, stage, request, tableOptions, ticked, peerMoves, tries, landed, exports>>

Written(format, dialect, model) ==
    [format |-> format, dialect |-> dialect,
     text |-> IF format = "dbml" THEN generateDbml(model, dialect) ELSE generateDdl(model, dialect, None)]
Read(t) == [parsed |-> IF t.format = "dbml" THEN parseDbml(t.text) ELSE parseDdl(t.text), dialect |-> t.dialect]
PlanFor(model) ==
    {planDdlImport(model, alive, pasted.parsed, pasted.dialect) : alive \in {Alive(model, pasted.parsed)}}

Fresh == /\ shown = server /\ captured = NoImport /\ request = EmptyModel /\ landed = << >> /\ exports = << >>
         /\ tries = 0
ImportInit ==
    /\ server \in FirstSchemas /\ pasted \in {Read(t) : t \in Texts} /\ stage = "open"
    /\ tableOptions \in {None, "own"} /\ ticked = (tableOptions = None) /\ peerMoves = 0 /\ Fresh
ExportInit ==
    /\ server \in ExportedSchemas /\ pasted = NoImport /\ stage = "closed"
    /\ tableOptions = None /\ ticked = FALSE /\ peerMoves = MaxPeerMoves /\ Fresh

(* A project is exported, and the text pasted into the dialog of an empty  *)
(* project, or of the project itself.                                      *)
Export ==
    /\ stage = "closed" /\ peerMoves = MaxPeerMoves /\ Len(exports) < MaxExports
    /\ \E format \in {"ddl", "dbml"}, dialect \in {"postgresql", "mysql", "oracle", "mssql"} :
          /\ exports # << >> => format = exports[1].format /\ dialect = exports[1].dialect
          /\ exports' = Append(exports, [from |-> server] @@ Written(format, dialect, server))
    /\ pasted' = Read(exports'[Len(exports')]) /\ stage' = "open" /\ tries' = MaxTries - 1
    /\ server' = EmptyModel \/ (exports = << >> /\ server' = server)
    /\ shown' = server'
    /\ UNCHANGED <<captured, request, tableOptions, ticked, peerMoves, landed>>

Tick == /\ stage = "open" /\ tries < MaxTries /\ ticked' = ~ ticked
        /\ \E t \in Range(pasted.parsed.tables) : t.options # None
        /\ UNCHANGED <<server, shown, pasted, captured, stage, request, tableOptions, peerMoves, tries, landed, exports>>

(* What is on the screen when the button is pressed will be carried out.   *)
Press ==
    /\ stage = "open" /\ tries < MaxTries /\ tries' = tries + 1
    /\ \E plan \in PlanFor(shown) : captured' = [plan |-> plan, on |-> shown]
    /\ stage' = "queued"
    /\ UNCHANGED <<server, shown, pasted, request, tableOptions, ticked, peerMoves, landed, exports>>

(* Mutated form: the plan is made again when its turn comes.               *)
ToCarryOut_Replanned == PlanFor(shown)
ToCarryOut == {captured.plan}

(* The edit's turn: its producer runs on the newest model.  Nothing to do  *)
(* ends the import, and the dialog stays.                                  *)
OnApply ==
    /\ stage = "queued"
    /\ \E plan \in ToCarryOut : \E next \in {applyDdlImport(shown, plan, NextId(server @@ shown @@ captured.on))} :
          IF next = shown
           THEN stage' = "open" /\ captured' = NoImport /\ UNCHANGED <<shown, request>>
           ELSE /\ stage' = "sent" /\ shown' = next /\ UNCHANGED captured
                /\ request' = [k \in DOMAIN next \ DOMAIN shown |-> next[k]]
    /\ UNCHANGED <<server, pasted, tableOptions, ticked, peerMoves, tries, landed, exports>>

(* The request: creates, accepted if the whole is sound.                   *)
Lands ==
    /\ stage = "sent"
    /\ LET after == request @@ server
       IN  IF Sound(after)
           THEN /\ server' = after /\ stage' = "accepted"
                /\ landed' = <<[on |-> captured.on, plan |-> captured.plan, before |-> server, after |-> after]>>
           ELSE stage' = "refused" /\ UNCHANGED <<server, landed>>
    /\ UNCHANGED <<shown, pasted, captured, request, tableOptions, ticked, peerMoves, tries, exports>>

(* The answer, or nothing, comes back, and the editor is in step again.    *)
Finish(next) == stage' = next /\ captured' = NoImport /\ request' = EmptyModel
Answered ==
    /\ stage \in {"accepted", "refused"} /\ shown' = server
    /\ IF stage = "accepted" /\ ticked /\ captured.plan.tableOptions \notin {None, tableOptions}
       THEN stage' = "options" /\ UNCHANGED <<captured, request>>
       ELSE Finish(IF stage = "accepted" THEN "closed" ELSE "open")
    /\ UNCHANGED <<server, pasted, tableOptions, ticked, peerMoves, tries, landed, exports>>
AnswerLost ==
    /\ stage \in {"sent", "accepted", "refused"} /\ shown' = server /\ Finish("open")
    /\ UNCHANGED <<server, pasted, tableOptions, ticked, peerMoves, tries, landed, exports>>

(* The second request, for what is not in the log of edits.                *)
UpdateProject ==
    /\ stage = "options"
    /\ \/ tableOptions' = captured.plan.tableOptions /\ Finish("closed")
       \/ UNCHANGED tableOptions /\ Finish("open")
    /\ UNCHANGED <<server, shown, pasted, ticked, peerMoves, tries, landed, exports>>

(***************************************************************************)
(* Peers: a table comes, a table or a group goes.                          *)
(***************************************************************************)
TableGone(model, t) ==
    LET gone == {k \in DOMAIN model :
                   \/ k = <<"table", t>>
                   \/ k[1] \in {"column", "index"} /\ model[k].tableId = t
                   \/ k[1] = "relationship" /\ t \in {model[k].parentTableId, model[k].childTableId}}
    IN  [k \in DOMAIN model \ gone |-> model[k]]
PeerEdits(model) ==
    {With(model, <<"table", NextId(model @@ shown)>>,
          [groupId |-> g, physicalName |-> n, logicalName |-> n, comment |-> Nothing]) :
        n \in PeerTables, g \in {None} \cup {k[2] : k \in KeysOf(model, "tableGroup")}}
    \cup {TableGone(model, k[2]) : k \in KeysOf(model, "table")}
    \cup {Without([k \in DOMAIN model |-> IF k[1] = "table" /\ model[k].groupId = g[2]
                                          THEN [model[k] EXCEPT !.groupId = None] ELSE model[k]], g) :
             g \in KeysOf(model, "tableGroup")}
PeersMove ==
    /\ stage # "closed" /\ peerMoves < MaxPeerMoves /\ peerMoves' = peerMoves + 1
    /\ server' \in PeerEdits(server)
    /\ UNCHANGED <<shown, pasted, captured, stage, request, tableOptions, ticked, tries, landed, exports>>

(* Frames wait while an edit is in progress.                               *)
FrameArrives ==
    /\ stage \in {"open", "queued"} /\ shown # server /\ shown' = server
    /\ UNCHANGED <<server, pasted, captured, stage, request, tableOptions, ticked, peerMoves, tries, landed, exports>>

ImportNext ==
    \/ Export \/ Tick \/ Press \/ OnApply \/ Lands \/ Answered \/ AnswerLost \/ UpdateProject
    \/ PeersMove \/ FrameArrives
ImportSpec == (ImportInit \/ ExportInit) /\ [][ImportNext]_importVars
-----------------------------------------------------------------------------
(* What the formats can carry: composed names and groups that can be told  *)
(* apart, texts to put into comments, types that the dialect has.          *)
Different(keys, f(_)) == \A a, b \in keys : f(a) = f(b) => a = b
Carried(format, dialect, model) ==
    /\ Different(KeysOf(model, "table"), LAMBDA k : NameOf(model, k[2]))
    /\ Different(KeysOf(model, "tableGroup"), LAMBDA k : model[k].name)
    /\ format = "ddl" => /\ dialect # "mssql"
                         /\ \A k \in KeysOf(model, "relationship") : ~ model[k].oneToOne /\ model[k].name = Nothing
    /\ \A k \in KeysOf(model, "column") :
          /\ ~ (model[k].isPk /\ model[k].nullable) /\ ColumnText(model[k]) # Nothing
          /\ fromDialectType(toDialectType(model[k].type, dialect), dialect).type = model[k].type
    /\ \A k \in KeysOf(model, "table") : TableText(model, k[2]) # Nothing

(* A type that comes back as another one is told, but for its sign.        *)
TypeIsTold(type, dialect) ==
    LET read == fromDialectType(toDialectType(type, dialect), dialect)
    IN  read.alternatives # {} \/ read.type \in {type, [type EXCEPT !.unsigned = FALSE]}

(* A schema that is exported and imported into an empty project is         *)
(* exported again as the same text, where the format can carry what is in  *)
(* it, and from then on in any case: nothing drifts with every round trip, *)
(* and a type that changes is told; importing it where it came from adds   *)
(* nothing (name-meta.ts:58-79, ddl-import.ts:139-229, dialect.ts:310-337).*)
(* Only for schemas without two tables of one physical name, see           *)
(* GroupsKeepTablesApart.                                                  *)
ExportsReadBack ==
    \A first \in {e \in Range(exports) : e = exports[1]} :
        Different(KeysOf(first.from, "table"), LAMBDA k : first.from[k].physicalName) =>
            /\ Len(exports) > 1 /\ Carried(first.format, first.dialect, first.from) => exports[2].text = first.text
            /\ Len(exports) > 2 => exports[3].text = exports[2].text
            /\ stage # "refused"
            /\ captured # NoImport /\ captured.on = exports[Len(exports)].from => opCountEstimate(captured.plan) = 0
            /\ \A k \in KeysOf(first.from, "column") : TypeIsTold(first.from[k].type, first.dialect)

ColumnsIn(model, t) == {k \in KeysOf(model, "column") : model[k].tableId = t}
NamedApart(plan) == IsInjective(Each(plan.tables, LAMBDA t : t.physicalName))
Arrived(l, i) ==
    LET plan == l.plan.tables[i]
        homes == {g \in Range(l.plan.groups) : plan.physicalName \in Range(g.members)}
    IN  \E k \in KeysOf(l.after, "table") \ DOMAIN l.before :
            LET table == l.after[k]
            IN  /\ table.physicalName = plan.physicalName /\ table.logicalName = plan.logicalName
                /\ GroupOfTable(l.after, table).name \in (IF homes = {} THEN {Nothing} ELSE {g.name : g \in homes})
                /\ Cardinality(ColumnsIn(l.after, k[2])) = Len(plan.columns)
                /\ {l.after[c].physicalName : c \in ColumnsIn(l.after, k[2])}
                      = {c.physicalName : c \in Range(plan.columns)}

(* What lands is what was on the screen when the button was pressed,       *)
(* whatever has changed since: as many entities as the preview counted,    *)
(* every table with its own columns and in its own group, and nothing that *)
(* was there is touched; otherwise nothing lands at all.  Only for plans   *)
(* whose tables have different names (ddl-import-dialog.tsx:112-121,       *)
(* ddl-import.ts:670-675, ddl-apply.ts:68-188).                            *)
LandsAsShown ==
    \A l \in Range(landed) :
        /\ \A k \in DOMAIN l.before : l.after[k] = l.before[k]
        /\ Cardinality(DOMAIN l.after \ DOMAIN l.before) = opCountEstimate(l.plan)
        /\ NamedApart(l.plan) => \A i \in DOMAIN l.plan.tables : Arrived(l, i)

(* An import makes no second table of a name in a group, also when it is   *)
(* tried again after an answer was lost, unless a peer made or moved the   *)
(* other one after the plan was shown; for the same plans                  *)
(* (ddl-import.ts:166-229).                                                *)
Home(model, k) == <<GroupOfTable(model, model[k]).name, model[k].physicalName>>
SameTables(model) ==
    {pair \in KeysOf(model, "table") \X KeysOf(model, "table") :
        pair[1] # pair[2] /\ Home(model, pair[1]) = Home(model, pair[2])}
NoSecondTable ==
    \A l \in {l \in Range(landed) : NamedApart(l.plan)} : \A pair \in SameTables(l.after) \ SameTables(l.before) :
        \E k \in Range(pair) \cap DOMAIN l.before : k \notin DOMAIN l.on \/ Home(l.on, k) # Home(l.before, k)

(* Two tables of different groups that existed side by side in the source  *)
(* do not collide, though their names here are the same: both arrive, each *)
(* with its columns (ddl-import.ts:146-149).                               *)
GroupsKeepTablesApart ==
    \A l \in Range(landed) : \A i \in DOMAIN l.plan.tables : Arrived(l, i)
=============================================================================
