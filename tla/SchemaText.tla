----------------------------- MODULE SchemaText -----------------------------
(***************************************************************************)
(* A project's schema as DDL or DBML text, and back: the name templates    *)
(* and the header that undoes them (name-template.ts, name-meta.ts), the   *)
(* printers (ddl.ts, dbml.ts), what the parsers get out of a text          *)
(* (ddl-parse.ts, dbml-parse.ts), and the import of what was parsed        *)
(* (ddl-import.ts, ddl-apply.ts).                                          *)
(*                                                                         *)
(* A text is its header and its statements, without their syntax.  Names   *)
(* are sequences of letters as in Naming, up to case; Dash is the " - "    *)
(* that joins a logical name and a comment.  Ids count up, so the order of *)
(* the ids is the order of the model's entries.  Defaults, auto increment, *)
(* domains, custom fields, check constraints and positions are left out.   *)
(***************************************************************************)
EXTENDS Naming, DialectTypes, ModelOps

CONSTANT ImportRules   \* the naming rules, with the two name templates

Dash == 90
FKMark == 91
UQMark == 92
UXMark == 93
Numbered(name, n) == name \o <<100 + n>>

Pick(test(_), sequence) == SelectSeq(sequence, test)
Filled(names) == SelectSeq(names, LAMBDA n : n # Nothing)
Each(sequence, f(_)) == [i \in DOMAIN sequence |-> f(sequence[i])]

Ranked(S, before(_, _)) ==
    [i \in 1..Cardinality(S) |-> CHOOSE x \in S : Cardinality({y \in S : before(y, x)}) = i - 1]
IdsInOrder(model, kind) == Ranked({k[2] : k \in KeysOf(model, kind)}, <)
Entity(model, kind, id) == model[<<kind, id>>]

(***************************************************************************)
(* The composed name.  A variable without a value takes the separators     *)
(* before the next literal with it, or else those behind the last one; a   *)
(* variable's value is never touched.                                      *)
(***************************************************************************)
NotSep(name) == {i \in DOMAIN name : name[i] # Sep}
StripLeading(name)  == IF NotSep(name) = {} THEN Nothing ELSE SubSeq(name, Min(NotSep(name)), Len(name))
StripTrailing(name) == IF NotSep(name) = {} THEN Nothing ELSE SubSeq(name, 1, Max(NotSep(name)))

GroupOfTable(model, table) ==
    IF table.groupId = None THEN [name |-> Nothing, alias |-> Nothing]
    ELSE Entity(model, "tableGroup", table.groupId)

resolveVar(name, table, model) ==
    CASE name = "groupAlias"   -> GroupOfTable(model, table).alias
      [] name = "groupName"    -> GroupOfTable(model, table).name
      [] name = "physicalName" -> table.physicalName
      [] name = "logicalName"  -> table.logicalName

Literal(text) == [lit |-> text]
Variable(name) == [var |-> name]
IsLiteral(token) == "lit" \in DOMAIN token

trimTrailingSeparator(pieces) ==
    LET last == Max({0} \cup {i \in DOMAIN pieces : pieces[i].text # Nothing})
        kept == SubSeq(pieces, 1, last)
    IN  IF last = 0 \/ ~ pieces[last].literal THEN kept ELSE [kept EXCEPT ![last].text = StripTrailing(@)]

compose(template, table, model) ==
    LET empty(i) == ~ IsLiteral(template[i]) /\ resolveVar(template[i].var, table, model) = Nothing
        piece(text, literal) == [text |-> text, literal |-> literal]
        step(pieces, i) ==
            IF IsLiteral(template[i])
            THEN Append(pieces, piece(IF i > 1 /\ empty(i - 1) THEN StripLeading(template[i].lit)
                                      ELSE template[i].lit, TRUE))
            ELSE IF ~ empty(i) THEN Append(pieces, piece(resolveVar(template[i].var, table, model), FALSE))
            ELSE IF i < Len(template) /\ IsLiteral(template[i + 1]) THEN pieces
            ELSE trimTrailingSeparator(pieces)
        pieces == FoldLeft(step, << >>, [i \in DOMAIN template |-> i])
    IN  FlattenSeq([i \in DOMAIN pieces |-> pieces[i].text])

composeTablePhysicalName(table, model) ==
    IF ImportRules.tablePhysicalTemplate = << >> THEN table.physicalName
    ELSE compose(ImportRules.tablePhysicalTemplate, table, model)
composeTableLogicalName(table, model) ==
    IF ImportRules.tableLogicalTemplate = << >> THEN table.logicalName
    ELSE compose(ImportRules.tableLogicalTemplate, table, model)

(***************************************************************************)
(* The header: what composing hides, and the groups.  Of two tables of one *)
(* composed name the last is recorded, of two groups of one name the       *)
(* first.                                                                  *)
(***************************************************************************)
LastOf(sequence, test(_)) == LET hits == Pick(test, sequence) IN hits[Len(hits)]
FirstOf(sequence, test(_)) == Head(Pick(test, sequence))

(* Mutated form: only tables whose names are hidden are recorded.          *)
Listed_Composed(model, t) ==
    composeTablePhysicalName(Entity(model, "table", t), model) # Entity(model, "table", t).physicalName

Listed(model, t) ==
    LET table == Entity(model, "table", t)
    IN  \/ composeTablePhysicalName(table, model) # table.physicalName
        \/ composeTableLogicalName(table, model) # table.logicalName
        \/ table.groupId # None

buildNameMeta(model, tables) ==
    LET of(t) == Entity(model, "table", t)
        composed(t) == composeTablePhysicalName(of(t), model)
        grouped == Pick(LAMBDA t : of(t).groupId # None, tables)
        listed == Pick(LAMBDA t : Listed(model, t), tables)
        entry(t) == [p |-> of(t).physicalName, l |-> of(t).logicalName, g |-> GroupOfTable(model, of(t)).name]
        groupOf(t) == GroupOfTable(model, of(t))
    IN  [tables |-> [n \in {composed(t) : t \in Range(listed)} |-> entry(LastOf(listed, LAMBDA t : composed(t) = n))],
         groups |-> [n \in {groupOf(t).name : t \in Range(grouped)} |->
                       groupOf(FirstOf(grouped, LAMBDA t : groupOf(t).name = n))]]

NoMeta == [tables |-> [n \in {} |-> 0], groups |-> [n \in {} |-> 0]]

(***************************************************************************)
(* Printing DDL.                                                           *)
(***************************************************************************)
(* Shorter first, then by letters: localeCompare of the composed names.    *)
selectTables(model) ==
    LET named(t) == composeTablePhysicalName(Entity(model, "table", t), model)
    IN  SortSeq(IdsInOrder(model, "table"), LAMBDA a, b : Before(named(a), named(b)) \/ (named(a) = named(b) /\ a < b))

tableColumns(model, t) ==
    Ranked({k[2] : k \in {k \in KeysOf(model, "column") : model[k].tableId = t}},
           LAMBDA a, b : LET order(c) == Entity(model, "column", c).order
                             IN  order(a) < order(b) \/ (order(a) = order(b) /\ a < b))

hasEmptyPhysicalName(model, t) ==
    \/ composeTablePhysicalName(Entity(model, "table", t), model) = Nothing
    \/ \E c \in Range(tableColumns(model, t)) : Entity(model, "column", c).physicalName = Nothing

exportableTables(model) ==
    Pick(LAMBDA t : tableColumns(model, t) # << >> /\ ~ hasEmptyPhysicalName(model, t), selectTables(model))

commentText(logicalName, physicalName, comment) ==
    LET lead == IF logicalName # physicalName \/ comment # Nothing THEN logicalName ELSE Nothing
    IN  IF lead = Nothing THEN comment ELSE IF comment = Nothing THEN lead ELSE lead \o <<Dash>> \o comment

TableText(model, t) ==
    LET table == Entity(model, "table", t)
    IN  commentText(composeTableLogicalName(table, model), composeTablePhysicalName(table, model), table.comment)
ColumnText(column) == commentText(column.logicalName, column.physicalName, column.comment)

ColumnName(model, c) == Entity(model, "column", c).physicalName
ColumnNames(model, columns) == Each(columns, LAMBDA c : ColumnName(model, c))
NameOf(model, t) == composeTablePhysicalName(Entity(model, "table", t), model)
KeyColumns(model, t) == Pick(LAMBDA c : Entity(model, "column", c).isPk, tableColumns(model, t))

columnLine(column, dialect) ==
    [name |-> column.physicalName, type |-> toDialectType(column.type, dialect), notNull |-> ~ column.nullable,
     pk |-> FALSE, note |-> IF dialect = "mysql" THEN ColumnText(column) ELSE Nothing]

createTableBlock(model, t, dialect, options) ==
    [kind |-> "create", table |-> NameOf(model, t), options |-> options,
     columns |-> Each(tableColumns(model, t), LAMBDA c : columnLine(Entity(model, "column", c), dialect)),
     pk |-> ColumnNames(model, KeyColumns(model, t)),
     note |-> IF dialect = "mysql" THEN TableText(model, t) ELSE Nothing]

selectedRelationships(model, tables) ==
    Each(Pick(LAMBDA r : /\ Entity(model, "relationship", r).parentTableId \in Range(tables)
                         /\ Entity(model, "relationship", r).childTableId \in Range(tables),
              IdsInOrder(model, "relationship")),
         LAMBDA r : Entity(model, "relationship", r))

uniqueConstraintName(base, used) ==
    IF base \notin used THEN base
    ELSE Numbered(base, CHOOSE n \in 2..Cardinality(used) + 2 :
                            /\ Numbered(base, n) \notin used
                            /\ \A m \in 2..n - 1 : Numbered(base, m) \in used)

ReferringColumns(relationship)  == Each(relationship.columnMappings, LAMBDA m : m.child)
ReferredColumns(relationship) == Each(relationship.columnMappings, LAMBDA m : m.parent)

(* The foreign keys, and behind each one-to-one its unique constraint; the *)
(* names are made in this order.                                           *)
fkStatements(model, tables) ==
    LET step(made, r) ==
            LET child == NameOf(model, r.childTableId)
                parent == NameOf(model, r.parentTableId)
                columns == ColumnNames(model, ReferringColumns(r))
                fk == uniqueConstraintName(IF r.name # Nothing THEN r.name
                                           ELSE <<FKMark>> \o child \o <<Sep>> \o parent, made.used)
                unique == uniqueConstraintName(<<UQMark>> \o child \o <<Sep>> \o JoinedBy(TRUE, columns),
                                               made.used \cup {fk})
                key == [kind |-> "fk", name |-> fk, table |-> child, columns |-> columns,
                        refTable |-> parent, refColumns |-> ColumnNames(model, ReferredColumns(r))]
            IN  IF r.oneToOne
                THEN [used |-> made.used \cup {fk, unique},
                      out |-> made.out \o <<key, [kind |-> "unique", name |-> unique, table |-> child,
                                                  columns |-> columns]>>]
                ELSE [used |-> made.used \cup {fk}, out |-> Append(made.out, key)]
    IN  FoldLeft(step, [used |-> {}, out |-> << >>], selectedRelationships(model, tables)).out

IndexesOf(model, tables) ==
    Each(Pick(LAMBDA x : Entity(model, "index", x).tableId \in Range(tables), IdsInOrder(model, "index")),
         LAMBDA x : Entity(model, "index", x))
indexStatements(model, tables) ==
    Each(IndexesOf(model, tables),
         LAMBDA x : [kind |-> "index", name |-> x.name, table |-> NameOf(model, x.tableId),
                     columns |-> ColumnNames(model, x.columns), unique |-> x.unique])

(* SQL Server's are calls of a procedure, which no parser here reads.      *)
commentStatements(model, tables, dialect) ==
    LET kind == IF dialect = "mssql" THEN "exec" ELSE "comment"
        comment(t, column, text) ==
            [kind |-> kind, table |-> NameOf(model, t), column |-> column, text |-> text]
        ofTable(t) ==
            <<comment(t, Nothing, TableText(model, t))>>
            \o Each(tableColumns(model, t), LAMBDA c : comment(t, ColumnName(model, c),
                                                              ColumnText(Entity(model, "column", c))))
    IN  Pick(LAMBDA s : s.text # Nothing, FlattenSeq(Each(tables, ofTable)))

generateDdl(model, dialect, options) ==
    LET tables == exportableTables(model)
    IN  [meta |-> buildNameMeta(model, tables),
         statements |-> Each(tables, LAMBDA t : createTableBlock(model, t, dialect, options))
                        \o fkStatements(model, tables) \o indexStatements(model, tables)
                        \o (IF dialect = "mysql" THEN << >> ELSE commentStatements(model, tables, dialect))]
-----------------------------------------------------------------------------
(***************************************************************************)
(* Printing DBML.                                                          *)
(***************************************************************************)
dbmlColumnLine(column, dialect, singlePk) ==
    [name |-> column.physicalName, type |-> toDialectType(column.type, dialect), pk |-> column.isPk /\ singlePk,
     notNull |-> ~ column.nullable /\ ~ (column.isPk /\ singlePk), note |-> ColumnText(column)]

indexLines(model, t) ==
    LET key == KeyColumns(model, t)
    IN  (IF Len(key) > 1 THEN <<[pk |-> TRUE, columns |-> ColumnNames(model, key)]>> ELSE << >>)
        \o Each(Pick(LAMBDA x : Filled(ColumnNames(model, x.columns)) # << >>, IndexesOf(model, <<t>>)),
                LAMBDA x : [pk |-> FALSE, columns |-> Filled(ColumnNames(model, x.columns)),
                            name |-> x.name, unique |-> x.unique])

tableBlock(model, t, dialect) ==
    [kind |-> "table", table |-> NameOf(model, t), note |-> TableText(model, t),
     headercolor |-> IF Entity(model, "table", t).groupId = None THEN None
                     ELSE GroupOfTable(model, Entity(model, "table", t)).color,
     columns |-> Each(tableColumns(model, t),
                      LAMBDA c : dbmlColumnLine(Entity(model, "column", c), dialect, Len(KeyColumns(model, t)) = 1)),
     indexes |-> indexLines(model, t)]

(* A block for each group, in the order of its first table.                *)
groupBlocks(model, tables) ==
    LET group(t) == Entity(model, "table", t).groupId
        members(g) == Pick(LAMBDA t : group(t) = g, tables)
        firsts == Pick(LAMBDA t : group(t) # None /\ Head(members(group(t))) = t, tables)
        block(g) == [kind |-> "group", name |-> Entity(model, "tableGroup", g).name,
                     color |-> Entity(model, "tableGroup", g).color, note |-> Entity(model, "tableGroup", g).comment,
                     tables |-> Each(members(g), LAMBDA t : NameOf(model, t))]
    IN  Each(firsts, LAMBDA t : block(group(t)))

refLines(model, tables) ==
    LET columns(r) == ColumnNames(model, ReferringColumns(r) \o ReferredColumns(r))
        line(r) == [kind |-> "ref", name |-> r.name, op |-> IF r.oneToOne THEN "-" ELSE ">",
                    left |-> [table |-> NameOf(model, r.childTableId), columns |-> ColumnNames(model, ReferringColumns(r))],
                    right |-> [table |-> NameOf(model, r.parentTableId), columns |-> ColumnNames(model, ReferredColumns(r))]]
    IN  Each(Pick(LAMBDA r : r.columnMappings # << >> /\ Nothing \notin Range(columns(r)),
                  selectedRelationships(model, tables)), line)

generateDbml(model, dialect) ==
    LET tables == exportableTables(model)
    IN  [meta |-> buildNameMeta(model, tables),
         statements |-> Each(tables, LAMBDA t : tableBlock(model, t, dialect))
                        \o groupBlocks(model, tables) \o refLines(model, tables)]
-----------------------------------------------------------------------------
(***************************************************************************)
(* Parsing: what each statement adds.  A text without groups, options or   *)
(* one-to-one marks just has none.                                         *)
(***************************************************************************)
Parsed(meta) ==
    [meta |-> meta, tables |-> << >>, constraints |-> << >>, indexes |-> << >>, comments |-> << >>,
     groups |-> << >>, skipped |-> << >>]

Constraint(kind, table, name, columns) ==
    [kind |-> kind, table |-> table, name |-> name, columns |-> columns,
     refTable |-> Nothing, refColumns |-> << >>, oneToOne |-> None]
ForeignKey(table, name, columns, refTable, refColumns, oneToOne) ==
    [Constraint("fk", table, name, columns) EXCEPT !.refTable = refTable, !.refColumns = refColumns,
                                                   !.oneToOne = oneToOne]
Comment(table, column, text) == [table |-> table, column |-> column, text |-> text]
Commented(comments) == Pick(LAMBDA c : c.text # Nothing, comments)
InlineKeys(s) == Each(Pick(LAMBDA c : c.pk, s.columns), LAMBDA c : Constraint("pk", s.table, Nothing, <<c.name>>))

parseCreateTable(p, s) ==
    [p EXCEPT !.tables = Append(@, [name |-> s.table, columns |-> s.columns, options |-> s.options]),
              !.constraints = @ \o InlineKeys(s)
                                \o (IF s.pk = << >> THEN << >> ELSE <<Constraint("pk", s.table, Nothing, s.pk)>>),
              !.comments = @ \o Commented(<<Comment(s.table, Nothing, s.note)>>)]

parseAlterTable(p, s) ==
    [p EXCEPT !.constraints = Append(@,
        IF s.kind = "unique" THEN Constraint("unique", s.table, s.name, s.columns)
        ELSE ForeignKey(s.table, s.name, s.columns, s.refTable, s.refColumns, None))]

parseCreateIndex(p, s) ==
    [p EXCEPT !.indexes = Append(@, [table |-> s.table, name |-> s.name, columns |-> s.columns, unique |-> s.unique])]

parseCommentOn(p, s) == [p EXCEPT !.comments = Append(@, Comment(s.table, s.column, s.text))]

parseDdl(text) ==
    LET step(p, s) ==
            CASE s.kind = "create" -> parseCreateTable(p, s)
              [] s.kind \in {"fk", "unique"} -> parseAlterTable(p, s)
              [] s.kind = "index" -> parseCreateIndex(p, s)
              [] s.kind = "comment" -> parseCommentOn(p, s)
              [] OTHER -> [p EXCEPT !.skipped = Append(@, s.kind)]
    IN  FoldLeft(step, Parsed(text.meta), text.statements)

parseTableBlock(p, s) ==
    [p EXCEPT !.tables = Append(@, [name |-> s.table, columns |-> Each(s.columns, LAMBDA c : [c EXCEPT !.note = Nothing]),
                                    options |-> None]),
              !.constraints = @ \o InlineKeys(s)
                                \o Each(Pick(LAMBDA x : x.pk, s.indexes),
                                        LAMBDA x : Constraint("pk", s.table, Nothing, x.columns)),
              !.indexes = @ \o Each(Pick(LAMBDA x : ~ x.pk, s.indexes),
                                    LAMBDA x : [table |-> s.table, name |-> x.name, columns |-> x.columns,
                                                unique |-> x.unique]),
              !.comments = @ \o Commented(<<Comment(s.table, Nothing, s.note)>>
                                          \o Each(s.columns, LAMBDA c : Comment(s.table, c.name, c.note)))]

parseTableGroupBlock(p, s) ==
    [p EXCEPT !.groups = Append(@, [name |-> s.name, color |-> s.color, comment |-> s.note, tables |-> s.tables])]

parseRefExpr(p, s) ==
    LET child  == IF s.op = "<" THEN s.right ELSE s.left
        parent == IF s.op = "<" THEN s.left ELSE s.right
    IN  IF s.op = "<>" THEN [p EXCEPT !.skipped = Append(@, "ref")]
        ELSE IF Len(child.columns) # Len(parent.columns) THEN p
        ELSE [p EXCEPT !.constraints = Append(@, ForeignKey(child.table, s.name, child.columns, parent.table,
                                                            parent.columns, s.op = "-"))]

(* A group without a color of its own takes that of its first table that   *)
(* has one.                                                                *)
parseDbml(text) ==
    LET step(p, s) ==
            CASE s.kind = "table" -> parseTableBlock(p, s)
              [] s.kind = "group" -> parseTableGroupBlock(p, s)
              [] s.kind = "ref" -> parseRefExpr(p, s)
              [] OTHER -> [p EXCEPT !.skipped = Append(@, s.kind)]
        colors(n) == {i \in DOMAIN text.statements : /\ text.statements[i].kind = "table"
                                                     /\ text.statements[i].table = n
                                                     /\ text.statements[i].headercolor # None}
        header(g) == Pick(LAMBDA n : colors(n) # {}, g.tables)
        colored(g) == IF g.color # None \/ header(g) = << >> THEN g
                      ELSE [g EXCEPT !.color = text.statements[Max(colors(Head(header(g))))].headercolor]
    IN  [FoldLeft(step, Parsed(text.meta), text.statements) EXCEPT !.groups = Each(@, colored)]
=============================================================================
