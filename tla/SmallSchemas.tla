---------------------------- MODULE SmallSchemas ----------------------------
(***************************************************************************)
(* Small schemas and small texts for the import runs: two groups, of which *)
(* one has an alias, two or three tables, a composite key, indexes and a   *)
(* relationship.  Letters 1..3 are Korean, 4.. Latin.                      *)
(***************************************************************************)
EXTENDS SchemaImport

Group(name, alias) == [name |-> name, alias |-> alias, color |-> 1, comment |-> Nothing]
TableIn(group, physicalName, logicalName) ==
    [groupId |-> group, physicalName |-> physicalName, logicalName |-> logicalName, comment |-> <<22>>]
ColumnOf(table, physicalName, logicalName, type, place) ==
    [tableId |-> table, domainId |-> None, physicalName |-> physicalName, logicalName |-> logicalName,
     comment |-> Nothing, type |-> type, isPk |-> place = 0, nullable |-> place # 0, order |-> place]

(* Tables 3 and 4 (4 with a key of two columns), an index over both, and a *)
(* reference from 4 to 3.                                                  *)
Schema(group3, group4, name4, groupName2, oneToOne, name) ==
    LET int == Plain("INT")
    IN  <<"tableGroup", 1>> :> Group(<<11>>, <<7>>) @@ <<"tableGroup", 2>> :> Group(groupName2, Nothing)
        @@ <<"table", 3>> :> TableIn(group3, <<4>>, <<1>>) @@ <<"table", 4>> :> TableIn(group4, name4, name4)
        @@ <<"column", 5>> :> ColumnOf(3, <<4>>, <<1>>, int, 0) @@ <<"column", 6>> :> ColumnOf(4, <<4>>, <<4>>, int, 0)
        @@ <<"column", 7>> :> [ColumnOf(4, <<5>>, <<2>>, int, 1) EXCEPT !.isPk = TRUE, !.nullable = FALSE]
        @@ <<"index", 8>> :> [tableId |-> 4, name |-> <<6>>, unique |-> TRUE, columns |-> <<7, 6>>]
        @@ <<"relationship", 9>> :>
             [parentTableId |-> 3, childTableId |-> 4, columnMappings |-> <<[child |-> 7, parent |-> 5]>>,
              oneToOne |-> oneToOne, identifying |-> FALSE, name |-> name]

(* A second reference of the same name, and a table that refers to itself. *)
Doubled(schema) ==
    <<"relationship", 10>> :> schema[<<"relationship", 9>>]
    @@ <<"relationship", 11>> :> [schema[<<"relationship", 9>>] EXCEPT
                                    !.parentTableId = 4, !.columnMappings = <<[child |-> 6, parent |-> 7]>>]
    @@ schema

Types ==
    Each(<<"TEXT", "SMALLINT", "INT", "BIGINT", "FLOAT", "DOUBLE", "BOOLEAN", "DATE", "TIME", "DATETIME", "TIMESTAMPTZ",
           "BLOB", "JSON", "UUID">>, Plain)
    \o Each(<<"SMALLINT", "INT", "BIGINT">>, LAMBDA n : Unsigned(Plain(n)))
    \o <<Sized("CHAR", <<36>>), Sized("CHAR", <<3>>), Sized("VARCHAR", <<9>>), Sized("DECIMAL", <<9, 2>>),
         Sized("DECIMAL", <<10, 0>>), Plain("GEOMETRY")>>
TypedSchema ==
        <<"table", 1>> :> TableIn(None, <<4>>, <<1>>)
        @@ [k \in {<<"column", i + 1>> : i \in DOMAIN Types} |->
              ColumnOf(1, <<100 + k[2]>>, <<1>>, Types[k[2] - 1], k[2] - 2)]

Places == {1, 2, None}
MCExportedSchemas ==
    {Schema(g, h, <<5>>, <<12>>, o, Nothing) : g \in Places, h \in Places, o \in BOOLEAN}
    \cup {Schema(g, h, <<4>>, n, FALSE, Nothing) : g \in {1, None}, h \in {1, 2}, n \in {<<11>>, <<12>>}}
    \cup {Doubled(Schema(1, 2, <<5>>, <<12>>, o, n)) : o \in BOOLEAN, n \in {Nothing, <<8>>}}
    \cup {Schema(1, 2, <<5>>, <<11>>, FALSE, Nothing), Schema(1, None, Nothing, <<12>>, FALSE, Nothing),
          TypedSchema, EmptyModel}

(* The templates: {groupAlias}_{physicalName}, and logical names as given. *)
MCImportRules ==
    [separator |-> TRUE, logicalSeparator |-> FALSE, tableLogicalTemplate |-> << >>,
     tablePhysicalTemplate |-> <<Variable("groupAlias"), Literal(<<Sep>>), Variable("physicalName")>>]
MCImportWords == <<[id |-> 1, logicalName |-> <<2>>, abbreviation |-> <<5>>]>>
-----------------------------------------------------------------------------
Line(name, note) == [name |-> name, type |-> Plain("INT"), notNull |-> TRUE, pk |-> FALSE, note |-> note]
Create(table, columns, pk, engine) ==
    [kind |-> "create", table |-> table, options |-> engine, columns |-> columns, pk |-> pk, note |-> Nothing]
Foreign(table, columns, refTable, refColumns) ==
    [kind |-> "fk", name |-> <<8>>, table |-> table, columns |-> columns, refTable |-> refTable,
     refColumns |-> refColumns]
UniqueOn(table, columns) == [kind |-> "unique", name |-> Nothing, table |-> table, columns |-> columns]
IndexOn(table, columns) == [kind |-> "index", name |-> <<9>>, table |-> table, columns |-> columns, unique |-> FALSE]

(* Written by hand: a table twice, a key without columns to refer to,      *)
(* columns that are not there, unnamed unique constraints and one that is  *)
(* the key, and three tables that vote about the options.                  *)
HandWritten ==
    [meta |-> NoMeta,
     statements |-> <<Create(<<5>>, <<Line(<<4>>, Nothing), Line(<<5>>, Nothing)>>, <<<<4>>>>, "engine"),
                      Create(<<5>>, <<Line(<<6>>, Nothing)>>, << >>, "none"),
                      Create(<<6>>, <<Line(<<5>>, <<1, Dash, 2>>)>>, << >>, "none"),
                      Create(<<7>>, <<Line(<<5>>, Nothing)>>, << >>, "none"),
                      Foreign(<<6>>, <<<<5>>>>, <<5>>, << >>), Foreign(<<5>>, <<<<9>>>>, <<6>>, <<<<5>>>>),
                      UniqueOn(<<5>>, <<<<4>>>>), UniqueOn(<<5>>, <<<<5>>>>), UniqueOn(<<5>>, <<<<5>>, <<4>>>>),
                      IndexOn(<<5>>, <<<<8>>>>), [kind |-> "insert"]>>]

(* Groups in blocks only, references written the other way round.          *)
Side(table, column) == [table |-> table, columns |-> <<column>>]
Blocks ==
    LET table(name) == [kind |-> "table", table |-> name, note |-> Nothing, headercolor |-> 3,
                        columns |-> <<[Line(<<4>>, Nothing) EXCEPT !.pk = TRUE]>>, indexes |-> << >>]
        ref(op) == [kind |-> "ref", name |-> Nothing, op |-> op, left |-> Side(<<5>>, <<4>>),
                    right |-> Side(<<6>>, <<4>>)]
    IN  [meta |-> NoMeta,
         statements |-> <<table(<<5>>), table(<<6>>),
                          [kind |-> "group", name |-> <<12>>, color |-> None, note |-> Nothing,
                           tables |-> <<<<5>>, <<6>>>>],
                          ref("<"), ref("<>"), ref("-")>>]

PastedText(format, dialect, text) == [format |-> format, dialect |-> dialect, text |-> text]
MCTexts ==
    {Written(f, "mysql", Schema(1, 2, <<5>>, <<12>>, TRUE, Nothing)) : f \in {"ddl", "dbml"}}
    \cup {PastedText("ddl", "postgresql", HandWritten), PastedText("dbml", "mysql", Blocks)}
(* Two tables of different groups, named alike in each.                    *)
MCTextsAlike == {Written("dbml", "mysql", Schema(1, 2, <<4>>, <<12>>, FALSE, Nothing))}

MCFirstSchemas ==
    {EmptyModel, <<"tableGroup", 1>> :> Group(<<12>>, Nothing) @@ <<"table", 2>> :> TableIn(1, <<5>>, <<1>>)}
MCPeerTables == {<<4>>, <<5>>}
=============================================================================
