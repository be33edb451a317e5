---------------------------- MODULE DialectTypes ----------------------------
(***************************************************************************)
(* Column types on their way to a database's SQL and back: the type tables *)
(* of packages/core/dialect.ts and logical-type.ts.  A logical type and an *)
(* SQL type are a name with arguments and a sign; alternatives are what a  *)
(* type that was read might also have been.                                *)
(***************************************************************************)
EXTENDS Integers, Sequences

CONSTANT UnknownType   \* a name neither table knows

MaxSize == -1    \* (MAX)

Sized(name, args) == [name |-> name, args |-> args, unsigned |-> FALSE]
Plain(name)       == Sized(name, << >>)
Unsigned(type)    == [type EXCEPT !.unsigned = TRUE]

isUnsignedCapable(type) == type.name \in {"SMALLINT", "INT", "BIGINT"}

Row(p, m, o, s) == [postgresql |-> p, mysql |-> m, oracle |-> o, mssql |-> s]
InWords(p, m, o, s) == Row(Plain(p), Plain(m), Plain(o), Plain(s))
FIXED ==
    [TEXT      |-> Row(Plain("TEXT"), Plain("LONGTEXT"), Plain("CLOB"), Sized("NVARCHAR", <<MaxSize>>)),
     SMALLINT  |-> Row(Plain("SMALLINT"), Plain("SMALLINT"), Sized("NUMBER", <<5>>), Plain("SMALLINT")),
     INT       |-> Row(Plain("INTEGER"), Plain("INT"), Sized("NUMBER", <<10>>), Plain("INT")),
     BIGINT    |-> Row(Plain("BIGINT"), Plain("BIGINT"), Sized("NUMBER", <<19>>), Plain("BIGINT")),
     FLOAT     |-> InWords("REAL", "FLOAT", "BINARY_FLOAT", "REAL"),
     DOUBLE    |-> InWords("DOUBLE PRECISION", "DOUBLE", "BINARY_DOUBLE", "FLOAT"),
     BOOLEAN   |-> Row(Plain("BOOLEAN"), Sized("TINYINT", <<1>>), Sized("NUMBER", <<1>>), Plain("BIT")),
     DATE      |-> InWords("DATE", "DATE", "DATE", "DATE"),
     TIME      |-> InWords("TIME", "TIME", "TIMESTAMP", "TIME"),
     DATETIME  |-> InWords("TIMESTAMP", "DATETIME", "DATE", "DATETIME2"),
     TIMESTAMPTZ |-> InWords("TIMESTAMPTZ", "TIMESTAMP", "TIMESTAMP WITH TIME ZONE", "DATETIMEOFFSET"),
     BLOB      |-> Row(Plain("BYTEA"), Plain("LONGBLOB"), Plain("BLOB"), Sized("VARBINARY", <<MaxSize>>)),
     JSON      |-> Row(Plain("JSONB"), Plain("JSON"), Plain("CLOB"), Sized("NVARCHAR", <<MaxSize>>)),
     UUID      |-> Row(Plain("UUID"), Sized("CHAR", <<36>>), Sized("RAW", <<16>>), Plain("UNIQUEIDENTIFIER"))]

SizedNames ==
    [CHAR    |-> [postgresql |-> "CHAR", mysql |-> "CHAR", oracle |-> "CHAR", mssql |-> "NCHAR"],
     VARCHAR |-> [postgresql |-> "VARCHAR", mysql |-> "VARCHAR", oracle |-> "VARCHAR2", mssql |-> "NVARCHAR"],
     DECIMAL |-> [postgresql |-> "NUMERIC", mysql |-> "DECIMAL", oracle |-> "NUMBER", mssql |-> "DECIMAL"]]

toDialectType(type, dialect) ==
    IF type.name \in DOMAIN SizedNames THEN Sized(SizedNames[type.name][dialect], type.args)
    ELSE IF type.name \notin DOMAIN FIXED THEN type
    ELSE [FIXED[type.name][dialect] EXCEPT !.unsigned = type.unsigned /\ dialect = "mysql"]

(***************************************************************************)
(* Reading.  Each dialect knows some names in its own way (Fails where a   *)
(* name needs arguments it lacks); every other name is read as a logical   *)
(* type.                                                                   *)
(***************************************************************************)
Reads(type, alternatives) == [type |-> type, alternatives |-> alternatives]
As(name) == Reads(Plain(name), {})
Perhaps(name, alternatives) == Reads(Plain(name), alternatives)
Fails == Reads(UnknownType, {})

Integral == [n \in {1, 5, 10, 19} |->
               CASE n = 1 -> "BOOLEAN" [] n = 5 -> "SMALLINT" [] n = 10 -> "INT" [] n = 19 -> "BIGINT"]

fromOracle(sql) ==
    CASE sql.name = "NUMBER" ->
            (CASE sql.args = << >> -> Fails
               [] Len(sql.args) = 2 -> Reads(Sized("DECIMAL", sql.args), {})
               [] Len(sql.args) = 1 /\ sql.args[1] \in DOMAIN Integral ->
                     Perhaps(Integral[sql.args[1]], {"DECIMAL"})
               [] OTHER -> Reads(Sized("DECIMAL", <<sql.args[1], 0>>), {}))
      [] sql.name = "DATE" -> Perhaps("DATETIME", {"DATE"})
      [] sql.name = "TIMESTAMP" -> Perhaps("DATETIME", {"TIME"})
      [] sql.name = "TIMESTAMP WITH TIME ZONE" -> As("TIMESTAMPTZ")
      [] sql.name \in {"CLOB", "NCLOB"} -> Perhaps("TEXT", {"JSON"})
      [] sql.name = "BINARY_FLOAT" -> As("FLOAT")
      [] sql.name = "BINARY_DOUBLE" -> As("DOUBLE")
      [] sql.name = "RAW" -> IF sql.args = <<16>> THEN Perhaps("UUID", {"BLOB"}) ELSE As("BLOB")
      [] OTHER -> Fails

fromMysql(sql) ==
    CASE sql.name = "TINYINT" -> IF sql.args = <<1>> THEN Perhaps("BOOLEAN", {"SMALLINT"}) ELSE As("SMALLINT")
      [] sql.name \in {"SMALLINT", "INT", "BIGINT"} -> As(sql.name)
      [] sql.name = "INTEGER" -> As("INT")
      [] sql.name = "CHAR" -> IF sql.args = <<36>> THEN Reads(Sized("CHAR", <<36>>), {"UUID"}) ELSE Fails
      [] sql.name \in {"LONGTEXT", "MEDIUMTEXT", "TINYTEXT"} -> As("TEXT")
      [] sql.name \in {"LONGBLOB", "MEDIUMBLOB", "TINYBLOB"} -> As("BLOB")
      [] sql.name = "TIMESTAMP" -> Perhaps("TIMESTAMPTZ", {"DATETIME"})
      [] OTHER -> Fails

fromMssql(sql) ==
    CASE sql.name \in {"NVARCHAR", "VARCHAR"} ->
            (CASE sql.args = << >> -> Fails
               [] sql.args = <<MaxSize>> -> Perhaps("TEXT", {"JSON"})
               [] OTHER -> Reads(Sized("VARCHAR", <<sql.args[1]>>), {}))
      [] sql.name = "NCHAR" -> IF sql.args = << >> THEN Fails ELSE Reads(Sized("CHAR", <<sql.args[1]>>), {})
      [] sql.name \in {"VARBINARY", "IMAGE"} -> As("BLOB")
      [] sql.name = "BIT" -> As("BOOLEAN")
      [] sql.name \in {"DATETIME", "DATETIME2", "SMALLDATETIME"} -> As("DATETIME")
      [] sql.name = "DATETIMEOFFSET" -> As("TIMESTAMPTZ")
      [] sql.name = "UNIQUEIDENTIFIER" -> As("UUID")
      [] sql.name = "REAL" -> As("FLOAT")
      [] sql.name = "FLOAT" -> Perhaps("DOUBLE", {"FLOAT"})
      [] sql.name \in {"MONEY", "SMALLMONEY"} -> Reads(Sized("DECIMAL", <<19, 4>>), {})
      [] OTHER -> Fails

fromPostgres(sql) ==
    CASE sql.name \in {"JSONB", "JSON"} -> As("JSON")
      [] sql.name = "BYTEA" -> As("BLOB")
      [] sql.name \in {"TIMESTAMPTZ", "TIMESTAMP WITH TIME ZONE"} -> As("TIMESTAMPTZ")
      [] sql.name = "TIMESTAMP WITHOUT TIME ZONE" -> As("DATETIME")
      [] sql.name = "SERIAL" -> As("INT")
      [] sql.name = "BIGSERIAL" -> As("BIGINT")
      [] sql.name = "SMALLSERIAL" -> As("SMALLINT")
      [] sql.name = "REAL" -> As("FLOAT")
      [] sql.name = "CHARACTER VARYING" ->
            IF sql.args = << >> THEN As("TEXT") ELSE Reads(Sized("VARCHAR", <<sql.args[1]>>), {})
      [] OTHER -> Fails

ALIASES == [INTEGER |-> "INT", VARCHAR2 |-> "VARCHAR", NUMERIC |-> "DECIMAL", NUMBER |-> "DECIMAL",
            TIMESTAMP |-> "DATETIME", BOOL |-> "BOOLEAN"]
Canonical(name) ==
    IF name = "DOUBLE PRECISION" THEN "DOUBLE" ELSE IF name \in DOMAIN ALIASES THEN ALIASES[name] ELSE name

(* Strict: as many arguments as the kind takes.                            *)
parseLogicalType(text) ==
    LET kind == Canonical(text.name)
    IN  CASE kind = "DECIMAL" /\ Len(text.args) = 1 -> Reads(Sized(kind, <<text.args[1], 0>>), {})
          [] kind = "DECIMAL" /\ Len(text.args) = 2 -> Reads(Sized(kind, text.args), {})
          [] kind \in {"CHAR", "VARCHAR"} /\ Len(text.args) = 1 /\ text.args[1] # MaxSize ->
                Reads(Sized(kind, text.args), {})
          [] kind \in DOMAIN FIXED /\ text.args = << >> -> As(kind)
          [] OTHER -> Fails

fromDialectType(sql, dialect) ==
    LET special == CASE dialect = "oracle" -> fromOracle(sql) [] dialect = "mysql" -> fromMysql(sql)
                     [] dialect = "mssql" -> fromMssql(sql)   [] dialect = "postgresql" -> fromPostgres(sql)
        base == IF special # Fails THEN special ELSE parseLogicalType(sql)
    IN  IF base = Fails THEN Reads(sql, {"unknown"})
        ELSE IF ~ sql.unsigned THEN base
        ELSE IF isUnsignedCapable(base.type) THEN [base EXCEPT !.type = Unsigned(@)]
        ELSE [base EXCEPT !.alternatives = @ \cup {"unsigned dropped"}]
=============================================================================
