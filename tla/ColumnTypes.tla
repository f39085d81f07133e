----------------------------- MODULE ColumnTypes -----------------------------
(***************************************************************************)
(* The Go type that the generator gives a column (codegen/generate.go),    *)
(* from its dialect and database type.  A column is a record with at least *)
(* dialect, type (in lower case), unsigned and nullable.                   *)
(***************************************************************************)
EXTENDS Integers

isUUIDType(c) == c.dialect \in {"postgresql", "sqlite"} /\ c.type = "uuid"
isJSONType(c) == c.type \in {"json", "jsonb"}
isTimeType(c) ==
  \/ c.type \in {"date", "timestamp"}
  \/ c.type = "timestamptz" /\ c.dialect = "postgresql"
  \/ c.type = "datetime" /\ c.dialect # "postgresql"

\* By what the declared type contains; these are the types that occur here.
sqliteAffinity(type) ==
  CASE type \in {"", "blob"}                                    -> "blob"
    [] type \in {"integer", "int", "bigint", "floating point"}  -> "integer"
    [] type \in {"text", "varchar(9)", "clob"}                  -> "text"
    [] type \in {"real", "float", "double"}                     -> "real"
    [] OTHER                                                    -> "numeric"

\* Fault: UNSIGNED is overlooked.
SignedAlways(c, signed, unsigned) == signed

Signed(c, signed, unsigned) == IF c.unsigned THEN unsigned ELSE signed

SQLiteType(c) ==
  LET affinity == sqliteAffinity(c.type)
  IN CASE affinity = "integer" -> "int64"
       [] affinity = "real"    -> "float64"
       [] affinity = "blob"    -> "[]byte"
       [] affinity = "numeric" -> "Decimal"
       [] affinity = "text"    -> "string"
MySQLType(c) ==
  CASE c.type = "tinyint"                          -> Signed(c, "int8", "uint8")
    [] c.type = "smallint"                         -> Signed(c, "int16", "uint16")
    [] c.type \in {"mediumint", "int", "integer"}  -> Signed(c, "int32", "uint32")
    [] c.type = "bigint"                           -> Signed(c, "int64", "uint64")
    [] c.type \in {"bool", "boolean"}              -> "bool"
    [] c.type \in {"binary", "varbinary", "tinyblob", "blob", "mediumblob", "longblob"} -> "[]byte"
    [] c.type = "float"                            -> "float32"
    [] c.type \in {"double", "real"}               -> "float64"
    [] c.type \in {"decimal", "numeric"}           -> "Decimal"
    [] OTHER                                       -> "string"
PostgreSQLType(c) ==
  CASE c.type \in {"int8", "bigint", "bigserial"}      -> "int64"
    [] c.type \in {"int4", "integer", "serial"}        -> "int32"
    [] c.type \in {"int2", "smallint", "smallserial"}  -> "int16"
    [] c.type \in {"bool", "boolean"}                  -> "bool"
    [] c.type = "bytea"                                -> "[]byte"
    [] c.type \in {"float4", "real"}                   -> "float32"
    [] c.type \in {"float8", "double precision"}       -> "float64"
    [] c.type \in {"numeric", "decimal"}               -> "Decimal"
    [] OTHER                                           -> "string"

goType(c) ==
  IF isUUIDType(c) THEN "uuid.UUID"
  ELSE IF isJSONType(c) THEN "jsontext.Value"
  ELSE IF isTimeType(c) THEN "time.Time"
  ELSE CASE c.dialect = "sqlite"     -> SQLiteType(c)
         [] c.dialect = "mysql"      -> MySQLType(c)
         [] c.dialect = "postgresql" -> PostgreSQLType(c)

\* The types of SUM and AVG, none for a column that is not numeric.
numericAggregateTypes(c) ==
  LET types(sum, avg) == [SUM |-> sum, AVG |-> avg]
      none  == types("", "")
      exact == types("Decimal", "Decimal")
      float == types("float64", "float64")
      affinity == sqliteAffinity(c.type)
  IN IF isUUIDType(c) \/ isJSONType(c) \/ isTimeType(c) THEN none
     ELSE CASE c.dialect = "sqlite" ->
                 (CASE affinity = "integer" -> types("int64", "float64")
                    [] affinity = "real"    -> float
                    [] affinity = "numeric" -> exact
                    [] OTHER                -> none)
            [] c.dialect = "mysql" ->
                 (CASE c.type \in {"tinyint", "smallint", "mediumint", "int", "integer", "bigint",
                                  "decimal", "numeric"}      -> exact
                    [] c.type \in {"float", "double", "real"} -> float
                    [] OTHER                                  -> none)
            [] c.dialect = "postgresql" ->
                 (CASE c.type \in {"int2", "smallint", "smallserial",
                                  "int4", "integer", "serial"} -> types("int64", "Decimal")
                    [] c.type \in {"int8", "bigint", "bigserial", "numeric", "decimal"} -> exact
                    [] c.type \in {"float4", "real"} -> types("float32", "float64")
                    [] c.type \in {"float8", "double precision"} -> float
                    [] OTHER -> none)
=============================================================================
