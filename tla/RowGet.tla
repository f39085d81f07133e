------------------------------- MODULE RowGet -------------------------------
(***************************************************************************)
(* Reading a result row (statement.go): a statement remembers where each   *)
(* selected expression stands, ScanRow takes what the driver delivers, and *)
(* Get turns it into the Go type of the key, which generation fixed from   *)
(* the column's database type.                                             *)
(***************************************************************************)
EXTENDS ColumnTypes, Sequences, FiniteSets, Functions

CONSTANTS
  Schemas,      \* sets of columns that are selected together
  Drivers,      \* Drivers[dialect]: how rows may be read, "sql" or "pgx"
  Bits,         \* Bits[n]: how many bits an n-bit integer has here
  MaxSelected   \* bound: expressions in a projection

VARIABLES
  schema, driver,
  projection,   \* the selected keys, in order
  positions,    \* of the built statement: from identities to positions
  stored,       \* the database's row: from expressions to values
  row,          \* the scanned row: what the driver delivered, by position
  got           \* the last read: a key and its result
vars == <<schema, driver, projection, positions, stored, row, got>>
-----------------------------------------------------------------------------
(***************************************************************************)
(* Values.  <<"number", h>> is h halves; text, JSON documents, UUIDs,      *)
(* times, Booleans and byte strings are numbered.  A driver delivers a     *)
(* value in some Go type, where strings and byte slices stand for what     *)
(* they spell; <<"char", n>> is the one character with code n.  JSON       *)
(* documents are "json" for objects, numbers, "quoted" for strings and     *)
(* "json null".                                                            *)
(***************************************************************************)
Null == <<"null", 0>>
Nothing == [ok |-> FALSE, value |-> Null]
Go(type, v) == [type |-> type, v |-> v]
Nil == Go("nil", Null)

IntegerTypes ==
  [t \in {"int8", "int16", "int32", "int64", "uint8", "uint16", "uint32", "uint64"} |->
     [signed |-> t \in {"int8", "int16", "int32", "int64"},
      bits |-> Bits[CASE t \in {"int8", "uint8"} -> 8 [] t \in {"int16", "uint16"} -> 16
                      [] t \in {"int32", "uint32"} -> 32 [] t \in {"int64", "uint64"} -> 64]]]
Integer == DOMAIN IntegerTypes
Float == {"float32", "float64"}
Text == {"string", "Decimal"}
Slice == {"[]byte", "jsontext.Value"}

\* Go's integer conversion keeps the low bits.
Wrap(n, t) ==
  LET size == 2 ^ IntegerTypes[t].bits
      low  == n % size
  IN IF IntegerTypes[t].signed /\ low >= size \div 2 THEN low - size ELSE low
Truncated(h) == IF h >= 0 THEN h \div 2 ELSE -((-h) \div 2)

\* reflect's ConvertibleTo and Convert.
Convertible(from, to) ==
  \/ from = to
  \/ from \in Integer \union Float /\ to \in Integer \union Float
  \/ from \in Integer /\ to \in Text
  \/ from \in Text \union Slice /\ to \in Text \union Slice
Convert(raw, to) ==
  IF raw.type \notin Integer \union Float THEN raw.v
  ELSE IF to \in Integer THEN <<"number", 2 * Wrap(Truncated(raw.v[2]), to)>>
  ELSE IF to \in Text THEN <<"char", Truncated(raw.v[2])>>
  ELSE raw.v
-----------------------------------------------------------------------------
(***************************************************************************)
(* Keys: a column of a table, as itself or through an outer join, or an    *)
(* aggregate of it.                                                        *)
(***************************************************************************)
Functions(c) ==
  {"", "COUNT", "MIN", "MAX"}
    \union (IF numericAggregateTypes(c).SUM = "" THEN {} ELSE {"SUM", "AVG"})
Keys ==
  UNION {{[column |-> c, function |-> f, outer |-> o] :
            f \in Functions(c) \cap c.functions, o \in c.outer} : c \in schema}

\* Fault: a column is known by its name.
NameOnly(key) == key.column.name

id(key) ==
  LET c == key.column
  IN IF key.function = "" THEN c.qualifier \o "." \o c.name
     ELSE key.function \o "(" \o c.qualifier \o "." \o c.name \o ")"

resultType(key) ==
  CASE key.function \in {"", "MIN", "MAX"} -> goType(key.column)
    [] key.function = "COUNT"              -> "int64"
    [] key.function = "SUM"                -> numericAggregateTypes(key.column).SUM
    [] key.function = "AVG"                -> numericAggregateTypes(key.column).AVG

\* sql.Null of the type
optional(key) ==
  CASE key.function = ""      -> key.column.nullable \/ key.outer
    [] key.function = "COUNT" -> FALSE
    [] OTHER                  -> TRUE
-----------------------------------------------------------------------------
(***************************************************************************)
(* The database and its driver.  The columns say what they may hold.       *)
(***************************************************************************)
Expression(key) == [column |-> key.column, function |-> key.function]
\* PostgreSQL orders no Booleans, UUIDs, documents or byte strings.
Evaluates(e) ==
  e.column.dialect = "postgresql" /\ e.function \in {"MIN", "MAX"} =>
    e.column.type \notin {"bool", "uuid", "json", "jsonb", "bytea"}
\* SQLite refuses a sum beyond 64 bits.
Sums(c) ==
  {h \in {x[2] + y[2] : x, y \in c.holds} :
     c.dialect = "sqlite" => Wrap(Truncated(h), "int64") = Truncated(h)}
Values(e) ==
  CASE e.function = ""      -> e.column.holds \union
                                 (IF e.column.nullable \/ TRUE \in e.column.outer THEN {Null} ELSE {})
    [] e.function = "COUNT" -> {<<"number", 0>>, <<"number", 4>>}
    [] e.function = "SUM"   -> {<<"number", h>> : h \in Sums(e.column)} \union {Null}
    [] e.function = "AVG"   -> {<<"number", h \div 2>> : h \in Sums(e.column)} \union {Null}
    [] OTHER                -> e.column.holds \union {Null}

\* Statement.Args: what a value is sent as; SQLite returns it as it was sent.
Argument(type) ==
  CASE type = "uuid.UUID"      -> "string"
    [] type = "jsontext.Value" -> "[]byte"
    [] type = "Decimal"        -> "string"
    [] OTHER                   -> type

\* The type that PostgreSQL gives an expression.
PostgresType(e) ==
  LET c == e.column
      short == c.type \in {"int2", "int4"}
  IN CASE e.function \in {"", "MIN", "MAX"} -> c.type
       [] e.function = "COUNT" -> "int8"
       [] e.function = "SUM"   -> IF short THEN "int8" ELSE IF c.type = "int8" THEN "numeric"
                                  ELSE c.type
       [] e.function = "AVG"   -> IF c.type \in {"float4", "float8"} THEN "float8" ELSE "numeric"
\* Without a driver of database/sql in between pgx has structs of its own for
\* numeric, time and interval, and unmarshals documents.
Content(v) == IF v[2] = 1 THEN <<"json", 1>> ELSE <<"text", 2>>
Unmarshalled(v) ==
  CASE v[1] = "json"      -> Go("map[string]any", v)
    [] v[1] = "number"    -> Go("float64", v)
    [] v[1] = "quoted"    -> Go("string", Content(v))
    [] v[1] = "json null" -> Nil
PgxStructs == [t \in {"numeric", "time", "interval"} |->
                 CASE t = "numeric" -> "pgtype.Numeric" [] t = "time" -> "pgtype.Time"
                   [] t = "interval" -> "pgtype.Interval"]
PostgresDelivers(e) ==
  LET t == PostgresType(e)
  IN CASE t \in {"int2", "int4", "int8"} ->
            {IF driver = "sql" THEN "int64" ELSE
               CASE t = "int2" -> "int16" [] t = "int4" -> "int32" [] t = "int8" -> "int64"}
       [] t = "float4"    -> {IF driver = "sql" THEN "float64" ELSE "float32"}
       [] t = "float8"    -> {"float64"}
       [] t \in DOMAIN PgxStructs -> {IF driver = "sql" THEN "string" ELSE PgxStructs[t]}
       [] t = "uuid"      -> {IF driver = "sql" THEN "string" ELSE "[16]byte"}
       [] t \in {"json", "jsonb"} -> {"string", "[]byte"}
       [] t = "bytea"     -> {"[]byte"}
       [] t = "bool"      -> {"bool"}
       [] t = "timestamptz" -> {"time.Time"}
       [] OTHER           -> {"string"}
\* Prepared statements deliver a large BIGINT UNSIGNED as digits.
MySQLDelivers(e, v) ==
  LET c == e.column
      exact == c.type \in {"decimal", "numeric"}
      float == c.type \in {"float", "double"}
      large == v[2] > 2 * (2 ^ (Bits[64] - 1) - 1)
  IN CASE e.function = "COUNT" -> {"int64"}
       [] e.function \in {"SUM", "AVG"} -> {IF float THEN "float64" ELSE "[]byte"}
       [] c.type = "bigint" /\ c.unsigned -> {"uint64", IF large THEN "[]byte" ELSE "int64"}
       [] c.type \in {"tinyint", "smallint", "int", "year"} -> {"int64"}
       [] c.type = "bigint" /\ ~c.unsigned -> {"int64"}
       [] c.type = "float" -> {"float32"}
       [] c.type = "double" -> {"float64"}
       [] c.type = "datetime" -> {"time.Time"}
       [] OTHER -> {"[]byte"}
\* SQLite stores what is integral in an INTEGER or NUMERIC column as an
\* integer, a number sent as text for a document too; SUM and AVG of a REAL
\* column are REAL, and SUM of others with a fraction among them.  Times and
\* Booleans the driver knows by the declared type, which MIN and MAX lack.
SQLiteDelivers(e, v) ==
  LET c        == e.column
      type     == goType(c)
      declared == e.function = ""
      number   == IF v[2] % 2 = 0 THEN "int64" ELSE "float64"
  IN CASE e.function = "COUNT" -> {"int64"}
       [] e.function = "AVG" \/ type = "float64" -> {"float64"}
       [] e.function = "SUM" ->
            {number} \union (IF \E x \in c.holds : x[2] % 2 # 0 THEN {"float64"} ELSE {})
       [] c.type = "boolean" -> {IF declared THEN "bool" ELSE "int64"}
       [] c.type # "boolean" /\ type \in {"int64", "Decimal"} -> {number}
       [] type = "time.Time" -> {IF declared THEN "time.Time" ELSE "string"}
       [] type = "jsontext.Value" -> {"[]byte", IF v[1] = "number" THEN "int64" ELSE "string"}
       [] OTHER -> {Argument(type)}

Delivered(e, v) ==
  IF v = Null THEN {Nil}
  ELSE IF driver = "pgx" /\ PostgresType(e) \in {"json", "jsonb"} THEN {Unmarshalled(v)}
  ELSE {Go(t, v) : t \in CASE e.column.dialect = "postgresql" -> PostgresDelivers(e)
                           [] e.column.dialect = "mysql"      -> MySQLDelivers(e, v)
                           [] e.column.dialect = "sqlite"     -> SQLiteDelivers(e, v)}
-----------------------------------------------------------------------------
(***************************************************************************)
(* Get.                                                                    *)
(***************************************************************************)
Ok(v) == [ok |-> TRUE, value |-> v]

\* Fault: pgx's array is not expected.
uuidText(raw) ==
  IF raw.type \in {"string", "[]byte"} /\ raw.v[1] = "uuid" THEN Ok(raw.v) ELSE Nothing

\* Bytes and strings are parsed.
uuidValue(raw) ==
  IF raw.type = "[16]byte" \/ (raw.type \in {"string", "[]byte"} /\ raw.v[1] = "uuid")
  THEN Ok(raw.v) ELSE Nothing
Documents == {"json", "number", "quoted", "json null"}
jsonValue(raw) ==
  IF raw.type \in {"string", "[]byte"} /\ raw.v[1] \in Documents
  THEN Ok(raw.v) ELSE Nothing

\* A value that is not NULL, required or optional: for the optional Decimal
\* convertibility is asked first, for the required one last.
converted(raw, wanted) ==
  IF wanted = "uuid.UUID" THEN uuidValue(raw)
  ELSE IF wanted = "jsontext.Value" THEN jsonValue(raw)
  ELSE IF raw.type = wanted THEN Ok(raw.v)
  ELSE IF wanted = "Decimal" /\ raw.type \in {"string", "[]byte"} THEN Ok(raw.v)
  ELSE IF Convertible(raw.type, wanted) THEN Ok(Convert(raw, wanted))
  ELSE Nothing

result(raw, key) ==
  IF raw = Nil THEN IF optional(key) THEN Ok(Null) ELSE Nothing
  ELSE converted(raw, resultType(key))
-----------------------------------------------------------------------------
Init ==
  /\ schema \in Schemas
  /\ \E c \in schema : driver \in Drivers[c.dialect]
  /\ projection = <<>> /\ positions = <<>> /\ stored = <<>> /\ row = <<>>
  /\ got = <<>>

Select(key) ==
  /\ positions = <<>> /\ Len(projection) < MaxSelected
  /\ projection' = Append(projection, key)
  /\ UNCHANGED <<schema, driver, positions, stored, row, got>>

\* Fault: the first remains.
FirstPositions(keys) ==
  [name \in {id(keys[i]) : i \in DOMAIN keys} |->
     CHOOSE i \in DOMAIN keys :
       id(keys[i]) = name /\ \A j \in DOMAIN keys : id(keys[j]) = name => i <= j]

\* Of several expressions with one identity the last remains.
Positions(keys) ==
  [name \in {id(keys[i]) : i \in DOMAIN keys} |->
     CHOOSE i \in DOMAIN keys :
       id(keys[i]) = name /\ \A j \in DOMAIN keys : id(keys[j]) = name => j <= i]

newStatement ==
  /\ positions = <<>> /\ projection # <<>>
  /\ positions' = Positions(projection)
  /\ UNCHANGED <<schema, driver, projection, stored, row, got>>

\* Every row is a value of its own; equal expressions of it have equal values and
\* are delivered alike.
ScanRow ==
  /\ positions # <<>> /\ row = <<>>
  /\ \A i \in DOMAIN projection : Evaluates(Expression(projection[i]))
  /\ \E values \in [DOMAIN projection -> UNION {Values(Expression(k)) : k \in Keys}] :
       /\ \A i \in DOMAIN projection : values[i] \in Values(Expression(projection[i]))
       /\ \A i, j \in DOMAIN projection :
            Expression(projection[i]) = Expression(projection[j]) => values[i] = values[j]
       /\ stored' = values
       /\ \E delivered \in [DOMAIN projection ->
                              UNION {Delivered(Expression(projection[i]), values[i]) :
                                       i \in DOMAIN projection}] :
            /\ \A i \in DOMAIN projection :
                 delivered[i] \in Delivered(Expression(projection[i]), values[i])
            /\ \A i, j \in DOMAIN projection :
                 Expression(projection[i]) = Expression(projection[j]) => delivered[i] = delivered[j]
            /\ row' = delivered
  /\ got' = <<>>
  /\ UNCHANGED <<schema, driver, projection, positions>>

\* The database refuses the statement, Scan fails and there is no row: the
\* program has to write another statement.
ScanRowFails ==
  /\ positions # <<>> /\ row = <<>>
  /\ \E i \in DOMAIN projection : ~Evaluates(Expression(projection[i]))
  /\ projection' = <<>> /\ positions' = <<>>
  /\ UNCHANGED <<schema, driver, stored, row, got>>

Get(key) ==
  /\ row # <<>>
  /\ got' = <<key, IF id(key) \in DOMAIN positions THEN result(row[positions[id(key)]], key)
                   ELSE Nothing>>
  /\ UNCHANGED <<schema, driver, projection, positions, stored, row>>

Next == newStatement \/ ScanRow \/ ScanRowFails \/ \E key \in Keys : Select(key) \/ Get(key)

Spec == Init /\ [][Next]_vars
-----------------------------------------------------------------------------
(***************************************************************************)
(* Properties.                                                             *)
(***************************************************************************)
TypeOK ==
  /\ projection \in Seq(Keys) /\ Len(projection) <= MaxSelected
  /\ positions # <<>> => \A i \in DOMAIN projection :
       positions[id(projection[i])] \in i .. Len(projection)
  /\ row # <<>> => DOMAIN row = DOMAIN projection /\ DOMAIN stored = DOMAIN projection
  /\ got # <<>> => row # <<>> /\ got[1] \in Keys

Selected(key) == {i \in DOMAIN projection : Expression(projection[i]) = Expression(key)}

\* Where reflect converts to something else: an integer for text becomes a
\* character (SQLite's NUMERIC, MySQL's YEAR), and a fraction for an integer is
\* cut off (SQLite's INTEGER).  Of what pgx unmarshalled, a document that is a
\* string is read as the document that the string spells, and the document
\* null as NULL.
Misread(key, raw, v) ==
  \/ raw.type \in Integer /\ resultType(key) \in Text
  \/ raw.type = "float64" /\ resultType(key) \in Integer /\ v[2] % 2 # 0
  \/ driver = "pgx" /\ resultType(key) = "jsontext.Value" /\ v[1] \in {"quoted", "json null"}

\* What Get returns for a key is what the database holds for the key's
\* expression in this row, NULL only for NULL and never another column's
\* value; whatever else was selected, and whatever Go type the driver chose.
\* Excepted are the conversions that Misread names, no others.
ReadBack ==
  got # <<>> /\ got[2].ok =>
    /\ Selected(got[1]) # {}
    /\ \A i \in Selected(got[1]) :
         got[2].value = stored[i] \/ Misread(got[1], row[i], stored[i])

\* What the drivers deliver that Get has no conversion for.
Unexpected(key, raw) ==
  LET wanted == resultType(key)
  IN \/ driver = "pgx" /\ (wanted = "jsontext.Value" \/ raw.type \in Range(PgxStructs))
     \/ wanted = "Decimal" /\ raw.type \in {"float64", "bool"}
     \/ wanted = "uint64" /\ raw.type = "[]byte"
     \/ wanted = "time.Time" /\ raw.type = "string"
     \/ wanted = "jsontext.Value" /\ raw.type = "int64"

\* The refusals there are: an expression that was not selected, a NULL for a
\* required type, pgx's structs and unmarshalled documents, a fraction or a
\* Boolean in SQLite's NUMERIC, the digits of a large BIGINT UNSIGNED, MIN and
\* MAX of a time in SQLite, and a number for a document there.  Everything else
\* that the drivers deliver for a generated column or its aggregates can be
\* read.
OnlyKnownRefusals ==
  got # <<>> /\ ~got[2].ok =>
    \/ Selected(got[1]) = {}
    \/ \E i \in Selected(got[1]) :
         (stored[i] = Null /\ ~optional(got[1])) \/ Unexpected(got[1], row[i])

\* A decimal value is its exact text, and what is not text is a conversion
\* failure.
DecimalsAreExact ==
  got # <<>> /\ got[2].ok /\ resultType(got[1]) = "Decimal" /\ got[2].value # Null =>
    \A i \in Selected(got[1]) : got[2].value = stored[i]
=============================================================================
