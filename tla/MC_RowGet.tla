------------------------------ MODULE MC_RowGet ------------------------------
(***************************************************************************)
(* Columns of every generated type, with the limits of what they hold.     *)
(***************************************************************************)
EXTENDS RowGet

MCBits == [n \in {8, 16, 32, 64} |-> CASE n = 8 -> 3 [] n = 16 -> 4 [] n = 32 -> 5 [] n = 64 -> 6]
MCDrivers ==
  [d \in {"postgresql", "mysql", "sqlite"} |->
     IF d = "postgresql" THEN {"sql", "pgx"} ELSE {"sql"}]

All == {"", "COUNT", "SUM", "AVG", "MIN", "MAX"}
column(dialect, qualifier, name, type, holds) ==
  [dialect |-> dialect, qualifier |-> qualifier, name |-> name, type |-> type,
   unsigned |-> FALSE, nullable |-> FALSE, functions |-> All, outer |-> {FALSE},
   holds |-> holds]

Whole(n) == <<"number", 2 * n>>
Limits(n) == {Whole(-(2 ^ (MCBits[n] - 1))), Whole(2 ^ (MCBits[n] - 1) - 1)}
Unsigned(n) == {Whole(0), Whole(2 ^ MCBits[n] - 1)}
Fractions == {<<"number", 3>>, <<"number", -1>>}
Mixed == {Whole(12), <<"number", 3>>}
Documented == {<<"json", 1>>, Whole(1), <<"quoted", 1>>, <<"quoted", 2>>, <<"json null", 1>>}
Some(kind) == {<<kind, 1>>, <<kind, 2>>}

p(name, type, holds) == column("postgresql", "t", name, type, holds)
m(name, type, holds) == column("mysql", "t", name, type, holds)
u(name, type, holds) == [m(name, type, holds) EXCEPT !.unsigned = TRUE]
s(name, type, holds) == column("sqlite", "t", name, type, holds)
Nullable(c) == [c EXCEPT !.nullable = TRUE]
Outer(c) == [c EXCEPT !.outer = {TRUE, FALSE}]

MCSchemas ==
  {{p("a", "int2", Limits(16)), Nullable(p("b", "int4", Limits(32)))},
   {Outer(p("id", "int8", Limits(64))),
    [p("id", "numeric", Fractions) EXCEPT !.qualifier = "u"]},
   {p("a", "float4", Fractions), Nullable(p("b", "float8", Fractions))},
   {p("a", "text", Some("text")), Nullable(p("b", "bytea", Some("bytes")))},
   {Outer(p("a", "bool", Some("bool"))), p("b", "timestamptz", Some("time"))},
   {p("id", "uuid", Some("uuid")), Nullable([p("id", "uuid", Some("uuid"))
                                               EXCEPT !.qualifier = "u"])},
   {p("a", "jsonb", Documented), Nullable(p("b", "json", Documented))},
   {p("a", "time", Some("text")), Nullable(p("b", "interval", Some("text")))},
   {m("a", "tinyint", Limits(8)), u("b", "tinyint", Unsigned(8))},
   {Nullable(m("a", "smallint", Limits(16))), u("b", "smallint", Unsigned(16))},
   {m("a", "int", Limits(32)), Nullable(u("b", "int", Unsigned(32)))},
   {Outer(m("a", "bigint", Limits(64))), u("b", "bigint", Unsigned(64))},
   {m("a", "decimal", Fractions), Nullable(m("b", "float", Fractions))},
   {Outer(m("a", "double", Fractions)), m("b", "varchar", Some("text"))},
   {Nullable(m("a", "blob", Some("bytes"))), m("b", "datetime", Some("time"))},
   {m("a", "json", Some("json")), Nullable(m("b", "json", Some("json")))},
   {m("a", "year", {Whole(5)}), Nullable(m("b", "time", Some("text")))},
   {s("a", "integer", Limits(64)), Nullable(s("b", "real", Fractions))},
   {s("a", "integer", Mixed), Nullable(s("b", "boolean", {Whole(0), Whole(1)}))},
   {s("a", "numeric", Mixed), Nullable(s("b", "text", Some("text")))},
   {s("a", "uuid", Some("uuid")), Nullable(s("b", "json", Some("json") \union {Whole(1)}))},
   {Outer(s("a", "datetime", Some("time"))), s("b", "blob", Some("bytes"))}}

\* A price in SQLite.
MCPrices == {{s("price", "numeric", Mixed)}}

\* A price in PostgreSQL.
MCNumerics == {{p("price", "numeric", Fractions)}}
=============================================================================
