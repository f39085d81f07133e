----------------------------- MODULE MC_Generate -----------------------------
(***************************************************************************)
(* A small database for Generate.                                          *)
(***************************************************************************)
EXTENDS Generate

col(name, kind, nullable) == [name |-> name, kind |-> kind, nullable |-> nullable]
key(name, kind, columns) == [name |-> name, kind |-> kind, columns |-> columns]
fk(name, columns, table, primary, referencedColumns, omitted) ==
  [name |-> name, columns |-> columns, schema |-> Own, table |-> table, key |-> primary,
   referencedColumns |-> referencedColumns, omitted |-> omitted]
def(columns, keys, foreignKeys) ==
  [columns |-> columns, keys |-> keys, foreignKeys |-> foreignKeys]

\* MySQL's primary keys have no names of their own.
Styles == {"named", "PRIMARY"}
pkey(style, table) == IF style = "named" THEN table \o "_pkey" ELSE "PRIMARY"

Id == col("id", "identity", FALSE)
Users(style) ==
  def(<<Id, col("email", "plain", FALSE), col("name", "default", FALSE),
        col("initials", "generated", TRUE), col("since", "expression", FALSE)>>,
      <<key(pkey(style, "users"), "PRIMARY KEY", <<"id">>),
        key("users_email", "UNIQUE", <<"email">>)>>
        \o IF style = "named"
           THEN <<key("users_live", "PARTIAL", <<"name">>), key("users_low", "EXPRESSION", <<>>)>>
           ELSE <<>>,
      <<>>)
\* A key of two columns.
Members(style) ==
  def(<<col("team", "plain", FALSE), col("user", "plain", FALSE)>>,
      <<key(pkey(style, "members"), "PRIMARY KEY", <<"team", "user">>)>>,
      <<fk("owner", <<"user">>, "users", pkey(style, "users"), <<"id">>, TRUE)>>)
\* Orders references that key in the other order; Notes shares the name of a
\* constraint with Members, and leaves the schema; in MySQL it has a key of that
\* name as well.
Orders(style) ==
  def(<<col("by", "plain", FALSE), col("of", "plain", TRUE)>>,
      <<>>,
      <<fk("orders_member", <<"by", "of">>, "members", pkey(style, "members"),
           <<"user", "team">>, FALSE)>>)
Notes(style) ==
  def(<<col("user", "plain", TRUE), col("account", "plain", FALSE)>>,
      IF style = "named" THEN <<>> ELSE <<key("owner", "UNIQUE", <<"user", "account">>)>>,
      <<fk("owner", <<"user">>, "users", pkey(style, "users"), <<"id">>, FALSE),
        [fk("notes_account", <<"account">>, "accounts", "accounts_pkey", <<"id">>, FALSE)
           EXCEPT !.schema = "other"]>>)
\* Only SQLite takes a reference to a key by too few columns.
Short == def(<<col("user", "plain", TRUE)>>, <<>>,
             <<fk("short", <<"user">>, "members", "", <<"team">>, TRUE)>>)
\* Tables for names only.
Plain(labels) == def([i \in DOMAIN labels |-> col(labels[i], "plain", FALSE)], <<>>, <<>>)

MCTableOrder == <<"members", "notes", "nullable_user", "orders", "user", "users">>
MCDefinitions ==
  [t \in TableNames |->
     CASE t = "users"   -> {Users(s) : s \in Styles}
       [] t = "members" -> {Members(s) : s \in Styles}
       [] t = "orders"  -> {Orders(s) : s \in Styles} \union {Plain(<<"by", "select">>)}
       [] t = "notes"   -> {Notes(s) : s \in Styles} \union {Short}
       [] OTHER         -> {Plain(<<"id">>), Plain(<<"user_id", "user-id">>), Plain(<<"1st">>)}]

Bases(style) ==
  LET all == [t \in {"members", "notes", "orders", "users"} |->
                CASE t = "members" -> Members(style) [] t = "notes" -> Notes(style)
                  [] t = "orders" -> Orders(style) [] t = "users" -> Users(style)]
  IN {[t \in S |-> all[t]] : S \in {{}, {"users"}, {"members", "users"},
                                    {"members", "orders", "users"}, {"members", "notes", "users"}}}
MCInitially ==
  UNION {Bases(s) : s \in Styles}
    \union {[t \in {"nullable_user", "orders"} |-> Plain(<<"id">>)]}
MCElsewhere ==
  {[schema |-> "other", table |-> "accounts", name |-> "accounts_pkey", kind |-> "PRIMARY KEY",
    columns |-> <<"id">>]}

MCSingular ==
  [t \in TableNames |->
     CASE t = "members" -> "member" [] t = "notes" -> "note" [] t = "orders" -> "order"
       [] t = "users" -> "user" [] OTHER -> t]
MCParts ==
  [n \in {"member", "note", "nullable_user", "order", "user", "id", "email", "name", "initials",
          "since", "team", "by", "of", "account", "select", "user_id", "user-id", "1st"} |->
     CASE n = "nullable_user" -> <<"nullable", "user">>
       [] n \in {"user_id", "user-id"} -> <<"user", "id">>
       [] OTHER -> <<n>>]
MCCapital ==
  [p \in {MCParts[n][i] : n \in DOMAIN MCParts, i \in {1}} \union {"user", "id"} |->
     CASE p = "member" -> "Member" [] p = "note" -> "Note" [] p = "nullable" -> "Nullable"
       [] p = "order" -> "Order" [] p = "user" -> "User" [] p = "id" -> "ID"
       [] p = "email" -> "Email" [] p = "name" -> "Name" [] p = "initials" -> "Initials"
       [] p = "since" -> "Since" [] p = "team" -> "Team" [] p = "by" -> "By" [] p = "of" -> "Of"
       [] p = "account" -> "Account" [] p = "select" -> "Select" [] p = "1st" -> "1st"]
=============================================================================
