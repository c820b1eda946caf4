---------------------------- MODULE MCStatements ----------------------------
(***************************************************************************)
(* Two tables, t (k, v integer) and u (k integer, w bigint), in four       *)
(* states, and statements that go through every executor, rewrite and      *)
(* error.                                                                  *)
(***************************************************************************)
EXTENDS Statements

Column(name, type) == [name |-> name, type |-> type, varchar_size |-> <<>>]

TwoTables ==
  "t" :> <<Column("k", "integer"), Column("v", "integer")>>
  @@ "u" :> <<Column("k", "integer"), Column("w", "bigint")>>

Widths == "smallint" :> 1 @@ "integer" :> 3 @@ "bigint" :> 7

Integer(n) == <<"integer", n>>

Live(values) == [deleted |-> FALSE, tuple |-> values]
Dead(values) == [deleted |-> TRUE, tuple |-> values]
InT(k, v) == Live(<<Integer(k), Integer(v)>>)
InU(k) == Live(<<Integer(k), <<"bigint", Null>>>>)
In(pages, keys) == [heap |-> pages, indexes |-> keys]

\* Nothing in u and indexes on both; a deleted row, a NULL and rows of u
\* without partner; full pages, duplicates and an index of two columns; a page
\* of deleted rows and the largest integer.
FourStates ==
  { "t" :> In(<< <<InT(1, 3)>> >>, {<<1>>})
      @@ "u" :> In(EmptyHeap, {<<2>>}),
    "t" :> In(<< <<InT(1, 1), Dead(<<Integer(2), Integer(2)>>)>>, <<InT(2, Null)>> >>, {<<1>>})
      @@ "u" :> In(<< <<InU(2), InU(Null)>>, <<InU(1)>> >>, {}),
    "t" :> In(<< <<InT(1, 1), InT(2, 2)>>, <<InT(1, 2), InT(2, 1)>> >>, {<<2, 1>>})
      @@ "u" :> In(<< <<InU(1), InU(2)>>, <<InU(1)>> >>, {<<1>>}),
    "t" :> In(<< <<InT(1, 2), Dead(<<Integer(1), Integer(2)>>)>>,
                 <<Dead(<<Integer(1), Integer(1)>>), Dead(<<Integer(2), Integer(3)>>)>>,
                 <<InT(2, 3)>> >>, {<<1>>, <<2>>})
      @@ "u" :> In(<< <<InU(3)>> >>, {<<1>>}) }

(***************************************************************************)
(* Statements                                                              *)
(***************************************************************************)
Lit(n) == [kind |-> "literal", value |-> Integer(n)]
True == [kind |-> "literal", value |-> <<"boolean", 1>>]
Col(alias, name) == [kind |-> "column", name |-> <<alias, name>>]
Bin(l, op, r) == [kind |-> "binary", op |-> op, left |-> l, right |-> r]
Un(op, e) == [kind |-> "unary", op |-> op, expr |-> e]

From(table, alias) ==
  [kind |-> "table", table |-> table, alias |-> alias, schema |-> TwoTables[table]]
Join(l, type, r, on) ==
  [kind |-> "join", left |-> l, right |-> r, join_type |-> type, condition |-> on]

By(e, desc, nulls_first) == [expression |-> e, desc |-> desc, nulls_first |-> nulls_first]

Select(projection, from, where, order_by, limit) ==
  [kind |-> "select", projection |-> projection, from |-> from, where |-> where,
   group_by |-> <<>>, order_by |-> order_by, limit |-> limit]
Insert(table, columns, source) ==
  [kind |-> "insert", table |-> table, schema |-> TwoTables[table], columns |-> columns,
   source |-> source]
Rows(rows) == [kind |-> "values", rows |-> rows]
Update(table, assignments, where) ==
  [kind |-> "update", table |-> table, schema |-> TwoTables[table],
   assignments |-> assignments, where |-> where]
Set(column, e) == [column |-> column, expression |-> e]
Delete(table, where) ==
  [kind |-> "delete", table |-> table, schema |-> TwoTables[table], where |-> where]
Create(table, key_attrs) ==
  [kind |-> "create index", table |-> table, key_attrs |-> key_attrs]

T == From("t", "t")
U == From("u", "u")
tk == Col("t", "k")
tv == Col("t", "v")
uk == Col("u", "k")
uw == Col("u", "w")

Queries ==
  { Select(<<tk, tv>>, T, <<>>, <<By(tv, TRUE, TRUE), By(tk, FALSE, FALSE)>>, <<>>),
    Select(<<tk, tv>>, T, <<Un("not", Bin(tv, "=", Lit(2)))>>, <<>>, <<Lit(1)>>),
    Select(<<Bin(tv, "+", Lit(1))>>, T, <<>>, <<By(tk, FALSE, TRUE)>>, <<Lit(1)>>),
    Select(<<tk>>, T, <<>>, <<By(Un("-", Bin(tv, "+", Lit(1))), FALSE, FALSE)>>, <<>>),
    Select(<<tk>>, T, <<>>, <<By(tv, FALSE, FALSE)>>, <<Lit(-1)>>),
    Select(<<tv, uk>>, Join(T, "left", U, <<Bin(tv, "=", uk)>>), <<>>, <<>>, <<>>),
    Select(<<uk, tv>>, Join(U, "left", T, <<Bin(tk, "=", uk)>>), <<>>,
           <<By(uk, TRUE, FALSE)>>, <<>>),
    Select(<<uk>>, Join(U, "inner", T, <<Bin(Bin(uk, "=", tv), "and", Bin(uk, "=", tk))>>),
           <<>>, <<>>, <<>>),
    Select(<<tk, uk>>, Join(T, "cross", U, <<>>),
           <<Bin(Bin(uk, "<", tv), "or", Un("is null", uk))>>, <<>>, <<Lit(3)>>),
    Select(<<tk, Col("s", "k")>>,
           Join(Join(T, "left", U, <<Bin(tv, "<", uk)>>), "left", From("t", "s"),
                <<Bin(Bin(Col("s", "v"), "=", uk), "and", Bin(Col("s", "k"), "=", tk))>>),
           <<>>, <<>>, <<>>),
    Select(<<tk>>, Join(T, "inner", U, <<Bin(tk, "=", uw)>>), <<>>, <<>>, <<>>),
    Select(<<tk>>, Join(T, "left", U, <<Bin(tk, "=", uw)>>), <<>>,
           <<By(tv, FALSE, FALSE)>>, <<>>) }

Inserts ==
  { Insert("t", <<"k", "v">>, Rows(<< <<Lit(1), Lit(2)>>, <<Lit(3), Lit(Null)>> >>)),
    Insert("t", <<"v">>, Rows(<< <<Lit(3)>> >>)),
    Insert("t", <<"v", "k">>, Rows(<< <<Lit(1), Lit(2)>>, <<True, Lit(1)>> >>)),
    Insert("u", <<"w">>, Rows(<< <<Lit(1)>> >>)),
    Insert("u", <<"k">>, Select(<<tk>>, T, <<>>, <<By(tv, FALSE, FALSE)>>, <<>>)),
    Insert("t", <<"k", "v">>,
           Select(<<uk, Bin(uk, "+", Lit(2))>>, U, <<Un("is not null", uk)>>, <<>>, <<>>)),
    Insert("t", <<"k", "v">>,
           Select(<<tk, Lit(0)>>, T, <<Bin(tv, "=", Lit(1))>>, <<>>, <<>>)),
    Insert("t", <<"k", "v">>, Select(<<tk, tv>>, T, <<>>, <<>>, <<Lit(1)>>)),
    Insert("t", <<"k", "v">>, Select(<<uk, tv>>, Join(U, "inner", T, <<>>), <<>>, <<>>, <<>>)) }

Changes ==
  { Update("t", <<Set("k", tv), Set("v", tk)>>, <<Bin(tk, "=", Lit(1))>>),
    Update("t", <<Set("v", Bin(tv, "+", Lit(1)))>>, <<>>),
    Update("t", <<Set("v", Bin(tv, "+", Lit(1)))>>, <<Bin(tv, ">", Lit(1))>>),
    Update("t", <<Set("k", Lit(Null))>>, <<Bin(tv, "=", Lit(2))>>),
    Update("u", <<Set("k", Bin(uk, "+", uw))>>, <<>>),
    Update("u", <<Set("w", Lit(1))>>, <<>>),
    Delete("t", <<Bin(tv, "<=", Lit(1))>>),
    Delete("u", <<Un("is null", uw)>>),
    Delete("t", <<Bin(Bin(tv, "+", Lit(1)), ">", Lit(2))>>) }

Indexes == {Create("t", <<1>>), Create("t", <<2, 1>>), Create("u", <<1>>)}

AllStatements == Queries \cup Inserts \cup Changes \cup Indexes
=============================================================================
