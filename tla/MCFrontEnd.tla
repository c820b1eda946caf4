----------------------------- MODULE MCFrontEnd -----------------------------
(***************************************************************************)
(* Statements as their syntax trees, of every kind and most of them with   *)
(* something that may go wrong, on catalogs with and without indexes.      *)
(***************************************************************************)
EXTENDS FrontEnd

LowerNames == "A" :> "a" @@ "K" :> "k" @@ "T" :> "t" @@ "V" :> "v" @@ "COUNT" :> "count"
              @@ "Sum" :> "sum" @@ "RAW" :> "raw"

Widths == "smallint" :> 1 @@ "integer" :> 3 @@ "bigint" :> 7

(***************************************************************************)
(* Trees                                                                   *)
(***************************************************************************)
Id(name) == [value |-> name, quoted |-> FALSE]
Quoted(name) == [value |-> name, quoted |-> TRUE]

C(name) == [kind |-> "identifier", ident |-> Id(name)]
Q(alias, name) == [kind |-> "compound", idents |-> <<Id(alias), Id(name)>>]
SQ(schema, table, name) == [kind |-> "compound", idents |-> <<Id(schema), Id(table), Id(name)>>]
N(n) == [kind |-> "value", value |-> <<"number", n>>]
S(text) == [kind |-> "value", value |-> <<"string", text>>]
True == [kind |-> "value", value |-> <<"boolean", 1>>]
NoValue == [kind |-> "value", value |-> <<"null", Null>>]
B(left, op, right) == [kind |-> "binary", op |-> op, left |-> left, right |-> right]
U(op, expr) == [kind |-> "unary", op |-> op, expr |-> expr]
IsNil(expr) == [kind |-> "is null", expr |-> expr]
Nested(expr) == [kind |-> "nested", expr |-> expr]

Arg(expr) == [kind |-> "unnamed", expr |-> expr]
Star == [kind |-> "wildcard"]
F(name, args) == [kind |-> "function", name |-> <<Id(name)>>, args |-> args, clauses |-> {}]
CountAll == F("COUNT", <<Star>>)
SumOfColumn(name) == F("Sum", <<Arg(C(name))>>)

Table(name, alias) ==
  [kind |-> "table", name |-> <<Id(name)>>, alias |-> alias, clauses |-> {}]
As(name, alias) == Table(name, <<Id(alias)>>)
Only(factor) == [relation |-> factor, joins |-> <<>>]
T == Only(Table("t", <<>>))
Join(operator, factor, on) ==
  [operator |-> operator, relation |-> factor, clauses |-> {},
   constraint |-> IF on = <<>> THEN [kind |-> "none"] ELSE [kind |-> "on", expr |-> on[1]]]
With(factor, joins) == [relation |-> factor, joins |-> joins]

Body(items, from, where, group_by) ==
  [kind |-> "select", from |-> <<from>>, projection |-> items, selection |-> where,
   group_by |-> group_by, clauses |-> {}]
Query(body, order_by, limit) ==
  [kind |-> "query", body |-> body, order_by |-> order_by, limit |-> limit, clauses |-> {}]
By(expr, asc, nulls_first) == [expr |-> expr, asc |-> asc, nulls_first |-> nulls_first]
Args(exprs) == [i \in DOMAIN exprs |-> Arg(exprs[i])]

Select(exprs, from, where) == Query(Body(Args(exprs), from, where, <<>>), <<>>, <<>>)
Group(exprs, from, group_by, order_by) ==
  Query(Body(Args(exprs), from, <<>>, group_by), order_by, <<>>)

Values(rows) == Query([kind |-> "values", rows |-> rows], <<>>, <<>>)
Insert(table, columns, source) ==
  [kind |-> "insert", target |-> "table", table |-> <<Id(table)>>,
   columns |-> [i \in DOMAIN columns |-> <<Id(columns[i])>>], source |-> <<source>>]
Set(name, value) == [target |-> <<Id(name)>>, value |-> value]
Update(assignments, where) ==
  [kind |-> "update", table |-> T, assignments |-> assignments, selection |-> where,
   clauses |-> {}]
Delete(table, where) ==
  [kind |-> "delete", from |-> <<Only(Table(table, <<>>))>>, selection |-> where,
   clauses |-> {}]
Explain(statement, options) ==
  [kind |-> "explain", statement |-> statement, options |-> options, clauses |-> {}]
Raw == [name |-> "RAW", arg |-> <<>>]

ColumnOf(name, type, size, options) ==
  [name |-> Id(name), type |-> [name |-> type, size |-> size], options |-> options]
IntColumn(name) == ColumnOf(name, "int", <<>>, {})
Varchar(name, size) == ColumnOf(name, "varchar", size, {})
KeyOf(name) == [expr |-> C(name), clauses |-> {}]
PrimaryKey(names) ==
  [kind |-> "primary key", columns |-> [i \in DOMAIN names |-> KeyOf(names[i])]]
CreateTable(name, columns, constraints) ==
  [kind |-> "create table", name |-> <<Id(name)>>, columns |-> columns,
   constraints |-> constraints]
CreateIndex(name, table, names) ==
  [kind |-> "create index", name |-> <<<<Id(name)>>>>, table |-> <<Id(table)>>,
   columns |-> [i \in DOMAIN names |-> KeyOf(names[i])], clauses |-> {}]

(***************************************************************************)
(* Catalogs                                                                *)
(***************************************************************************)
Plain(name, type) == [name |-> name, type |-> type, varchar_size |-> <<>>]
TColumns == <<Plain("k", "integer"), Plain("v", "integer")>>
UColumns == <<Plain("k", "integer"), [name |-> "w", type |-> "varchar", varchar_size |-> <<2>>]>>
On(key_attrs) == [key_attrs |-> key_attrs, is_pk |-> FALSE]

TwoTables(indexes_t, indexes_u) ==
  "t" :> [schema |-> TColumns, indexes |-> indexes_t]
  @@ "u" :> [schema |-> UColumns, indexes |-> indexes_u]

Catalogs == {<<>>, TwoTables("i" :> On(<<1>>), <<>>), TwoTables("i" :> On(<<2, 1>>), "i" :> On(<<1>>))}

(***************************************************************************)
(* Queries                                                                 *)
(***************************************************************************)
K == C("k")
V == C("v")
JoinTU(operator, on) == With(Table("t", <<>>), <<Join(operator, Table("u", <<>>), on)>>)
SelfJoin(operator, on) == With(As("t", "a"), <<Join(operator, As("t", "b"), on)>>)
Equal(l, r) == B(l, "=", r)
Unsorted == <<>>

SimpleQueries ==
  { Select(<<C("K"), Q("T", "v")>>, T, <<B(V, ">", N(1))>>),
    Select(<<K>>, Only(As("t", "A")), <<Equal(Q("a", "v"), N(1))>>),
    Select(<<Q("t", "k")>>, Only(As("t", "A")), <<>>),
    Select(<<K>>, Only(Table("T", <<>>)), <<>>),
    Select(<<K>>, Only([Table("t", <<>>) EXCEPT !.name = <<Quoted("t")>>]), <<>>),
    Select(<<V, K>>, T, <<B(IsNil(V), "or", U("not", Equal(V, K)))>>),
    Select(<<>>, T, <<>>),
    Select(<<SQ("s", "t", "k")>>, T, <<>>),
    Select(<<C("x"), SQ("s", "t", "k")>>, T, <<>>),
    Select(<<SQ("s", "t", "k"), C("x")>>, T, <<>>),
    Select(<<B(S("ab"), "<>", C("w"))>>, Only(Table("u", <<>>)), <<>>),
    Select(<<N(9)>>, T, <<>>),
    Select(<<K>>, T, <<B(V, "like", K)>>),
    Select(<<U("-", Nested(B(V, "-", N(1))))>>, T, <<>>),
    Query(Body(<<Star>>, T, <<True>>, <<>>), <<By(V, <<FALSE>>, <<>>), By(B(K, "+", N(1)), <<>>, <<TRUE>>)>>, <<N(1)>>),
    Query(Body(<<Star, Arg(V)>>, T, <<>>, <<>>), <<By(C("w"), <<TRUE>>, <<FALSE>>)>>, <<>>),
    Query(Body(Args(<<K>>), T, <<>>, <<>>), <<>>, <<V>>),
    Query(Body(Args(<<K>>), T, <<>>, <<>>), <<By(CountAll, <<>>, <<>>)>>, <<>>),
    Query(Body(<<[kind |-> "alias", expr |-> K]>>, T, <<>>, <<>>), <<>>, <<>>),
    [Select(<<K>>, T, <<>>) EXCEPT !.clauses = {"offset"}],
    [Select(<<K>>, T, <<>>) EXCEPT !.clauses = {"with"}],
    Query([Body(Args(<<K>>), T, <<>>, <<>>) EXCEPT !.from = @ \o @], <<>>, <<>>),
    Query([kind |-> "union"], <<>>, <<>>),
    Values(<< <<N(1)>> >>) }

Joins ==
  { Select(<<V, C("w")>>, JoinTU("left", <<Equal(Q("u", "k"), Q("t", "v"))>>), <<>>),
    Select(<<Q("u", "k")>>, JoinTU("join", <<B(Equal(Q("t", "k"), Q("u", "k")), "and", B(V, ">", N(1)))>>),
           <<Equal(C("w"), S("a"))>>),
    Select(<<K>>, JoinTU("inner", <<Equal(Q("t", "k"), Q("u", "k"))>>), <<>>),
    Query(Body(<<Star>>, JoinTU("cross", <<>>), <<>>, <<>>), <<By(C("w"), <<>>, <<>>)>>, <<N(2)>>),
    Select(<<V>>, JoinTU("cross", <<True>>), <<>>),
    Select(<<V>>, JoinTU("full", <<True>>), <<>>),
    Select(<<V>>, JoinTU("left", <<>>), <<>>),
    Query(Body(<<Star>>, SelfJoin("left", <<B(Equal(Q("b", "v"), Q("a", "k")), "and", Equal(Q("a", "v"), Q("b", "k")))>>),
               <<>>, <<>>), <<By(Q("b", "k"), <<>>, <<>>)>>, <<>>),
    Select(<<Q("b", "k"), Q("a", "k")>>, SelfJoin("inner", <<Equal(Q("a", "v"), Q("b", "k"))>>),
           <<Equal(Q("b", "v"), N(1))>>),
    Select(<<V>>, SelfJoin("inner", <<True>>), <<>>),
    Query(Body(<<Star>>, With(Table("t", <<>>), <<Join("cross", Table("t", <<>>), <<>>)>>), <<>>, <<>>), <<>>, <<>>),
    Select(<<N(1)>>, With(Table("t", <<>>), <<Join("cross", Table("t", <<>>), <<>>)>>), <<>>),
    Select(<<Q("a", "k")>>, With(As("t", "a"), <<Join("cross", As("t", "A"), <<>>)>>), <<>>),
    Select(<<Q("b", "v"), C("w")>>,
           With(As("t", "a"), <<Join("inner", Table("u", <<>>), <<Equal(Q("u", "k"), Q("a", "k"))>>),
                                Join("left", As("t", "b"), <<Equal(Q("b", "k"), Q("u", "k"))>>)>>), <<>>),
    Select(<<Q("a", "v")>>,
           With(As("t", "a"), <<Join("inner", Table("u", <<>>), <<Equal(Q("b", "k"), Q("a", "k"))>>),
                                Join("left", As("t", "b"), <<True>>)>>), <<>>) }

Groups ==
  { Group(<<K, CountAll, B(SumOfColumn("v"), "+", F("min", <<Arg(V)>>))>>, T, <<K>>, <<By(K, <<>>, <<>>)>>),
    Group(<<V>>, T, <<K>>, Unsorted),
    Group(<<K, V>>, T, <<V, K>>, <<By(V, <<FALSE>>, <<>>)>>),
    Group(<<CountAll, V>>, T, <<>>, Unsorted),
    Group(<<SumOfColumn("k"), N(1)>>, T, <<>>, Unsorted),
    Group(<<F("max", <<Arg(CountAll)>>)>>, T, <<>>, Unsorted),
    Group(<<F("max", <<Star>>)>>, T, <<>>, Unsorted),
    Group(<<F("avg", <<Arg(K)>>)>>, T, <<>>, Unsorted),
    Group(<<B(K, "+", N(1))>>, T, <<B(K, "+", N(1))>>, Unsorted),
    Group(<<B(K, "+", V)>>, T, <<K, V>>, Unsorted),
    Group(<<CountAll>>, T, <<K>>, <<By(V, <<>>, <<>>)>>),
    Group(<<K>>, T, <<K, K>>, Unsorted),
    Group(<<CountAll>>, T, <<K, K>>, Unsorted),
    Group(<<K>>, T, <<CountAll>>, Unsorted),
    Group(<<C("w"), SumOfColumn("v")>>, JoinTU("inner", <<Equal(Q("t", "k"), Q("u", "k"))>>), <<C("w")>>,
          <<By(C("w"), <<>>, <<TRUE>>)>>),
    Select(<<K>>, T, <<B(CountAll, ">", N(1))>>) }

(***************************************************************************)
(* Updates, definitions and EXPLAIN                                        *)
(***************************************************************************)
Inserts ==
  { Insert("t", <<>>, Values(<< <<N(1), N(2)>>, <<N(3), NoValue>> >>)),
    Insert("t", <<"V", "k">>, Values(<< <<B(N(1), "+", N(2)), N(1)>> >>)),
    Insert("t", <<"k", "K">>, Values(<< <<N(1), N(2)>> >>)),
    Insert("t", <<"k">>, Values(<< <<N(1)>>, <<N(1), N(2)>> >>)),
    Insert("t", <<>>, Values(<< <<N(1)>> >>)),
    Insert("t", <<"k">>, Values(<< <<S("a")>> >>)),
    Insert("t", <<"k">>, Values(<< <<K>> >>)),
    Insert("t", <<"k">>, Values(<< <<CountAll>> >>)),
    Insert("t", <<"x">>, Values(<< <<N(1)>> >>)),
    Insert("u", <<"w", "k">>, Values(<< <<S("ab"), N(1)>>, <<S("abc"), N(2)>> >>)),
    Insert("u", <<"w">>, Values(<< <<S("abc")>> >>)),
    Insert("u", <<"w">>, Values(<< <<NoValue>> >>)),
    Insert("__t", <<>>, Values(<< <<N(1)>> >>)),
    Insert("t", <<"v">>, Select(<<K>>, Only(Table("u", <<>>)), <<B(C("w"), "<>", S("b"))>>)),
    Insert("u", <<>>, Select(<<V, C("w")>>, JoinTU("left", <<Equal(V, Q("u", "k"))>>), <<>>)),
    Insert("t", <<>>, Query(Body(<<Star>>, T, <<>>, <<>>), <<By(V, <<>>, <<>>)>>, <<N(1)>>)),
    Insert("t", <<"v">>, Select(<<SumOfColumn("k")>>, T, <<>>)),
    Insert("t", <<"v">>, Query([kind |-> "union"], <<>>, <<>>)),
    [Insert("t", <<>>, Values(<<>>)) EXCEPT !.source = <<>>] }

Changes ==
  { Update(<<Set("V", K), Set("k", B(Q("T", "v"), "+", N(1)))>>, <<Equal(Q("t", "k"), N(1))>>),
    Update(<<Set("v", N(1)), Set("v", N(2))>>, <<>>),
    Update(<<Set("v", S("a"))>>, <<>>),
    Update(<<Set("v", IsNil(K))>>, <<>>),
    Update(<<Set("x", K)>>, <<>>),
    Update(<<Set("v", C("x"))>>, <<>>),
    Update(<<Set("v", CountAll)>>, <<>>),
    Update(<<Set("v", K)>>, <<Equal(SQ("s", "t", "k"), N(1))>>),
    Update(<<[target |-> <<Id("t"), Id("v")>>, value |-> K]>>, <<>>),
    [Update(<<Set("v", K)>>, <<>>) EXCEPT !.clauses = {"from"}],
    [Update(<<Set("v", K)>>, <<>>) EXCEPT !.table = SelfJoin("cross", <<>>)],
    Delete("t", <<U("not", B(V, "<=", K))>>),
    Delete("u", <<>>),
    Delete("t", <<C("w")>>),
    Delete("x", <<>>),
    Delete("t", <<B(CountAll, "=", N(1))>>),
    [Delete("t", <<>>) EXCEPT !.clauses = {"using"}] }

Definitions ==
  { CreateTable("t", <<[IntColumn("k") EXCEPT !.options = {"primary key"}], IntColumn("v")>>, <<>>),
    CreateTable("u", <<IntColumn("k"), Varchar("w", <<2>>)>>, <<>>),
    CreateTable("u", <<IntColumn("k"), Varchar("w", <<2>>)>>, <<PrimaryKey(<<"W">>)>>),
    CreateTable("a", <<ColumnOf("k", "double", <<>>, {}), ColumnOf("b", "boolean", <<>>, {})>>,
                <<PrimaryKey(<<"B", "k">>)>>),
    CreateTable("a", <<IntColumn("k"), IntColumn("K")>>, <<>>),
    CreateTable("a", <<IntColumn("k"), IntColumn("v"), IntColumn("w")>>, <<PrimaryKey(<<"k", "v", "w">>)>>),
    CreateTable("a", <<IntColumn("k")>>, <<PrimaryKey(<<"k", "K">>)>>),
    CreateTable("a", <<IntColumn("k")>>, <<PrimaryKey(<<"v">>)>>),
    CreateTable("a", <<[IntColumn("k") EXCEPT !.options = {"primary key"}]>>, <<PrimaryKey(<<"k">>)>>),
    CreateTable("a", <<[IntColumn("k") EXCEPT !.options = {"not null"}]>>, <<>>),
    CreateTable("a", <<IntColumn("k")>>, <<[kind |-> "unique", columns |-> <<>>]>>),
    CreateTable("a", <<Varchar("k", <<>>)>>, <<>>),
    CreateTable("a", <<ColumnOf("k", "date", <<>>, {})>>, <<>>),
    CreateTable("a", <<>>, <<>>),
    CreateIndex("i", "t", <<"K">>),
    CreateIndex("t_pk", "t", <<"v", "k">>),
    CreateIndex("j", "t", <<"k", "x">>),
    CreateIndex("j", "t", <<"k", "k">>),
    CreateIndex("i", "u", <<"k">>),
    CreateIndex("j", "u", <<"w">>),
    CreateIndex("j", "u", <<"k", "w">>),
    CreateIndex("j", "a", <<"v", "w", "k">>),
    CreateIndex("j", "x", <<"k">>),
    [CreateIndex("j", "t", <<"k">>) EXCEPT !.clauses = {"unique"}],
    [CreateIndex("j", "t", <<"k">>) EXCEPT !.clauses = {"where"}],
    [CreateIndex("j", "t", <<"k">>) EXCEPT !.columns[1].clauses = {"asc"}],
    [CreateIndex("j", "t", <<"k">>) EXCEPT !.name = <<>>] }

Explained ==
  {Explain(statement, <<>>) : statement \in Groups}
  \cup {Explain(statement, <<Raw>>) : statement \in Joins}
  \cup { Explain(Insert("t", <<"v">>, Select(<<SumOfColumn("k")>>, T, <<>>)), <<>>),
         Explain(Update(<<Set("v", K)>>, <<>>), <<>>),
         Explain(Delete("t", <<B(V, "=", N(1))>>), <<Raw>>),
         Explain(Delete("t", <<>>), <<[name |-> "analyze", arg |-> <<>>]>>),
         Explain(CreateIndex("j", "t", <<"k">>), <<>>),
         Explain(Explain(Delete("t", <<>>), <<>>), <<>>),
         [Explain(Delete("t", <<>>), <<>>) EXCEPT !.clauses = {"analyze"}] }

Statements == SimpleQueries \cup Joins \cup Groups \cup Inserts \cup Changes \cup Definitions \cup Explained

AllTexts == {<<statement>> : statement \in Statements}
  \cup {<<>>, <<Delete("t", <<>>), Delete("u", <<>>)>>, <<[kind |-> "drop"]>>}

=============================================================================
