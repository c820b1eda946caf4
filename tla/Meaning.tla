------------------------------ MODULE Meaning ------------------------------
(***************************************************************************)
(* What a statement means, said of its syntax tree alone: the reference    *)
(* against which FrontEnd holds the binder, the planner and the optimizer. *)
(*                                                                         *)
(* The columns of the tables of a FROM, written one after the other, are   *)
(* the places 1, 2, ... of a row, and a column means the one place it can  *)
(* be.  A query means what happens to the rows, and what is then made of   *)
(* each row.  What has no meaning is Meaningless.                          *)
(***************************************************************************)
EXTENDS Parser, Functions

Meaningless == [kind |-> "error"]

(***************************************************************************)
(* Expressions                                                             *)
(***************************************************************************)
At(place) == [kind |-> "at", place |-> place]
Constant(value) == [kind |-> "constant", value |-> value]
Operation(op, operands) == [kind |-> "operation", op |-> op, operands |-> operands]
AggregateOf(function, expr) == [kind |-> "aggregate", function |-> function, expr |-> expr]

\* The errors in what an expression means: FaultsIn, for operations as well.
RECURSIVE IsMeaningful(_)
IsMeaningful(m) ==
  CASE m.kind = "error"     -> FALSE
    [] m.kind = "operation" -> \A i \in DOMAIN m.operands : IsMeaningful(m.operands[i])
    [] m.kind = "aggregate" -> IsMeaningful(m.expr)
    [] OTHER                -> TRUE

AllMeaningful(ms) == \A i \in DOMAIN ms : IsMeaningful(ms[i])

ColumnMeant(qualifier, name, row) ==
  LET Goes(n) == /\ Lower(row[n].name) = Lower(name)
                 /\ qualifier # <<>> => Lower(row[n].alias) = Lower(qualifier[1])
      places == {n \in DOMAIN row : Goes(n)}
  IN IF Cardinality(places) = 1 THEN At(CHOOSE n \in places : TRUE) ELSE Meaningless

RECURSIVE Meant(_, _)
Meant(e, row) ==
  CASE e.kind = "identifier" -> ColumnMeant(<<>>, e.ident.value, row)
    [] e.kind = "compound" /\ Len(e.idents) = 2 ->
         ColumnMeant(<<e.idents[1].value>>, e.idents[2].value, row)
    [] e.kind = "value" /\ convert_value(e.value) # Refused -> Constant(convert_value(e.value).value)
    [] e.kind = "nested" -> Meant(e.expr, row)
    [] e.kind \in {"is null", "is not null"} -> Operation(e.kind, <<Meant(e.expr, row)>>)
    [] e.kind = "unary" /\ e.op \in UnaryOperators -> Operation(e.op, <<Meant(e.expr, row)>>)
    [] e.kind = "binary" /\ e.op \in BinaryOperators ->
         Operation(e.op, <<Meant(e.left, row), Meant(e.right, row)>>)
    [] e.kind = "function" /\ convert_aggregate(e) # Refused ->
         AggregateOf(Lower(e.name[1].value),
                     IF e.args[1].kind = "wildcard" THEN Constant(<<"integer", 1>>)
                     ELSE Meant(e.args[1].expr, row))
    [] OTHER -> Meaningless

MeantAll(exprs, row) == [i \in DOMAIN exprs |-> Meant(exprs[i], row)]

RECURSIVE HasAggregate(_)
HasAggregate(m) ==
  \/ m.kind = "aggregate"
  \/ m.kind = "operation" /\ \E i \in DOMAIN m.operands : HasAggregate(m.operands[i])

\* A conjunction as a set; equations have no sides.
RECURSIVE Conjuncts(_)
Conjuncts(m) ==
  CASE m.kind = "operation" /\ m.op = "and" -> UNION {Conjuncts(m.operands[i]) : i \in {1, 2}}
    [] m.kind = "operation" /\ m.op = "="   -> {[kind |-> "equal", of |-> ToSet(m.operands)]}
    [] OTHER -> {m}

\* The type, and for a varchar the size, that an expression is declared with.
RECURSIVE TypeMeant(_, _)
TypeMeant(m, row) ==
  CASE m.kind = "at"       -> <<row[m.place].type>> \o row[m.place].varchar_size
    [] m.kind = "constant" -> IF m.value[1] # "varchar" THEN <<m.value[1]>>
                              ELSE <<"varchar", Len(m.value[2])>>
    [] m.kind = "aggregate" -> IF m.function = "count" THEN <<"integer">> ELSE TypeMeant(m.expr, row)
    [] m.op \in {"+", "-"}  -> TypeMeant(m.operands[1], row)
    [] OTHER                -> <<"boolean">>

(***************************************************************************)
(* The tables of a FROM                                                    *)
(***************************************************************************)
Factors(table) == <<table.relation>> \o [i \in DOMAIN table.joins |-> table.joins[i].relation]

IsTable(factor, catalog) ==
  /\ factor.kind = "table" /\ factor.clauses = {}
  /\ object_name_to_string(factor.name) \in DOMAIN catalog

AliasOf(factor) ==
  IF factor.alias = <<>> THEN object_name_to_string(factor.name) ELSE factor.alias[1].value

\* The columns of the first n tables of a FROM.
RowOf(factors, n, catalog) ==
  LET ColumnsOf(factor) ==
        LET schema == catalog[object_name_to_string(factor.name)].schema
        IN [c \in DOMAIN schema |-> schema[c] @@ [alias |-> AliasOf(factor)]]
  IN FlattenSeq([i \in 1 .. n |-> ColumnsOf(factors[i])])

TableRow(name, catalog) ==
  [c \in DOMAIN catalog[name].schema |-> catalog[name].schema[c] @@ [alias |-> name]]

Scan(table) == [kind |-> "scan", table |-> table]
Where(conditions, rows) ==
  IF conditions = <<>> THEN rows
  ELSE [kind |-> "where", conditions |-> Conjuncts(conditions[1]), rows |-> rows]

\* The condition of a join is about the tables up to the one that is joined.
JoinCondition(table, i, catalog) ==
  IF table.joins[i].constraint.kind # "on" THEN <<>>
  ELSE <<Meant(table.joins[i].constraint.expr, RowOf(Factors(table), i + 1, catalog))>>

Joined(join_type, left, right, conditions) ==
  [kind |-> "join", join_type |-> join_type, left |-> left, right |-> right,
   on |-> UNION {Conjuncts(conditions[i]) : i \in DOMAIN conditions}]

FromMeant(table, catalog) ==
  LET ScanOf(factor) == Scan(object_name_to_string(factor.name))
      TypeOf(join) == IF join.operator = "join" THEN "inner" ELSE join.operator
      Add(rows, i) == Joined(TypeOf(table.joins[i]), rows, ScanOf(table.joins[i].relation),
                             JoinCondition(table, i, catalog))
  IN FoldLeft(Add, ScanOf(table.relation), [i \in DOMAIN table.joins |-> i])

FromIsMeaningful(table, catalog) ==
  /\ \A i \in DOMAIN Factors(table) : IsTable(Factors(table)[i], catalog)
  /\ \A i \in DOMAIN table.joins :
       /\ ConvertibleJoin(table.joins[i])
       /\ AllMeaningful(JoinCondition(table, i, catalog))

(***************************************************************************)
(* Queries                                                                 *)
(***************************************************************************)
\* A * means every column of the row, each of which its qualified name tells
\* apart.
ProjectionMeant(items, row) ==
  FlattenSeq([i \in DOMAIN items |->
    CASE items[i].kind = "wildcard" ->
           [n \in DOMAIN row |-> ColumnMeant(<<row[n].alias>>, row[n].name, row)]
      [] items[i].kind = "unnamed" -> <<Meant(items[i].expr, row)>>
      [] OTHER -> <<Meaningless>>])

\* The number of aggregates in an expression.
RECURSIVE Aggregates(_)
Aggregates(m) ==
  CASE m.kind = "aggregate" -> 1
    [] m.kind = "operation" -> FoldLeft(LAMBDA n, operand : n + Aggregates(operand), 0, m.operands)
    [] OTHER -> 0

\* A column is known by its qualified name; what has no name of its own by its
\* number among the aggregates or in the row.
NamesMeant(q) ==
  LET Before(i) == FoldLeft(LAMBDA n, j : n + Aggregates(q.output[j]), 0, [j \in 1 .. i - 1 |-> j])
      Name(m, i) ==
        CASE m.kind = "at" -> q.row[m.place].alias \o "." \o q.row[m.place].name
          [] m.kind = "aggregate" -> "__agg#" \o ToString(Before(i))
          [] OTHER -> "__unnamed#" \o ToString(i - 1)
  IN [i \in DOMAIN q.output |-> Name(q.output[i], i)]

\* NULLs are larger than values, unless the clause says where they go.
OrderMeant(item, row) ==
  LET desc == item.asc = <<FALSE>>
  IN [key |-> Meant(item.expr, row), desc |-> desc,
      nulls_first |-> IF item.nulls_first = <<>> THEN desc ELSE item.nulls_first[1]]

\* Of a group, what is grouped by and aggregates of its rows can be told.
RECURSIVE IsOfGroup(_, _)
IsOfGroup(m, keys) ==
  \/ m \in ToSet(keys)
  \/ m.kind = "constant"
  \/ m.kind = "aggregate" /\ ~HasAggregate(m.expr)
  \/ m.kind = "operation" /\ \A i \in DOMAIN m.operands : IsOfGroup(m.operands[i], keys)

\* A column of a group that is grouped by twice cannot be told apart.
RECURSIVE ColumnsOutsideAggregates(_)
ColumnsOutsideAggregates(m) ==
  CASE m.kind = "at"        -> {m}
    [] m.kind = "operation" -> UNION {ColumnsOutsideAggregates(m.operands[i]) :
                                        i \in DOMAIN m.operands}
    [] OTHER -> {}

IsAmbiguousIn(m, keys) ==
  \E column \in ColumnsOutsideAggregates(m) : Cardinality({i \in DOMAIN keys : keys[i] = column}) > 1

\* The parts of a query.
QueryMeant(query, catalog) ==
  LET s == query.body
      row == RowOf(Factors(s.from[1]), Len(Factors(s.from[1])), catalog)
      output == ProjectionMeant(s.projection, row)
      keys == MeantAll(s.group_by, row)
  IN [from |-> FromMeant(s.from[1], catalog), row |-> row, output |-> output,
      where |-> MeantAll(s.selection, row), keys |-> keys,
      grouped |-> keys # <<>> \/ \E i \in DOMAIN output : HasAggregate(output[i]),
      orders |-> [i \in DOMAIN query.order_by |-> OrderMeant(query.order_by[i], row)],
      limit |-> MeantAll(query.limit, <<>>)]

OrderKeys(q) == [i \in DOMAIN q.orders |-> q.orders[i].key]

QueryIsMeaningful(query, catalog) ==
  /\ query.clauses \cap RefusedInQuery = {} /\ query.body.kind = "select"
  /\ query.body.clauses \cap {"group by all", "with rollup"} = {}
  /\ Len(query.body.from) = 1 /\ FromIsMeaningful(query.body.from[1], catalog)
  /\ LET q == QueryMeant(query, catalog) IN
     /\ q.output # <<>>
     /\ AllMeaningful(q.output \o q.where \o q.keys \o OrderKeys(q) \o q.limit)
     /\ \A i \in DOMAIN q.keys : ~HasAggregate(q.keys[i])
     /\ q.grouped => /\ \A i \in DOMAIN q.output : IsOfGroup(q.output[i], q.keys)
                     /\ \A m \in ToSet(q.output \o OrderKeys(q)) : ~IsAmbiguousIn(m, q.keys)

Grouped(keys, rows) == [kind |-> "group", keys |-> keys, rows |-> rows]
Sorted(orders, rows) ==
  IF orders = <<>> THEN rows ELSE [kind |-> "sorted", orders |-> orders, rows |-> rows]
Limited(limit, rows) ==
  IF limit = <<>> THEN rows ELSE [kind |-> "limit", limit |-> limit[1], rows |-> rows]

RowsMeant(q) ==
  LET rows == Where(q.where, q.from)
  IN Limited(q.limit, Sorted(q.orders, IF q.grouped THEN Grouped(q.keys, rows) ELSE rows))

(***************************************************************************)
(* Updates                                                                 *)
(***************************************************************************)
\* The name of a table, and of a column in an INSERT, keeps its quotes.
TargetsOf(insert, catalog) ==
  LET row == TableRow(object_name_to_string(insert.table), catalog)
  IN IF insert.columns = <<>> THEN [n \in DOMAIN row |-> At(n)]
     ELSE [i \in DOMAIN insert.columns |->
             ColumnMeant(<<>>, object_name_to_string(insert.columns[i]), row)]

\* The source of an insert: its rows, what is inserted of each, and the types.
SourceMeant(insert, catalog) ==
  LET query == insert.source[1]
      q == QueryMeant(query, catalog)
      values == [i \in DOMAIN query.body.rows |-> MeantAll(query.body.rows[i], <<>>)]
  IN IF query.body.kind = "values"
     THEN [rows |-> [kind |-> "values", rows |-> values], output |-> [i \in DOMAIN values[1] |-> At(i)],
           types |-> [i \in DOMAIN values[1] |-> TypeMeant(values[1][i], <<>>)]]
     ELSE [rows |-> RowsMeant(q), output |-> q.output,
           types |-> [i \in DOMAIN q.output |-> TypeMeant(q.output[i], q.row)]]

SourceIsMeaningful(insert, columns, catalog) ==
  LET query == insert.source[1] IN
  IF query.body.kind # "values" THEN QueryIsMeaningful(query, catalog)
  ELSE /\ query.body.rows # <<>>
       /\ \A i \in DOMAIN query.body.rows :
            /\ Len(query.body.rows[i]) = columns
            /\ AllMeaningful(MeantAll(query.body.rows[i], <<>>))

\* A value of a type fits into a column of the same type and no smaller size.
Fits(type, column) ==
  type[1] = column.type /\ (type[1] = "varchar" => type[2] <= column.varchar_size[1])

InsertIsMeaningful(insert, catalog) ==
  LET name == object_name_to_string(insert.table)
      targets == TargetsOf(insert, catalog)
      source == SourceMeant(insert, catalog)
  IN /\ insert.source # <<>> /\ insert.target = "table"
     /\ name \in DOMAIN catalog /\ (Len(name) >= 2 => SubSeq(name, 1, 2) # "__")
     /\ AllMeaningful(targets) /\ IsInjective(targets)
     /\ SourceIsMeaningful(insert, Len(targets), catalog)
     /\ Len(source.output) = Len(targets)
     /\ \A i \in DOMAIN targets :
          Fits(source.types[i], catalog[name].schema[targets[i].place])

\* A column that is not a target is NULL.
InsertMeant(insert, catalog) ==
  LET targets == TargetsOf(insert, catalog)
      source == SourceMeant(insert, catalog)
  IN [kind |-> "insert", table |-> object_name_to_string(insert.table), rows |-> source.rows,
      gets |-> {<<targets[i].place, source.output[i]>> : i \in DOMAIN targets}]

\* UPDATE and DELETE go by the name of the table, not by an alias.
UpdateIsMeaningful(update, catalog) ==
  LET row == TableRow(TableName(update.table), catalog)
      Target(i) == ColumnMeant(<<>>, update.assignments[i].target[1].value, row)
      Value(i) == Meant(update.assignments[i].value, row)
  IN /\ update.clauses \cap RefusedInUpdate = {} /\ IsSingleTable(update.table)
     /\ TableName(update.table) \in DOMAIN catalog
     /\ AllMeaningful(MeantAll(update.selection, row))
     /\ \A i \in DOMAIN update.assignments :
          /\ Len(update.assignments[i].target) = 1
          /\ IsMeaningful(Target(i)) /\ IsMeaningful(Value(i))
          /\ TypeMeant(Value(i), row)[1] = row[Target(i).place].type

\* The last assignment to a column counts; one that has none keeps its value.
UpdateMeant(update, catalog) ==
  LET name == TableName(update.table)
      row == TableRow(name, catalog)
      To(n) == {i \in DOMAIN update.assignments :
                  ColumnMeant(<<>>, update.assignments[i].target[1].value, row) = At(n)}
  IN [kind |-> "update", table |-> name,
      rows |-> Where(MeantAll(update.selection, row), Scan(name)),
      gets |-> [n \in DOMAIN row |-> IF To(n) = {} THEN At(n)
                                     ELSE Meant(update.assignments[Max(To(n))].value, row)]]

DeleteIsMeaningful(delete, catalog) ==
  /\ delete.clauses \cap RefusedInDelete = {}
  /\ Len(delete.from) = 1 /\ IsSingleTable(delete.from[1])
  /\ TableName(delete.from[1]) \in DOMAIN catalog
  /\ AllMeaningful(MeantAll(delete.selection, TableRow(TableName(delete.from[1]), catalog)))

DeleteMeant(delete, catalog) ==
  LET name == TableName(delete.from[1])
  IN [kind |-> "delete", table |-> name,
      rows |-> Where(MeantAll(delete.selection, TableRow(name, catalog)), Scan(name))]

(***************************************************************************)
(* Definitions: the catalog that they lead to.                             *)
(***************************************************************************)
IsPlaceIn(name, columns) ==
  Cardinality({c \in DOMAIN columns : Lower(columns[c].name) = Lower(name)}) = 1

PlacesOf(names, columns) ==
  [i \in DOMAIN names |-> CHOOSE c \in DOMAIN columns : Lower(columns[c].name) = Lower(names[i])]

\* One or two columns of the table, each once, and no varchar.
IsKeyOf(names, columns) ==
  /\ Len(names) \in {1, 2}
  /\ \A i \in DOMAIN names : IsPlaceIn(names[i], columns)
  /\ LET places == PlacesOf(names, columns)
     IN IsInjective(places) /\ \A i \in DOMAIN places : columns[places[i]].type # "varchar"

ColumnsMeant(create) ==
  [i \in DOMAIN create.columns |->
     LET type == convert_data_type(create.columns[i].type)
     IN [name |-> create.columns[i].name.value, type |-> type.sql_type,
         varchar_size |-> type.size]]

\* The names of the columns of the primary key, as a column or a constraint says.
PrimaryKeyMeant(create) == NamesOf(FlattenSeq(PrimaryKeys(create)))

CreateTableIsWritten(create) ==
  /\ create.columns # <<>>
  /\ \A i \in DOMAIN create.columns :
       /\ create.columns[i].options \subseteq {"primary key"}
       /\ convert_data_type(create.columns[i].type) # Refused
  /\ \A i \in DOMAIN create.constraints : create.constraints[i].kind = "primary key"
  /\ Len(PrimaryKeys(create)) <= 1
  /\ Refused \notin ToSet(FlattenSeq(PrimaryKeys(create)))

\* The table itself can be made: a new name and columns that can be told apart.
TableCanBeMade(create, catalog) ==
  /\ CreateTableIsWritten(create)
  /\ object_name_to_string(create.name) \notin DOMAIN catalog
  /\ LET columns == ColumnsMeant(create)
         key == PrimaryKeyMeant(create)
     IN /\ \A i \in DOMAIN columns : IsPlaceIn(columns[i].name, columns)
        /\ \A i \in DOMAIN key : IsPlaceIn(key[i], columns)
        /\ IsInjective(PlacesOf(key, columns))

CreateTableIsMeaningful(create, catalog) ==
  /\ TableCanBeMade(create, catalog)
  /\ LET key == PrimaryKeyMeant(create) IN key = <<>> \/ IsKeyOf(key, ColumnsMeant(create))

WithTable(create, indexes, catalog) ==
  object_name_to_string(create.name) :> [schema |-> ColumnsMeant(create), indexes |-> indexes]
  @@ catalog

\* The primary key is an index named after the table.
TableMeant(create, catalog) ==
  LET key == PrimaryKeyMeant(create)
      name == object_name_to_string(create.name) \o "_pk"
  IN WithTable(create, IF key = <<>> THEN <<>>
                       ELSE name :> [key_attrs |-> PlacesOf(key, ColumnsMeant(create)), is_pk |-> TRUE],
               catalog)

IndexColumns(create) ==
  [i \in DOMAIN create.columns |-> convert_index_column(create.columns[i])]

CreateIndexIsMeaningful(create, catalog) ==
  LET table == object_name_to_string(create.table) IN
  /\ create.clauses = {} /\ create.name # <<>> /\ table \in DOMAIN catalog
  /\ Refused \notin ToSet(IndexColumns(create))
  /\ object_name_to_string(create.name[1]) \notin DOMAIN catalog[table].indexes
  /\ IsKeyOf(NamesOf(IndexColumns(create)), catalog[table].schema)

IndexMeant(create, catalog) ==
  LET table == object_name_to_string(create.table)
      key == PlacesOf(NamesOf(IndexColumns(create)), catalog[table].schema)
  IN [catalog EXCEPT ![table].indexes =
        object_name_to_string(create.name[1]) :> [key_attrs |-> key, is_pk |-> FALSE] @@ @]

(***************************************************************************)
(* Statements                                                              *)
(***************************************************************************)
RECURSIVE StatementIsMeaningful(_, _)
StatementIsMeaningful(ast, catalog) ==
  CASE ast.kind = "query"        -> QueryIsMeaningful(ast, catalog)
    [] ast.kind = "insert"       -> InsertIsMeaningful(ast, catalog)
    [] ast.kind = "update"       -> UpdateIsMeaningful(ast, catalog)
    [] ast.kind = "delete"       -> DeleteIsMeaningful(ast, catalog)
    [] ast.kind = "create table" -> CreateTableIsMeaningful(ast, catalog)
    [] ast.kind = "create index" -> CreateIndexIsMeaningful(ast, catalog)
    [] ast.kind = "explain" ->
         /\ ast.clauses = {}
         /\ \/ ast.options = <<>>
            \/ Len(ast.options) = 1 /\ Lower(ast.options[1].name) = "raw" /\ ast.options[1].arg = <<>>
         /\ ast.statement.kind \in {"query", "insert", "update", "delete"}
         /\ StatementIsMeaningful(ast.statement, catalog)
    [] OTHER -> FALSE

\* What a plan is to do.
RECURSIVE WhatToDo(_, _)
WhatToDo(ast, catalog) ==
  LET q == QueryMeant(ast, catalog) IN
  CASE ast.kind = "query" -> [kind |-> "query", rows |-> RowsMeant(q), output |-> q.output,
                              names |-> NamesMeant(q)]
    [] ast.kind = "insert"  -> InsertMeant(ast, catalog)
    [] ast.kind = "update"  -> UpdateMeant(ast, catalog)
    [] ast.kind = "delete"  -> DeleteMeant(ast, catalog)
    [] ast.kind = "explain" -> WhatToDo(ast.statement, catalog)

(***************************************************************************)
(* What the code does not have yet, and panics at (todo! and the names     *)
(* that the planner expects to find).                                      *)
(***************************************************************************)
Operands(e) ==
  CASE e.kind \in {"nested", "unary", "is null", "is not null", "unnamed"} -> {e.expr}
    [] e.kind = "binary"   -> {e.left, e.right}
    [] e.kind = "function" -> ToSet(e.args)
    [] OTHER -> {}

RECURSIVE Within(_)
Within(e) == {e} \cup UNION {Within(x) : x \in Operands(e)}

\* The expressions of a statement that must not aggregate.
RowExprs(ast) ==
  CASE ast.kind = "query" ->
         ToSet(ast.body.selection) \cup ToSet(ast.limit)
         \cup {ast.order_by[i].expr : i \in DOMAIN ast.order_by}
         \cup UNION {{join.constraint.expr : join \in
                        {j \in ToSet(table.joins) : j.constraint.kind = "on"}} :
                      table \in ToSet(ast.body.from)}
    [] ast.kind = "update" ->
         ToSet(ast.selection) \cup {ast.assignments[i].value : i \in DOMAIN ast.assignments}
    [] ast.kind = "delete" -> ToSet(ast.selection)
    [] OTHER -> {}

RECURSIVE IsUnfinished(_, _)
IsUnfinished(ast, catalog) ==
  LET projected == IF ast.kind # "query" THEN {} ELSE
        {item \in ToSet(ast.body.projection) : item.kind = "unnamed"} \cup ToSet(ast.body.group_by)
      all == UNION {Within(e) : e \in RowExprs(ast) \cup projected}
      q == QueryMeant(ast, catalog)
  IN CASE ast.kind = "explain" -> IsUnfinished(ast.statement, catalog)
       [] ast.kind = "query" /\ ast.body.kind # "select" -> FALSE
       [] ast.kind = "insert" /\ ast.source # <<>> ->
            LET source == ast.source[1] IN
            IF source.body.kind = "values"
            THEN \E e \in ToSet(FlattenSeq(source.body.rows)) : \E x \in Within(e) : x.kind = "function"
            ELSE IsUnfinished(source, catalog)
       [] OTHER ->
            \* a column with a schema and a table, an aggregate but of a projection
            \/ \E x \in all : x.kind = "compound" /\ Len(x.idents) = 3
            \/ \E e \in RowExprs(ast) : \E x \in Within(e) : x.kind = "function"
            \* beside a group, a column that is only part of what is grouped by,
            \* and in ORDER BY any column that is not
            \/ /\ ast.kind = "query" /\ QueryIsMeaningful(ast, catalog) /\ q.grouped
               /\ \E m \in ToSet(q.output \o OrderKeys(q)) :
                    ~(ColumnsOutsideAggregates(m) \subseteq ToSet(q.keys))

\* An aggregate has a plan but no executor.
RECURSIVE HasNoExecutor(_, _)
HasNoExecutor(ast, catalog) ==
  CASE ast.kind = "query"  -> QueryMeant(ast, catalog).grouped
    [] ast.kind = "insert" -> /\ ast.source # <<>> /\ ast.source[1].body.kind = "select"
                              /\ HasNoExecutor(ast.source[1], catalog)
    [] OTHER -> FALSE

=============================================================================
