------------------------------- MODULE Parser -------------------------------
(***************************************************************************)
(* From the syntax tree of the sqlparser crate to the statements of the    *)
(* database (query/parser.rs).                                             *)
(*                                                                         *)
(* An identifier of the tree has a value and may be quoted; an object name *)
(* is a sequence of identifiers.  What may be missing is a sequence of at  *)
(* most one element.  Clauses of the tree that the database does not have  *)
(* are names in the sets "clauses": some of them are refused, the others   *)
(* are passed over.                                                        *)
(*                                                                         *)
(* A conversion that is an error gives Refused, and so does one of which a *)
(* part is: the parser never panics, so that the first error does not      *)
(* matter.                                                                 *)
(***************************************************************************)
EXTENDS Expressions, FiniteSets

CONSTANT Lowercase   \* name |-> the same name in lower case, where it differs

Refused == [kind |-> "error"]

Lower(name) == IF name \in DOMAIN Lowercase THEN Lowercase[name] ELSE name

(***************************************************************************)
(* Names.  An identifier loses its quotes, an object name keeps them.      *)
(***************************************************************************)
ident_to_string(ident) == ident.value

object_name_to_string(name) ==
  LET Written(ident) == IF ident.quoted THEN "\"" \o ident.value \o "\"" ELSE ident.value
  IN FoldLeft(LAMBDA text, ident : text \o "." \o Written(ident), Written(name[1]), Tail(name))

(***************************************************************************)
(* Expressions                                                             *)
(***************************************************************************)
Literal(type, content) == [kind |-> "literal", value |-> <<type, content>>]

\* Numbers are 32 bits wide, and NULL is one of them.
convert_value(value) ==
  CASE value[1] = "number" /\ value[2] <= MaxOf["integer"] -> Literal("integer", value[2])
    [] value[1] = "boolean" -> Literal("boolean", value[2])
    [] value[1] = "string"  -> Literal("varchar", value[2])
    [] value[1] = "null"    -> Literal("integer", Null)
    [] OTHER                -> Refused

\* qualifier is empty, or the table, or the schema and the table.
ParsedColumnRef(qualifier, ident) ==
  [kind |-> "column", column |-> ident_to_string(ident),
   qualifier |-> [i \in DOMAIN qualifier |-> ident_to_string(qualifier[i])]]

convert_compound_column_ref(idents) ==
  IF Len(idents) \in {2, 3} THEN ParsedColumnRef(Front(idents), Last(idents)) ELSE Refused

BinaryOperators == {"+", "-", "=", "<>", "<", "<=", ">", ">=", "and", "or"}
UnaryOperators == {"not", "-"}

Unary(op, expr) == [kind |-> "unary", op |-> op, expr |-> expr]

RECURSIVE convert_expr(_)

\* COUNT, SUM, MIN and MAX of one argument; only COUNT counts rows as well.
convert_aggregate(function) ==
  LET name == Lower(function.name[1].value)
      arg == function.args[1]
  IN CASE function.clauses # {} \/ Len(function.name) # 1 \/ Len(function.args) # 1 -> Refused
       [] arg.kind = "wildcard" /\ name = "count" ->
            [kind |-> "aggregate", function |-> name, expr |-> arg]
       [] arg.kind = "unnamed" /\ name \in {"count", "sum", "min", "max"} ->
            [kind |-> "aggregate", function |-> name, expr |-> convert_expr(arg.expr)]
       [] OTHER -> Refused

convert_expr(e) ==
  CASE e.kind = "identifier" -> ParsedColumnRef(<<>>, e.ident)
    [] e.kind = "compound"   -> convert_compound_column_ref(e.idents)
    [] e.kind = "value"      -> convert_value(e.value)
    [] e.kind = "function"   -> convert_aggregate(e)
    [] e.kind = "nested"     -> convert_expr(e.expr)
    [] e.kind \in {"is null", "is not null"} -> Unary(e.kind, convert_expr(e.expr))
    [] e.kind = "unary" /\ e.op \in UnaryOperators -> Unary(e.op, convert_expr(e.expr))
    [] e.kind = "binary" /\ e.op \in BinaryOperators ->
         [kind |-> "binary", op |-> e.op, left |-> convert_expr(e.left),
          right |-> convert_expr(e.right)]
    [] OTHER -> Refused

ConvertAll(exprs) == [i \in DOMAIN exprs |-> convert_expr(exprs[i])]

\* The ? operator: a statement is refused when a part of it is.
Checked(parts, statement) == IF FaultsInAll(parts) = <<>> THEN statement ELSE Refused

(***************************************************************************)
(* Tables and joins                                                        *)
(***************************************************************************)
convert_table_factor(factor) ==
  IF factor.kind # "table" \/ factor.clauses # {} THEN Refused
  ELSE [kind |-> "table", table |-> object_name_to_string(factor.name),
        alias |-> [i \in DOMAIN factor.alias |-> ident_to_string(factor.alias[i])]]

\* JOIN, INNER JOIN and LEFT JOIN need an ON, CROSS JOIN must not have one.
ConvertibleJoin(join) ==
  /\ join.clauses = {}
  /\ \/ join.operator \in {"join", "inner", "left"} /\ join.constraint.kind = "on"
     \/ join.operator = "cross" /\ join.constraint.kind = "none"

convert_join(left, join) ==
  LET condition == IF join.constraint.kind = "on"
                   THEN <<convert_expr(join.constraint.expr)>> ELSE <<>>
  IN IF ~ConvertibleJoin(join) THEN Refused
     ELSE Checked(condition,
            [kind |-> "join", left |-> left, right |-> convert_table_factor(join.relation),
             join_type |-> IF join.operator = "join" THEN "inner" ELSE join.operator,
             condition |-> condition])

convert_table_with_joins(table) ==
  FoldLeft(convert_join, convert_table_factor(table.relation), table.joins)

(***************************************************************************)
(* Queries                                                                 *)
(***************************************************************************)
convert_select_item(item) ==
  CASE item.kind = "wildcard" -> item
    [] item.kind = "unnamed"  -> convert_expr(item.expr)
    [] OTHER                  -> Refused

\* NULLs sort as if larger than every value unless the clause says otherwise.
convert_order_by_expr(item) ==
  LET is_asc == IF item.asc = <<>> THEN TRUE ELSE item.asc[1] IN
  [expression |-> convert_expr(item.expr), desc |-> ~is_asc,
   nulls_first |-> IF item.nulls_first = <<>> THEN ~is_asc ELSE item.nulls_first[1]]

convert_select(select, order_by, limit) ==
  LET table == convert_table_with_joins(select.from[1])
      projection == [i \in DOMAIN select.projection |-> convert_select_item(select.projection[i])]
      where == ConvertAll(select.selection)
      group_by == ConvertAll(select.group_by)
      orders == [i \in DOMAIN order_by |-> convert_order_by_expr(order_by[i])]
      limits == ConvertAll(limit)
      keys == [i \in DOMAIN orders |-> orders[i].expression]
  IN IF Len(select.from) # 1 \/ select.clauses \cap {"group by all", "with rollup"} # {}
     THEN Refused
     ELSE Checked(<<table>> \o projection \o where \o group_by \o keys \o limits,
            [kind |-> "select", from |-> table, projection |-> projection, where |-> where,
             group_by |-> group_by, order_by |-> orders, limit |-> limits])

RefusedInQuery == {"order by all", "interpolate", "with fill", "offset", "limit by", "limit all"}

convert_query_to_select(query) ==
  IF query.clauses \cap RefusedInQuery # {} \/ query.body.kind # "select" THEN Refused
  ELSE convert_select(query.body, query.order_by, query.limit)

(***************************************************************************)
(* Updates                                                                 *)
(***************************************************************************)
\* ORDER BY and LIMIT count for a query only, not for a list of values.
convert_insert(insert) ==
  LET body == insert.source[1].body
      rows == [i \in DOMAIN body.rows |-> ConvertAll(body.rows[i])]
      source == IF body.kind = "values"
                THEN Checked(FlattenSeq(rows), [kind |-> "values", rows |-> rows])
                ELSE convert_query_to_select(insert.source[1])
  IN IF insert.source = <<>> \/ insert.target # "table" THEN Refused
     ELSE Checked(<<source>>,
            [kind |-> "insert", table |-> object_name_to_string(insert.table),
             columns |-> [i \in DOMAIN insert.columns |-> object_name_to_string(insert.columns[i])],
             source |-> source])

\* The only table of a statement that has one, its alias and its clauses aside.
TableName(table) == object_name_to_string(table.relation.name)
IsSingleTable(table) == table.joins = <<>> /\ table.relation.kind = "table"

RefusedInUpdate == {"hints", "from", "returning", "output", "or", "order by", "limit"}

convert_update(update) ==
  LET values == [i \in DOMAIN update.assignments |-> convert_expr(update.assignments[i].value)]
      where == ConvertAll(update.selection)
  IN IF \/ update.clauses \cap RefusedInUpdate # {}
        \/ ~IsSingleTable(update.table)
        \/ \E i \in DOMAIN values : Len(update.assignments[i].target) # 1
     THEN Refused
     ELSE Checked(values \o where,
            [kind |-> "update", table |-> TableName(update.table), where |-> where,
             assignments |-> [i \in DOMAIN values |->
               [column |-> ident_to_string(update.assignments[i].target[1]),
                expression |-> values[i]]]])

RefusedInDelete ==
  {"hints", "tables", "using", "returning", "output", "order by", "limit", "without from"}

convert_delete(delete) ==
  LET where == ConvertAll(delete.selection)
  IN IF \/ delete.clauses \cap RefusedInDelete # {}
        \/ Len(delete.from) # 1
        \/ ~IsSingleTable(delete.from[1])
     THEN Refused
     ELSE Checked(where, [kind |-> "delete", table |-> TableName(delete.from[1]),
                          where |-> where])

(***************************************************************************)
(* Definitions                                                             *)
(***************************************************************************)
SqlTypeOf(name) ==
  CASE name \in {"int", "integer"} -> "integer"
    [] name = "double"             -> "decimal"
    [] OTHER                       -> name

\* A varchar has a size, the other types have none.
convert_data_type(type) ==
  IF \/ type.name \notin {"boolean", "smallint", "int", "integer", "bigint", "double", "varchar"}
     \/ type.name = "varchar" /\ type.size = <<>>
  THEN Refused
  ELSE [kind |-> "type", sql_type |-> SqlTypeOf(type.name),
        size |-> IF type.name = "varchar" THEN type.size ELSE <<>>]

\* A column of a key: a plain identifier.
KeyColumn(column) ==
  IF column.expr.kind = "identifier" /\ column.clauses = {}
  THEN [kind |-> "name", name |-> ident_to_string(column.expr.ident)] ELSE Refused

\* The columns of a primary key may say how they sort; it is passed over.
convert_primary_key_column(column) == KeyColumn([column EXCEPT !.clauses = {}])
convert_index_column(column) == KeyColumn(column)

NamesOf(columns) == [i \in DOMAIN columns |-> columns[i].name]

\* The primary keys a table is given, at its columns and in constraints.
PrimaryKeys(create) ==
  LET OfColumn(column) == IF column.options = {} THEN <<>>
        ELSE << <<[kind |-> "name", name |-> ident_to_string(column.name)]>> >>
      OfConstraint(constraint) ==
        << [i \in DOMAIN constraint.columns |->
              convert_primary_key_column(constraint.columns[i])] >>
  IN FlattenSeq([i \in DOMAIN create.columns |-> OfColumn(create.columns[i])])
     \o FlattenSeq([i \in DOMAIN create.constraints |-> OfConstraint(create.constraints[i])])

convert_create_table(create) ==
  LET types == [i \in DOMAIN create.columns |-> convert_data_type(create.columns[i].type)]
      keys == PrimaryKeys(create)
  IN IF \/ \E i \in DOMAIN create.columns : ~(create.columns[i].options \subseteq {"primary key"})
        \/ \E i \in DOMAIN create.constraints : create.constraints[i].kind # "primary key"
        \/ Len(keys) > 1
     THEN Refused
     ELSE Checked(types \o FlattenSeq(keys),
            [kind |-> "create table", table |-> object_name_to_string(create.name),
             columns |-> [i \in DOMAIN types |->
               [name |-> ident_to_string(create.columns[i].name),
                sql_type |-> types[i].sql_type, size |-> types[i].size]],
             primary_key |-> NamesOf(FlattenSeq(keys))])

\* Any clause but UNIQUE is refused, and the name of the index is required.
convert_create_index(create) ==
  LET columns == [i \in DOMAIN create.columns |-> convert_index_column(create.columns[i])]
  IN IF create.clauses \ {"unique"} # {} \/ create.name = <<>> \/ columns = <<>> THEN Refused
     ELSE Checked(columns,
            [kind |-> "create index", index |-> object_name_to_string(create.name[1]),
             table |-> object_name_to_string(create.table), columns |-> NamesOf(columns),
             unique |-> "unique" \in create.clauses])

(***************************************************************************)
(* Statements                                                              *)
(***************************************************************************)
RECURSIVE convert_statement(_)

\* EXPLAIN and EXPLAIN (RAW).
convert_explain(explain) ==
  LET statement == convert_statement(explain.statement)
      IsRaw(option) == Lower(option.name) = "raw" /\ option.arg = <<>>
  IN IF \/ explain.clauses # {}
        \/ Len(explain.options) > 1
        \/ \E i \in DOMAIN explain.options : ~IsRaw(explain.options[i])
     THEN Refused
     ELSE Checked(<<statement>>,
            [kind |-> "explain", raw |-> explain.options # <<>>, statement |-> statement])

convert_statement(ast) ==
  CASE ast.kind = "query"        -> convert_query_to_select(ast)
    [] ast.kind = "insert"       -> convert_insert(ast)
    [] ast.kind = "update"       -> convert_update(ast)
    [] ast.kind = "delete"       -> convert_delete(ast)
    [] ast.kind = "explain"      -> convert_explain(ast)
    [] ast.kind = "create table" -> convert_create_table(ast)
    [] ast.kind = "create index" -> convert_create_index(ast)
    [] OTHER                     -> Refused

\* A text holds exactly one statement.
parse_sql(statements) ==
  IF Len(statements) = 1 THEN convert_statement(statements[1]) ELSE Refused

=============================================================================
