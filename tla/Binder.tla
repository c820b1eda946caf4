------------------------------- MODULE Binder -------------------------------
(***************************************************************************)
(* Names are given their meaning (query/binder/transformer.rs).            *)
(*                                                                         *)
(* The catalog is a function from the names of tables to their schema and  *)
(* their indexes.  A bound table carries the name it goes by, its alias if *)
(* it has one, and its schema; a bound column is the pair of that name and *)
(* the name the schema gives the column.  Columns and aliases are found    *)
(* whatever their case, tables only as written.                            *)
(*                                                                         *)
(* What cannot be bound is an error, or a panic, in the place where it     *)
(* stands; "faults" of a bound statement lists these in the order in which *)
(* the binder comes upon them, so that the first decides what becomes of   *)
(* the statement.  A scope is the sequence of the tables whose columns may *)
(* be named, and empty where none may.                                     *)
(***************************************************************************)
EXTENDS Parser

BinderError == [kind |-> "error"]
Panic == [kind |-> "panic"]

Fault(condition) == IF condition THEN <<"error">> ELSE <<>>

(***************************************************************************)
(* Columns                                                                 *)
(***************************************************************************)
ColumnsNamed(schema, name) == {c \in DOMAIN schema : Lower(schema[c].name) = Lower(name)}

resolve_column_ref_from_base_table_ref(table, name) ==
  LET found == ColumnsNamed(table.schema, name)
  IN IF Cardinality(found) # 1 THEN BinderError
     ELSE [kind |-> "column", name |-> <<table.alias, table.schema[CHOOSE c \in found : TRUE].name>>]

\* A column without qualifier belongs to the only table that has it.
resolve_unqualified_column_ref_from_tables(tables, name) ==
  LET having == {i \in DOMAIN tables : ColumnsNamed(tables[i].schema, name) # {}}
  IN IF Cardinality(having) # 1 THEN BinderError
     ELSE resolve_column_ref_from_base_table_ref(tables[CHOOSE i \in having : TRUE], name)

matches_bound_tbl_name(table, name) == Lower(table.alias) = Lower(name)

\* One with a qualifier belongs to the first table that goes by it.
resolve_qualified(tables, qualifier, name) ==
  LET named == {i \in DOMAIN tables : matches_bound_tbl_name(tables[i], qualifier)}
  IN IF named = {} THEN BinderError
     ELSE resolve_column_ref_from_base_table_ref(
            tables[CHOOSE i \in named : \A j \in named : i <= j], name)

bind_column_ref(column, tables) ==
  CASE tables = <<>>              -> BinderError
    [] Len(column.qualifier) = 0  -> resolve_unqualified_column_ref_from_tables(tables, column.column)
    [] Len(column.qualifier) = 1  -> resolve_qualified(tables, column.qualifier[1], column.column)
    [] Len(column.qualifier) = 2  -> Panic

(***************************************************************************)
(* Expressions                                                             *)
(***************************************************************************)
RECURSIVE bind_expression(_, _)
bind_expression(e, tables) ==
  CASE e.kind = "column"   -> bind_column_ref(e, tables)
    [] e.kind = "unary"    -> Unary(e.op, bind_expression(e.expr, tables))
    [] e.kind = "binary"   -> [e EXCEPT !.left = bind_expression(@, tables),
                                        !.right = bind_expression(@, tables)]
    [] e.kind = "aggregate" -> [e EXCEPT !.expr = bind_expression(@, tables)]
    [] e.kind = "wildcard" -> Literal("integer", 1)   \* COUNT(*)
    [] OTHER               -> e

bind_expr_list(exprs, tables) == [i \in DOMAIN exprs |-> bind_expression(exprs[i], tables)]

RECURSIVE contains_aggregation(_)
contains_aggregation(e) ==
  CASE e.kind = "aggregate" -> TRUE
    [] e.kind = "binary"    -> contains_aggregation(e.left) \/ contains_aggregation(e.right)
    [] e.kind = "unary"     -> contains_aggregation(e.expr)
    [] OTHER                -> FALSE

(***************************************************************************)
(* Tables                                                                  *)
(***************************************************************************)
bind_base_table_ref(name, alias, catalog) ==
  IF name \notin DOMAIN catalog THEN BinderError
  ELSE [kind |-> "table", table |-> name, alias |-> IF alias = <<>> THEN name ELSE alias[1],
        schema |-> catalog[name].schema]

RECURSIVE base_tables(_)
base_tables(ref) ==
  CASE ref.kind = "table" -> <<ref>>
    [] ref.kind = "join"  -> base_tables(ref.left) \o base_tables(ref.right)
    [] OTHER              -> <<>>

\* A join condition may name the columns of both sides.
RECURSIVE bind_table_ref(_, _)
bind_table_ref(ref, catalog) ==
  IF ref.kind = "table" THEN bind_base_table_ref(ref.table, ref.alias, catalog)
  ELSE LET left == bind_table_ref(ref.left, catalog)
           right == bind_table_ref(ref.right, catalog)
       IN [ref EXCEPT !.left = left, !.right = right,
             !.condition = bind_expr_list(@, base_tables(left) \o base_tables(right))]

RECURSIVE FaultsInRef(_)
FaultsInRef(ref) ==
  IF ref.kind # "join" THEN FaultsIn(ref)
  ELSE FaultsInRef(ref.left) \o FaultsInRef(ref.right) \o FaultsInAll(ref.condition)

(***************************************************************************)
(* Queries                                                                 *)
(***************************************************************************)
get_all_cols_from_scope(tables) ==
  LET ColumnsOf(table) ==
        [c \in DOMAIN table.schema |->
           [kind |-> "column", name |-> <<table.alias, table.schema[c].name>>]]
  IN FlattenSeq([i \in DOMAIN tables |-> ColumnsOf(tables[i])])

bind_select_list(items, tables) ==
  FlattenSeq([i \in DOMAIN items |->
    IF items[i].kind = "wildcard" THEN get_all_cols_from_scope(tables)
    ELSE <<bind_expression(items[i], tables)>>])

\* Beside GROUP BY or aggregates, a projection is made of grouped expressions,
\* literals and aggregates that are not nested.
RECURSIVE validate_grouped_expression(_, _)
validate_grouped_expression(e, group_by) ==
  \/ \E i \in DOMAIN group_by : group_by[i] = e
  \/ e.kind = "literal"
  \/ e.kind = "aggregate" /\ ~contains_aggregation(e.expr)
  \/ /\ e.kind = "binary"
     /\ validate_grouped_expression(e.left, group_by)
     /\ validate_grouped_expression(e.right, group_by)
  \/ e.kind = "unary" /\ validate_grouped_expression(e.expr, group_by)

\* Variant that lets any column stand beside an aggregate.
validate_aggregates_only(projection, group_by) ==
  \A i \in DOMAIN group_by : ~contains_aggregation(group_by[i])

validate_grouped_projection(projection, group_by) ==
  \/ /\ group_by = <<>>
     /\ \A i \in DOMAIN projection : ~contains_aggregation(projection[i])
  \/ /\ \A i \in DOMAIN group_by : ~contains_aggregation(group_by[i])
     /\ \A i \in DOMAIN projection : validate_grouped_expression(projection[i], group_by)

bind_order_by_list(order_by, tables) ==
  [i \in DOMAIN order_by |->
     [order_by[i] EXCEPT !.expression = bind_expression(@, tables)]]

\* A LIMIT names no column.
bind_select(s, catalog) ==
  LET from == bind_table_ref(s.from, catalog)
      tables == base_tables(from)
      projection == bind_select_list(s.projection, tables)
      where == bind_expr_list(s.where, tables)
      group_by == bind_expr_list(s.group_by, tables)
      order_by == bind_order_by_list(s.order_by, tables)
      limit == bind_expr_list(s.limit, <<>>)
  IN [kind |-> "select", from |-> from, projection |-> projection, where |-> where,
      group_by |-> group_by, order_by |-> order_by, limit |-> limit,
      faults |-> FaultsInRef(from) \o FaultsInAll(projection) \o Fault(projection = <<>>)
                 \o FaultsInAll(where) \o FaultsInAll(group_by)
                 \o Fault(~validate_grouped_projection(projection, group_by))
                 \o FaultsInAll([i \in DOMAIN order_by |-> order_by[i].expression])
                 \o FaultsInAll(limit)]

(***************************************************************************)
(* Updates                                                                 *)
(***************************************************************************)
\* Names of the database's own tables.
IsInternal(name) == Len(name) >= 2 /\ SubSeq(name, 1, 2) = "__"

ColumnNames(schema) == [c \in DOMAIN schema |-> schema[c].name]

\* Variant that tells names of different case apart.
HasDuplicatesAsWritten(names) == \E i, j \in DOMAIN names : i # j /\ names[i] = names[j]

HasDuplicates(names) == \E i, j \in DOMAIN names : i # j /\ Lower(names[i]) = Lower(names[j])

bind_values_list(num_cols, source) ==
  LET rows == [i \in DOMAIN source.rows |-> bind_expr_list(source.rows[i], <<>>)]
      FaultsInRow(row) == IF Len(row) # num_cols THEN <<"error">> ELSE FaultsInAll(row)
  IN [kind |-> "values", rows |-> rows,
      faults |-> Fault(rows = <<>>) \o FlattenSeq([i \in DOMAIN rows |-> FaultsInRow(rows[i])])]

\* Without a list of columns every column is meant.
InsertColumns(s, table) ==
  IF s.columns = <<>>
  THEN [c \in DOMAIN table.schema |->
          [kind |-> "column", name |-> <<table.alias, table.schema[c].name>>]]
  ELSE [i \in DOMAIN s.columns |-> resolve_column_ref_from_base_table_ref(table, s.columns[i])]

ErrorStatement == [kind |-> "error", faults |-> <<"error">>]

bind_insert(s, catalog) ==
  LET table == bind_base_table_ref(s.table, <<>>, catalog)
      columns == InsertColumns(s, table)
      names == [i \in DOMAIN columns |-> columns[i].name[2]]
      source == IF s.source.kind = "values" THEN bind_values_list(Len(columns), s.source)
                ELSE bind_select(s.source, catalog)
  IN IF \/ IsInternal(s.table) \/ FaultsIn(table) # <<>>
        \/ FaultsInAll(columns) # <<>> \/ HasDuplicates(names)
     THEN ErrorStatement
     ELSE [kind |-> "insert", table |-> s.table, schema |-> table.schema, columns |-> names,
           source |-> source, faults |-> source.faults]

bind_update(s, catalog) ==
  LET table == bind_base_table_ref(s.table, <<>>, catalog)
      bound == [i \in DOMAIN s.assignments |->
        [column |-> resolve_column_ref_from_base_table_ref(table, s.assignments[i].column),
         expression |-> bind_expression(s.assignments[i].expression, <<table>>)]]
      where == bind_expr_list(s.where, <<table>>)
  IN IF FaultsIn(table) # <<>> THEN ErrorStatement
     ELSE [kind |-> "update", table |-> s.table, schema |-> table.schema, where |-> where,
           assignments |-> [i \in DOMAIN bound |-> [bound[i] EXCEPT !.column =
             IF @.kind = "column" THEN @.name[2] ELSE s.assignments[i].column]],
           faults |-> FlattenSeq([i \in DOMAIN bound |->
                        FaultsIn(bound[i].column) \o FaultsIn(bound[i].expression)])
                      \o FaultsInAll(where)]

bind_delete(s, catalog) ==
  LET table == bind_base_table_ref(s.table, <<>>, catalog)
      where == bind_expr_list(s.where, <<table>>)
  IN IF FaultsIn(table) # <<>> THEN ErrorStatement
     ELSE [kind |-> "delete", table |-> s.table, schema |-> table.schema, where |-> where,
           faults |-> FaultsInAll(where)]

(***************************************************************************)
(* Definitions                                                             *)
(***************************************************************************)
\* The places of the named columns in a schema: none twice, none missing.
KeyFault(names, schema) ==
  HasDuplicates(names) \/ \E i \in DOMAIN names : ColumnsNamed(schema, names[i]) = {}

KeyAttrs(names, schema) ==
  [i \in DOMAIN names |-> CHOOSE c \in ColumnsNamed(schema, names[i]) : TRUE]

resolve_primary_key_col_idxs(s, columns) == KeyAttrs(s.primary_key, columns)

bind_create_column(column) ==
  [name |-> column.name, type |-> column.sql_type, varchar_size |-> column.size]

bind_create_tbl(s) ==
  LET columns == [i \in DOMAIN s.columns |-> bind_create_column(s.columns[i])]
  IN IF \/ HasDuplicates(ColumnNames(columns)) \/ columns = <<>>
        \/ KeyFault(s.primary_key, columns)
     THEN ErrorStatement
     ELSE [kind |-> "create table", table |-> s.table, columns |-> columns,
           key_attrs |-> resolve_primary_key_col_idxs(s, columns), faults |-> <<>>]

bind_create_index(s, catalog) ==
  LET table == bind_base_table_ref(s.table, <<>>, catalog)
  IN IF FaultsIn(table) # <<>> \/ KeyFault(s.columns, table.schema) THEN ErrorStatement
     ELSE [kind |-> "create index", index |-> s.index, table |-> s.table, unique |-> s.unique,
           key_attrs |-> KeyAttrs(s.columns, table.schema), faults |-> <<>>]

(***************************************************************************)
(* Statements                                                              *)
(***************************************************************************)
RECURSIVE bind_statement(_, _)
bind_statement(s, catalog) ==
  CASE s.kind = "select"       -> bind_select(s, catalog)
    [] s.kind = "insert"       -> bind_insert(s, catalog)
    [] s.kind = "update"       -> bind_update(s, catalog)
    [] s.kind = "delete"       -> bind_delete(s, catalog)
    [] s.kind = "create table" -> bind_create_tbl(s)
    [] s.kind = "create index" -> bind_create_index(s, catalog)
    [] s.kind = "explain" ->
         LET statement == bind_statement(s.statement, catalog)
         IN [s EXCEPT !.statement = statement] @@ [faults |-> statement.faults]

=============================================================================
