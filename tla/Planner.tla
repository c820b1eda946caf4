------------------------------ MODULE Planner ------------------------------
(***************************************************************************)
(* From a bound statement to the plan the engine executes: the planner     *)
(* (query/planner/transformer.rs, plan.rs) and the rewrites of the         *)
(* optimizer (query/optimizer/mod.rs).                                     *)
(*                                                                         *)
(* A clause that may be missing (WHERE, LIMIT, a join condition, the       *)
(* filter of a scan) is a sequence of at most one element.  A bound column *)
(* is the pair of the name its table goes by and its own name; the planner *)
(* finds it by the text of the two.  A plan node carries the schema of its *)
(* rows, a sequence of names, types and, for a varchar, sizes.             *)
(*                                                                         *)
(* What cannot be planned is an error, or a panic, in the place where it   *)
(* stands; FaultsInPlan lists these in the order in which the planner      *)
(* comes upon them.                                                        *)
(***************************************************************************)
EXTENDS Expressions, FiniteSets

(***************************************************************************)
(* Types.  varchar_size is empty for every other type.                     *)
(***************************************************************************)
Typed(expr, like) == expr @@ [type |-> like.type, varchar_size |-> like.varchar_size]

PlainType(type) == [type |-> type, varchar_size |-> <<>>]

from_value(value) ==
  IF value[1] # "varchar" THEN PlainType(value[1])
  ELSE [type |-> "varchar",
        varchar_size |-> <<IF value[2] = Null THEN 0 ELSE Len(value[2])>>]

\* A column of a schema with the type of an expression.
to_column(name, type) == Typed([name |-> name], type)

PlannerError == Typed([kind |-> "error"], PlainType("none"))
PlannerPanic == Typed([kind |-> "panic"], PlainType("none"))

(***************************************************************************)
(* Expressions                                                             *)
(***************************************************************************)
ColumnValue(tuple_idx, col_idx, schema) ==
  Typed([kind |-> "column", tuple_idx |-> tuple_idx, col_idx |-> col_idx], schema[col_idx])

to_str(name) == name[1] \o "." \o name[2]

\* The places of a column in the schemas of one or two children.  The binder
\* has found the column; two of that name cannot be told apart.
plan_column_ref(name, scope) ==
  LET places == UNION {{<<i, c>> : c \in {d \in DOMAIN scope[i] : scope[i][d].name = to_str(name)}} :
                         i \in DOMAIN scope}
      place == CHOOSE p \in places : TRUE
  IN CASE Cardinality(places) = 0 -> PlannerPanic
       [] Cardinality(places) = 1 -> ColumnValue(place[1], place[2], scope[place[1]])
       [] OTHER                   -> PlannerError

KindOf(op) ==
  CASE op \in {"+", "-"}    -> "arithmetic"
    [] op \in {"and", "or"} -> "logic"
    [] OTHER                -> "comparison"

\* The declared type of an arithmetic expression is that of its left operand.
\* An aggregate is planned only where extract_aggregates has left a reference.
RECURSIVE plan_expression(_, _)
plan_expression(e, scope) ==
  CASE e.kind = "literal" ->
         Typed([kind |-> "constant", value |-> e.value], from_value(e.value))
    [] e.kind = "column"              -> plan_column_ref(e.name, scope)
    [] e.kind = "aggregate reference" -> ColumnValue(1, e.col_idx, scope[1])
    [] e.kind = "aggregate"           -> PlannerPanic
    [] e.kind = "binary" ->
         LET left == plan_expression(e.left, scope) IN
         Typed([kind |-> KindOf(e.op), op |-> e.op, left |-> left,
                right |-> plan_expression(e.right, scope)],
               IF KindOf(e.op) = "arithmetic" THEN left ELSE PlainType("boolean"))
    [] e.kind = "unary" ->
         LET expr == plan_expression(e.expr, scope) IN
         Typed([kind |-> CASE e.op = "-"   -> "negate"
                           [] e.op = "not" -> "not"
                           [] OTHER        -> "null check",
                op |-> e.op, expr |-> expr],
               IF e.op = "-" THEN expr ELSE PlainType("boolean"))

PlanAll(exprs, scope) == [i \in DOMAIN exprs |-> plan_expression(exprs[i], scope)]

(***************************************************************************)
(* Aggregates.  Their values are computed below the projection, beside the *)
(* group they are of; the projection refers to them by their place.        *)
(***************************************************************************)
RECURSIVE AggregatesIn(_)
AggregatesIn(e) ==
  CASE e.kind = "aggregate" -> <<e>>
    [] e.kind = "binary"    -> AggregatesIn(e.left) \o AggregatesIn(e.right)
    [] e.kind = "unary"     -> AggregatesIn(e.expr)
    [] OTHER                -> <<>>

has_aggregation(e) == AggregatesIn(e) # <<>>

\* An expression with its aggregates replaced, the first by the column after
\* the first "before" ones.
RECURSIVE extract_aggregates(_, _)
extract_aggregates(e, before) ==
  CASE e.kind = "aggregate" -> [kind |-> "aggregate reference", col_idx |-> before + 1]
    [] e.kind = "binary" ->
         [e EXCEPT !.left = extract_aggregates(@, before),
                   !.right = extract_aggregates(@, before + Len(AggregatesIn(e.left)))]
    [] e.kind = "unary" -> [e EXCEPT !.expr = extract_aggregates(@, before)]
    [] OTHER            -> e

\* Variant that counts the aggregates of every expression from the first.
ExtractAllAfresh(projection, group_count) ==
  [i \in DOMAIN projection |-> extract_aggregates(projection[i], group_count)]

ExtractAll(projection, group_count) ==
  LET Before(i) == FlattenSeq([j \in 1 .. i - 1 |-> AggregatesIn(projection[j])])
  IN [i \in DOMAIN projection |->
        extract_aggregates(projection[i], group_count + Len(Before(i)))]

\* A column, and a reference to an aggregate, keeps its name.
NameOf(e, schema, otherwise) ==
  CASE e.kind = "column"              -> to_str(e.name)
    [] e.kind = "aggregate reference" -> schema[e.col_idx].name
    [] OTHER                          -> otherwise

AggregateSpec(aggregate, scope) ==
  [function |-> aggregate.function,
   input |-> IF has_aggregation(aggregate.expr) THEN PlannerError
             ELSE plan_expression(aggregate.expr, scope)]

\* A count is an integer, the others have the type of what they are of.
AggregateSchema(group_by, names, aggregates) ==
  [i \in DOMAIN group_by |-> to_column(names[i], group_by[i])]
  \o [i \in DOMAIN aggregates |->
       to_column("__agg#" \o ToString(i - 1),
                 IF aggregates[i].function = "count" THEN PlainType("integer")
                 ELSE aggregates[i].input)]

plan_aggregation(child, group_by, projection) ==
  LET scope == <<child.schema>>
      found == FlattenSeq([i \in DOMAIN projection |-> AggregatesIn(projection[i])])
      keys == PlanAll(group_by, scope)
      names == [i \in DOMAIN group_by |-> NameOf(group_by[i], child.schema, "<unnamed>")]
      aggregates == [i \in DOMAIN found |-> AggregateSpec(found[i], scope)]
  IN [kind |-> "aggregate", child |-> child, group_by |-> keys, aggregates |-> aggregates,
      schema |-> AggregateSchema(keys, names, aggregates)]

(***************************************************************************)
(* Queries                                                                 *)
(***************************************************************************)
infer_scan_schema(ref) ==
  [c \in DOMAIN ref.schema |->
     [ref.schema[c] EXCEPT !.name = to_str(<<ref.alias, ref.schema[c].name>>)]]

RECURSIVE plan_table_ref(_)
plan_table_ref(ref) ==
  IF ref.kind = "table"
  THEN [kind |-> "seq scan", table |-> ref.table, filter |-> <<>>,
        schema |-> infer_scan_schema(ref)]
  ELSE LET left  == plan_table_ref(ref.left)
           right == plan_table_ref(ref.right)
       IN [kind |-> "nested loop join", left |-> left, right |-> right,
           join_type |-> ref.join_type,
           predicate |-> PlanAll(ref.condition, <<left.schema, right.schema>>),
           schema |-> left.schema \o right.schema]

PlanFilter(where, plan) ==
  IF where = <<>> THEN plan
  ELSE [kind |-> "filter", predicate |-> plan_expression(where[1], <<plan.schema>>),
        child |-> plan, schema |-> plan.schema]

PlanSort(order_by, plan) ==
  IF order_by = <<>> THEN plan
  ELSE [kind |-> "sort", child |-> plan, schema |-> plan.schema,
        order_bys |-> [i \in DOMAIN order_by |->
          [order_by[i] EXCEPT !.expression = plan_expression(@, <<plan.schema>>)]]]

PlanProjection(projection, plan) ==
  LET exprs == PlanAll(projection, <<plan.schema>>)
  IN [kind |-> "projection", expressions |-> exprs, child |-> plan,
      schema |-> [i \in DOMAIN exprs |->
        to_column(NameOf(projection[i], plan.schema, "__unnamed#" \o ToString(i - 1)), exprs[i])]]

PlanLimit(limit, plan) ==
  IF limit = <<>> THEN plan
  ELSE [kind |-> "limit", child |-> plan, schema |-> plan.schema,
        limit |-> plan_expression(limit[1], <<plan.schema>>)]

IsGrouped(s) == s.group_by # <<>> \/ \E i \in DOMAIN s.projection : has_aggregation(s.projection[i])

\* ORDER BY is planned below the projection, so that it may name any column.
plan_select(s) ==
  LET rows == PlanFilter(s.where, plan_table_ref(s.from))
      grouped == IF IsGrouped(s) THEN plan_aggregation(rows, s.group_by, s.projection) ELSE rows
      projection == IF IsGrouped(s) THEN ExtractAll(s.projection, Len(s.group_by))
                    ELSE s.projection
  IN PlanLimit(s.limit, PlanProjection(projection, PlanSort(s.order_by, grouped)))

(***************************************************************************)
(* Updates                                                                 *)
(***************************************************************************)
PlanOfTable(s) ==
  plan_table_ref([kind |-> "table", table |-> s.table, alias |-> s.table, schema |-> s.schema])

plan_delete(s) ==
  [kind |-> "delete", table |-> s.table, child |-> PlanFilter(s.where, PlanOfTable(s))]

\* Every column is given its own value, except those assigned to: a value of
\* the very type of the column.
plan_update(s) ==
  LET child == PlanFilter(s.where, PlanOfTable(s))
      scope == <<child.schema>>
      targets == [i \in DOMAIN s.assignments |->
                    plan_column_ref(<<s.table, s.assignments[i].column>>, scope)]
      exprs == [i \in DOMAIN s.assignments |->
                    plan_expression(s.assignments[i].expression, scope)]
      AssignedTo(col_idx) == {i \in DOMAIN targets : targets[i].col_idx = col_idx}
      Mismatch(i) == IF targets[i].type # exprs[i].type THEN <<"error">> ELSE <<>>
      faults == FlattenSeq([i \in DOMAIN targets |->
                              FaultsIn(exprs[i]) \o FaultsIn(targets[i]) \o Mismatch(i)])
  IN [kind |-> "update", table |-> s.table, child |-> child, faults |-> faults,
      expressions |-> IF faults # <<>> THEN <<>> ELSE
        [col_idx \in DOMAIN child.schema |->
           IF AssignedTo(col_idx) = {}
           THEN ColumnValue(1, col_idx, child.schema)
           ELSE exprs[CHOOSE i \in AssignedTo(col_idx) :
                        \A j \in AssignedTo(col_idx) : j <= i]]]

\* The schema of a list of values is that of its first row.
plan_bound_expression_list(rows) ==
  LET planned == [i \in DOMAIN rows |-> PlanAll(rows[i], <<>>)]
  IN [kind |-> "values", rows |-> planned,
      schema |-> [i \in DOMAIN planned[1] |->
        to_column("<unnamed>." \o ToString(i - 1), planned[1][i])]]

\* A varchar that is declared no longer than the column fits into it.
Storable(column, target) ==
  /\ target.type = column.type
  /\ target.type = "varchar" => column.varchar_size[1] <= target.varchar_size[1]

plan_insert(s) ==
  LET child == IF s.source.kind = "select" THEN plan_select(s.source)
               ELSE plan_bound_expression_list(s.source.rows)
      target_col_idxs == [i \in DOMAIN s.columns |->
        CHOOSE c \in DOMAIN s.schema : s.schema[c].name = s.columns[i]]
      fits == /\ Len(s.columns) = Len(child.schema)
              /\ \A i \in DOMAIN s.columns :
                   Storable(child.schema[i], s.schema[target_col_idxs[i]])
  IN [kind |-> "insert", table |-> s.table, child |-> child,
      target_col_idxs |-> target_col_idxs,
      faults |-> IF fits THEN <<>> ELSE <<"error">>]

plan_statement(s) ==
  CASE s.kind = "select" -> plan_select(s)
    [] s.kind = "insert" -> plan_insert(s)
    [] s.kind = "update" -> plan_update(s)
    [] s.kind = "delete" -> plan_delete(s)

(***************************************************************************)
(* Plans as trees                                                          *)
(***************************************************************************)
children(plan) ==
  CASE plan.kind \in {"seq scan", "values"} -> <<>>
    [] plan.kind = "nested loop join"       -> <<plan.left, plan.right>>
    [] OTHER                                -> <<plan.child>>

clone_with_children(plan, new) ==
  CASE Len(new) = 0 -> plan
    [] Len(new) = 1 -> [plan EXCEPT !.child = new[1]]
    [] Len(new) = 2 -> [plan EXCEPT !.left = new[1], !.right = new[2]]

\* What went wrong in a plan, that of its children first.
OwnFaults(plan) ==
  CASE plan.kind = "filter"           -> FaultsIn(plan.predicate)
    [] plan.kind = "nested loop join" -> FaultsInAll(plan.predicate)
    [] plan.kind = "projection"       -> FaultsInAll(plan.expressions)
    [] plan.kind = "limit"            -> FaultsIn(plan.limit)
    [] plan.kind = "values"           -> FaultsInAll(FlattenSeq(plan.rows))
    [] plan.kind = "sort" ->
         FaultsInAll([i \in DOMAIN plan.order_bys |-> plan.order_bys[i].expression])
    [] plan.kind = "aggregate" ->
         FaultsInAll(plan.group_by)
         \o FaultsInAll([i \in DOMAIN plan.aggregates |-> plan.aggregates[i].input])
    [] plan.kind \in {"insert", "update"} -> plan.faults
    [] OTHER -> <<>>

RECURSIVE FaultsInPlan(_)
FaultsInPlan(plan) ==
  FlattenSeq([i \in DOMAIN children(plan) |-> FaultsInPlan(children(plan)[i])])
  \o OwnFaults(plan)

(***************************************************************************)
(* The optimizer.  Each rewrite works from the leaves up.                  *)
(***************************************************************************)
\* A projection onto exactly the columns of its child.
ProjectsChild(plan) ==
  /\ plan.kind = "projection"
  /\ Len(plan.expressions) = Len(plan.child.schema)
  /\ \A i \in DOMAIN plan.expressions :
       /\ plan.expressions[i].type = plan.child.schema[i].type
       /\ plan.expressions[i].kind = "column"
       /\ plan.expressions[i].tuple_idx = 1
       /\ plan.expressions[i].col_idx = i

RECURSIVE optimize_merge_projection(_)
optimize_merge_projection(plan) ==
  LET new == [i \in DOMAIN children(plan) |-> optimize_merge_projection(children(plan)[i])]
      optimized == clone_with_children(plan, new)
  IN IF ProjectsChild(optimized) THEN [optimized.child EXCEPT !.schema = optimized.schema]
     ELSE optimized

\* A conjunction of equalities between a column of the outer and one of the
\* inner table, as the two sequences of columns; otherwise nothing.
RECURSIVE extract_index_exprs(_)
extract_index_exprs(predicate) ==
  CASE /\ predicate.kind = "comparison" /\ predicate.op = "="
       /\ predicate.left.kind = "column" /\ predicate.right.kind = "column"
       /\ predicate.left.tuple_idx # predicate.right.tuple_idx ->
         IF predicate.left.tuple_idx = 1
         THEN [outer |-> <<predicate.left.col_idx>>, inner |-> <<predicate.right.col_idx>>]
         ELSE [outer |-> <<predicate.right.col_idx>>, inner |-> <<predicate.left.col_idx>>]
    [] predicate.kind = "logic" /\ predicate.op = "and" ->
         LET l == extract_index_exprs(predicate.left)
             r == extract_index_exprs(predicate.right)
         IN IF l.inner = <<>> \/ r.inner = <<>> THEN [outer |-> <<>>, inner |-> <<>>]
            ELSE [outer |-> l.outer \o r.outer, inner |-> l.inner \o r.inner]
    [] OTHER -> [outer |-> <<>>, inner |-> <<>>]

\* An inner or left join of two scans, the inner one with an index on exactly
\* the columns of the condition, in its order.
UsesIndex(plan, indexes) ==
  /\ plan.kind = "nested loop join"
  /\ plan.join_type \in {"left", "inner"}
  /\ plan.predicate # <<>>
  /\ plan.left.kind = "seq scan" /\ plan.right.kind = "seq scan"
  /\ extract_index_exprs(plan.predicate[1]).inner \in indexes[plan.right.table]

RECURSIVE optimize_nlj_as_index_join(_, _)
optimize_nlj_as_index_join(plan, indexes) ==
  LET new == [i \in DOMAIN children(plan) |->
                optimize_nlj_as_index_join(children(plan)[i], indexes)]
      optimized == clone_with_children(plan, new)
  IN IF ~UsesIndex(optimized, indexes) THEN optimized
     ELSE LET on == extract_index_exprs(optimized.predicate[1])
          IN [kind |-> "nested index join", child |-> optimized.left,
              table |-> optimized.right.table, key_attrs |-> on.inner,
              index_expressions |-> [i \in DOMAIN on.outer |->
                ColumnValue(1, on.outer[i], optimized.left.schema)],
              join_type |-> optimized.join_type, schema |-> optimized.schema]

RECURSIVE optimize_merge_filter_scan(_)
optimize_merge_filter_scan(plan) ==
  LET new == [i \in DOMAIN children(plan) |-> optimize_merge_filter_scan(children(plan)[i])]
      optimized == clone_with_children(plan, new)
  IN IF /\ optimized.kind = "filter"
        /\ optimized.child.kind = "seq scan"
        /\ optimized.child.filter = <<>>
     THEN [optimized.child EXCEPT !.filter = <<optimized.predicate>>, !.schema = optimized.schema]
     ELSE optimized

\* The other rewrites of the code return the plan they are given.
optimize(plan, indexes) ==
  optimize_merge_filter_scan(
    optimize_nlj_as_index_join(optimize_merge_projection(plan), indexes))

=============================================================================
