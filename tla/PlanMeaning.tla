---------------------------- MODULE PlanMeaning ----------------------------
(***************************************************************************)
(* What a plan does, in the terms of the module Meaning: its nodes are     *)
(* followed from the tables up, with rows whose columns are what they      *)
(* mean.  A join through an index reads as a join on the condition that    *)
(* the index stands for, and a scan that filters as a scan and a filter.   *)
(***************************************************************************)
EXTENDS Planner, Meaning

\* A planned expression on rows whose columns are what they mean.
RECURSIVE Read(_, _)
Read(e, rows) ==
  CASE e.kind = "column"   -> rows[e.tuple_idx][e.col_idx]
    [] e.kind = "constant" -> Constant(e.value)
    [] "left" \in DOMAIN e -> Operation(e.op, <<Read(e.left, rows), Read(e.right, rows)>>)
    [] OTHER               -> Operation(e.op, <<Read(e.expr, rows)>>)

ReadAll(exprs, rows) == [i \in DOMAIN exprs |-> Read(exprs[i], rows)]

Places(before, columns) == [c \in 1 .. columns |-> At(before + c)]

\* The row of a plan node, after the columns of the tables before it.
RECURSIVE RowOfPlan(_, _)
RowOfPlan(plan, before) ==
  LET width == Len(plan.schema)
      row == RowOfPlan(plan.child, before)
  IN CASE plan.kind \in {"seq scan", "values"} -> Places(before, width)
       [] plan.kind = "nested loop join" ->
            RowOfPlan(plan.left, before)
            \o RowOfPlan(plan.right, before + Len(plan.left.schema))
       [] plan.kind = "nested index join" ->
            row \o Places(before + Len(row), width - Len(row))
       [] plan.kind = "aggregate" ->
            ReadAll(plan.group_by, <<row>>)
            \o [i \in DOMAIN plan.aggregates |->
                 AggregateOf(plan.aggregates[i].function, Read(plan.aggregates[i].input, <<row>>))]
       [] plan.kind = "projection" -> ReadAll(plan.expressions, <<row>>)
       [] OTHER -> row

\* The condition of a join through an index.
IndexCondition(plan, row) ==
  LET width == Len(plan.child.schema)
      Equation(i) == Operation("=", <<Read(plan.index_expressions[i], <<row>>),
                                      row[width + plan.key_attrs[i]]>>)
  IN [i \in DOMAIN plan.key_attrs |-> Equation(i)]

RECURSIVE RowsOfPlan(_, _)
RowsOfPlan(plan, before) ==
  LET row == RowOfPlan(plan.child, before)
      rows == RowsOfPlan(plan.child, before)
      middle == before + Len(plan.left.schema)
  IN CASE plan.kind = "seq scan" ->
            Where(ReadAll(plan.filter, <<RowOfPlan(plan, before)>>), Scan(plan.table))
       [] plan.kind = "values" -> [kind |-> "values",
                                   rows |-> [i \in DOMAIN plan.rows |-> ReadAll(plan.rows[i], <<>>)]]
       [] plan.kind = "nested loop join" ->
            Joined(plan.join_type, RowsOfPlan(plan.left, before), RowsOfPlan(plan.right, middle),
                   ReadAll(plan.predicate,
                           <<RowOfPlan(plan.left, before), RowOfPlan(plan.right, middle)>>))
       [] plan.kind = "nested index join" ->
            Joined(plan.join_type, rows, Scan(plan.table),
                   IndexCondition(plan, RowOfPlan(plan, before)))
       [] plan.kind = "filter"    -> Where(<<Read(plan.predicate, <<row>>)>>, rows)
       [] plan.kind = "aggregate" -> Grouped(ReadAll(plan.group_by, <<row>>), rows)
       [] plan.kind = "limit"     -> Limited(<<Read(plan.limit, <<row>>)>>, rows)
       [] plan.kind = "sort" ->
            Sorted([i \in DOMAIN plan.order_bys |->
                      [key |-> Read(plan.order_bys[i].expression, <<row>>),
                       desc |-> plan.order_bys[i].desc,
                       nulls_first |-> plan.order_bys[i].nulls_first]], rows)
       [] OTHER -> rows

WhatPlanDoes(plan) ==
  LET row == RowOfPlan(plan.child, 0)
      rows == RowsOfPlan(plan.child, 0)
  IN CASE plan.kind = "insert" ->
            [kind |-> "insert", table |-> plan.table, rows |-> rows,
             gets |-> {<<plan.target_col_idxs[i], row[i]>> : i \in DOMAIN row}]
       [] plan.kind = "update" ->
            [kind |-> "update", table |-> plan.table, rows |-> rows,
             gets |-> ReadAll(plan.expressions, <<row>>)]
       [] plan.kind = "delete" -> [kind |-> "delete", table |-> plan.table, rows |-> rows]
       [] OTHER ->
            [kind |-> "query", rows |-> RowsOfPlan(plan, 0), output |-> RowOfPlan(plan, 0),
             names |-> [i \in DOMAIN plan.schema |-> plan.schema[i].name]]

=============================================================================
