---------------------------- MODULE Expressions ----------------------------
(***************************************************************************)
(* The evaluation of planned expressions (query/executor/expression.rs):   *)
(* SQL's three-valued logic, comparisons and arithmetic over the integer   *)
(* types with their widening and their overflow check, filters, and the    *)
(* order of ORDER BY keys.                                                 *)
(*                                                                         *)
(* A value is a pair of an SQL type and a content, Null for a NULL of that *)
(* type; booleans are 0 and 1.  An expression that the code answers with   *)
(* an ExecutionError has the value Error.  Varchars and decimals are left  *)
(* out: they compare like the other types, and neither overflows.          *)
(***************************************************************************)
EXTENDS Integers, Sequences, SequencesExt

CONSTANTS
  Null,    \* the content of a NULL
  MaxOf    \* the largest number of each integer type

IntegerTypes == <<"smallint", "integer", "bigint">>

Error == <<"error", Null>>

IsNull(v) == v # Error /\ v[2] = Null

Bool(b) == <<"boolean", IF b THEN 1 ELSE 0>>
Unknown == <<"boolean", Null>>

IsNumeric(v) == v[1] \in ToSet(IntegerTypes)

\* numeric_result_type: the wider of two integer types.
Wider(s, t) ==
  CHOOSE w \in {s, t} : \A x \in {s, t} :
    \E i, j \in DOMAIN IntegerTypes :
      i <= j /\ IntegerTypes[i] = x /\ IntegerTypes[j] = w

(***************************************************************************)
(* The operators                                                           *)
(***************************************************************************)
eval_ord_comparison(op, x, y) ==
  CASE op = "="  -> x = y
    [] op = "<>" -> x # y
    [] op = "<"  -> x < y
    [] op = "<=" -> x <= y
    [] op = ">"  -> x > y
    [] op = ">=" -> x >= y

\* Integers of any width compare with each other, other values with their own
\* type only; NULL on either side makes the answer unknown.
eval_comparison(op, l, r) ==
  IF Error \in {l, r} \/ ~(l[1] = r[1] \/ (IsNumeric(l) /\ IsNumeric(r)))
  THEN Error
  ELSE IF IsNull(l) \/ IsNull(r) THEN Unknown
  ELSE Bool(eval_ord_comparison(op, l[2], r[2]))

\* checked_add, checked_sub and checked_neg.
InRange(t, n) == IF n \in -MaxOf[t] - 1 .. MaxOf[t] THEN <<t, n>> ELSE Error

eval_arithmetic(op, l, r) ==
  IF ~IsNumeric(l) \/ ~IsNumeric(r) THEN Error
  ELSE LET t == Wider(l[1], r[1]) IN
       IF IsNull(l) \/ IsNull(r) THEN <<t, Null>>
       ELSE InRange(t, IF op = "+" THEN l[2] + r[2] ELSE l[2] - r[2])

\* A NULL of any type is accepted where a boolean is expected.
IsTruthValue(v) == v # Error /\ (v[1] = "boolean" \/ IsNull(v))

\* FALSE decides AND and TRUE decides OR whatever the other side is.
eval_logic(op, l, r) ==
  LET decisive == IF op = "and" THEN 0 ELSE 1 IN
  IF ~IsTruthValue(l) \/ ~IsTruthValue(r) THEN Error
  ELSE IF decisive \in {l[2], r[2]} THEN <<"boolean", decisive>>
  ELSE IF Null \in {l[2], r[2]} THEN Unknown
  ELSE <<"boolean", 1 - decisive>>

eval_not(v) ==
  IF ~IsTruthValue(v) THEN Error
  ELSE IF IsNull(v) THEN Unknown ELSE <<"boolean", 1 - v[2]>>

eval_negate(v) ==
  IF ~IsNumeric(v) THEN Error
  ELSE IF IsNull(v) THEN v ELSE InRange(v[1], -v[2])

eval_null_check(op, v) ==
  IF v = Error THEN Error ELSE Bool(IsNull(v) = (op = "is null"))

\* The value of a planned expression on a row, or on the two rows of a join:
\* a column names the side it is of and its place there.
RECURSIVE evaluate_expression(_, _)
evaluate_expression(e, rows) ==
  CASE e.kind = "column"     -> rows[e.tuple_idx][e.col_idx]
    [] e.kind = "constant"   -> e.value
    [] e.kind = "comparison" -> eval_comparison(e.op,
                                  evaluate_expression(e.left, rows),
                                  evaluate_expression(e.right, rows))
    [] e.kind = "arithmetic" -> eval_arithmetic(e.op,
                                  evaluate_expression(e.left, rows),
                                  evaluate_expression(e.right, rows))
    [] e.kind = "logic"      -> eval_logic(e.op,
                                  evaluate_expression(e.left, rows),
                                  evaluate_expression(e.right, rows))
    [] e.kind = "not"        -> eval_not(evaluate_expression(e.expr, rows))
    [] e.kind = "negate"     -> eval_negate(evaluate_expression(e.expr, rows))
    [] e.kind = "null check" -> eval_null_check(e.op,
                                  evaluate_expression(e.expr, rows))

\* The errors and panics in an expression, a list of them or the tables of a
\* query, in the order in which the code comes upon them.
RECURSIVE FaultsIn(_)
FaultsIn(e) ==
  CASE e.kind \in {"error", "panic"} -> <<e.kind>>
    [] "left" \in DOMAIN e          -> FaultsIn(e.left) \o FaultsIn(e.right)
    [] "expr" \in DOMAIN e          -> FaultsIn(e.expr)
    [] OTHER                        -> <<>>

FaultsInAll(exprs) == FlattenSeq([i \in DOMAIN exprs |-> FaultsIn(exprs[i])])

\* Several expressions on one row.
EvaluateAll(exprs, row) ==
  [i \in DOMAIN exprs |-> evaluate_expression(exprs[i], <<row>>)]

\* filter_keep_row and filter_join_row: TRUE keeps the row, FALSE and NULL of
\* any type drop it.
filter_keep_row(predicate, rows) ==
  LET v == evaluate_expression(predicate, rows) IN
  IF ~IsTruthValue(v) THEN "error"
  ELSE IF v[2] = 1 THEN "keep" ELSE "drop"

(***************************************************************************)
(* ORDER BY.  compare_keys looks for the first column in which two keys    *)
(* differ; NULLs come first or last as the clause says, whatever its       *)
(* direction.                                                              *)
(***************************************************************************)
SameRank(v, w) == IF IsNull(v) \/ IsNull(w) THEN IsNull(v) /\ IsNull(w)
                  ELSE v[2] = w[2]

Precedes(v, w, order_by) ==
  IF IsNull(v) \/ IsNull(w)
  THEN IF order_by.nulls_first THEN IsNull(v) ELSE IsNull(w)
  ELSE IF order_by.desc THEN v[2] > w[2] ELSE v[2] < w[2]

\* compare_keys(a, b) is Greater.
KeyGreater(a, b, order_bys) ==
  \E i \in DOMAIN order_bys :
    /\ \A j \in 1 .. i - 1 : SameRank(a[j], b[j])
    /\ ~SameRank(a[i], b[i])
    /\ Precedes(b[i], a[i], order_bys[i])

\* generate_sort_key.
SortKey(row, order_bys) ==
  [i \in DOMAIN order_bys |-> evaluate_expression(order_bys[i].expression, <<row>>)]

=============================================================================
