------------------------------ MODULE Database ------------------------------
(***************************************************************************)
(* What the database promises of its statements, whatever plan, index or   *)
(* batch size executes them.                                               *)
(*                                                                         *)
(* A table is a sequence of rows in the order they came.  The work of a    *)
(* statement is fixed by the tables as they are when it begins.  A query   *)
(* then answers at once; a statement that changes rows changes them one by *)
(* one, in order, and answers with their number.  It is not atomic: an     *)
(* error leaves the rows changed before it changed, and only an expression *)
(* that cannot be evaluated, or operands of different types, give one.     *)
(***************************************************************************)
EXTENDS Expressions, FiniteSets

CONSTANTS
  Columns,   \* table |-> sequence of the names and types of its columns
  Ids        \* identities of rows

VARIABLES
  rows,      \* table |-> sequence of rows, each an identity and a tuple
  job,       \* the statement being executed and what it has yet to do
  answer     \* the answer to the last statement

vars == <<rows, job, answer>>

NoJob == [stmt |-> Null, todo |-> <<>>, count |-> 0, mayFail |-> FALSE, mustFail |-> FALSE]

(***************************************************************************)
(* Relations: sequences of bindings of column names to values.  A binding  *)
(* that cannot be computed is marked as bad.                               *)
(***************************************************************************)
Good(binding) == [bad |-> FALSE, binding |-> binding]
Bad == [bad |-> TRUE, binding |-> <<>>]

HasBad(relation) == \E i \in DOMAIN relation : relation[i].bad

Names(table, alias) == {<<alias, Columns[table][c].name>> : c \in DOMAIN Columns[table]}

BindingOf(table, alias, tuple) ==
  [name \in Names(table, alias) |->
     tuple[CHOOSE c \in DOMAIN tuple : Columns[table][c].name = name[2]]]

RECURSIVE Value(_, _)
Value(e, binding) ==
  CASE e.kind = "literal" -> e.value
    [] e.kind = "column"  -> binding[e.name]
    [] e.kind = "unary" ->
         LET v == Value(e.expr, binding) IN
         CASE e.op = "-"   -> eval_negate(v)
           [] e.op = "not" -> eval_not(v)
           [] OTHER        -> eval_null_check(e.op, v)
    [] e.kind = "binary" ->
         LET l == Value(e.left, binding)
             r == Value(e.right, binding)
         IN CASE e.op \in {"+", "-"}    -> eval_arithmetic(e.op, l, r)
              [] e.op \in {"and", "or"} -> eval_logic(e.op, l, r)
              [] OTHER                  -> eval_comparison(e.op, l, r)

Values(exprs, binding) == [i \in DOMAIN exprs |-> Value(exprs[i], binding)]

\* A condition keeps what it is true of; it is bad on what it cannot judge.
Selected(relation, condition) ==
  LET Judge(r) ==
        IF r.bad \/ condition = <<>> THEN <<r>>
        ELSE LET v == Value(condition[1], r.binding) IN
             IF ~IsTruthValue(v) THEN <<Bad>>
             ELSE IF v[2] = 1 THEN <<r>> ELSE <<>>
  IN FlattenSeq([i \in DOMAIN relation |-> Judge(relation[i])])

RECURSIVE ColumnsOf(_)
ColumnsOf(ref) ==
  IF ref.kind = "table"
  THEN [name \in Names(ref.table, ref.alias) |->
          Columns[ref.table][CHOOSE c \in DOMAIN Columns[ref.table] :
                               Columns[ref.table][c].name = name[2]].type]
  ELSE ColumnsOf(ref.left) @@ ColumnsOf(ref.right)

RECURSIVE Relation(_)
Relation(ref) ==
  IF ref.kind = "table"
  THEN [i \in DOMAIN rows[ref.table] |->
          Good(BindingOf(ref.table, ref.alias, rows[ref.table][i].tuple))]
  ELSE LET left == Relation(ref.left)
           right == Relation(ref.right)
           types == ColumnsOf(ref.right)
           nulls == [name \in DOMAIN types |-> <<types[name], Null>>]
           Pair(l, r) == IF r.bad THEN Bad ELSE Good(l.binding @@ r.binding)
           Matches(l) == Selected([j \in DOMAIN right |-> Pair(l, right[j])], ref.condition)
           Joined(l) == IF l.bad THEN <<l>>
                        ELSE IF ref.join_type = "left" /\ Matches(l) = <<>>
                        THEN <<Good(l.binding @@ nulls)>> ELSE Matches(l)
       IN FlattenSeq([i \in DOMAIN left |-> Joined(left[i])])

(***************************************************************************)
(* Queries: rows in order, ties as they came, then projected and cut off.  *)
(***************************************************************************)
Ordered(relation, order_by) ==
  LET Key(i) == [k \in DOMAIN order_by |-> Value(order_by[k].expression, relation[i].binding)]
      Before(i, j) == \/ KeyGreater(Key(j), Key(i), order_by)
                      \/ ~KeyGreater(Key(i), Key(j), order_by) /\ i < j
      PlaceOf(i) == Cardinality({j \in DOMAIN relation : Before(j, i)}) + 1
  IN IF order_by = <<>> THEN relation
     ELSE IF HasBad(relation) \/ \E i \in DOMAIN relation : Error \in ToSet(Key(i)) THEN <<Bad>>
     ELSE [p \in DOMAIN relation |-> relation[CHOOSE i \in DOMAIN relation : PlaceOf(i) = p]]

Projected(relation, exprs) ==
  [i \in DOMAIN relation |->
     IF relation[i].bad \/ Error \in ToSet(Values(exprs, relation[i].binding)) THEN Bad
     ELSE Good(Values(exprs, relation[i].binding))]

\* The whole result of a query and the part of it LIMIT lets through.
Unlimited(s) ==
  Projected(Ordered(Selected(Relation(s.from), s.where), s.order_by), s.projection)

LimitOf(s) == IF s.limit = <<>> THEN <<"integer", Null>> ELSE Value(s.limit[1], <<>>)

GoodLimit(v) == IsNull(v) \/ (IsNumeric(v) /\ v[2] >= 0)

Limited(s) ==
  LET all == Unlimited(s)
      v == LimitOf(s)
  IN IF ~GoodLimit(v) THEN <<Bad>>
     ELSE IF IsNull(v) \/ v[2] >= Len(all) THEN all ELSE SubSeq(all, 1, v[2])

Bindings(relation) == [i \in DOMAIN relation |-> relation[i].binding]

(***************************************************************************)
(* Statements that mix types: operands, or a column and what is stored in  *)
(* it, of different types.  The database may refuse them.                  *)
(***************************************************************************)
RECURSIVE TypeOf(_, _)
TypeOf(e, types) ==
  CASE e.kind = "literal" -> e.value[1]
    [] e.kind = "column"  -> types[e.name]
    [] e.kind = "unary"   -> IF e.op = "-" THEN TypeOf(e.expr, types) ELSE "boolean"
    [] e.kind = "binary"  -> IF e.op \in {"+", "-"} THEN TypeOf(e.left, types) ELSE "boolean"

RECURSIVE Mixes(_, _)
Mixes(e, types) ==
  CASE e.kind = "unary"  -> Mixes(e.expr, types)
    [] e.kind = "binary" -> \/ TypeOf(e.left, types) # TypeOf(e.right, types)
                            \/ Mixes(e.left, types) \/ Mixes(e.right, types)
    [] OTHER -> FALSE

\* Sequences of expressions against the types they are stored as.
MixesInto(exprs, types, targets) ==
  \/ Len(exprs) # Len(targets)
  \/ \E i \in DOMAIN exprs : Mixes(exprs[i], types) \/ TypeOf(exprs[i], types) # targets[i]

RECURSIVE MixesInFrom(_)
MixesInFrom(ref) ==
  /\ ref.kind = "join"
  /\ \/ MixesInFrom(ref.left) \/ MixesInFrom(ref.right)
     \/ ref.condition # <<>> /\ Mixes(ref.condition[1], ColumnsOf(ref))

MixesInQuery(s) ==
  LET types == ColumnsOf(s.from) IN
  \/ MixesInFrom(s.from)
  \/ \E e \in ToSet(s.where \o s.projection) : Mixes(e, types)
  \/ \E i \in DOMAIN s.order_by : Mixes(s.order_by[i].expression, types)

TypeOfColumn(table, name) ==
  Columns[table][CHOOSE c \in DOMAIN Columns[table] : Columns[table][c].name = name].type

TableRef(table) == [kind |-> "table", table |-> table, alias |-> table]

MixesTypes(s) ==
  CASE s.kind = "select" -> MixesInQuery(s)
    [] s.kind = "delete" -> \E e \in ToSet(s.where) : Mixes(e, ColumnsOf(TableRef(s.table)))
    [] s.kind = "update" ->
         LET types == ColumnsOf(TableRef(s.table)) IN
         \/ \E e \in ToSet(s.where) : Mixes(e, types)
         \/ \E i \in DOMAIN s.assignments :
              MixesInto(<<s.assignments[i].expression>>, types,
                        <<TypeOfColumn(s.table, s.assignments[i].column)>>)
    [] s.kind = "insert" ->
         LET targets == [i \in DOMAIN s.columns |-> TypeOfColumn(s.table, s.columns[i])] IN
         IF s.source.kind = "values"
         THEN \E i \in DOMAIN s.source.rows : MixesInto(s.source.rows[i], <<>>, targets)
         ELSE \/ MixesInQuery(s.source)
              \/ MixesInto(s.source.projection, ColumnsOf(s.source.from), targets)
    [] OTHER -> FALSE

(***************************************************************************)
(* The work of a statement                                                 *)
(***************************************************************************)
\* The rows of a table a condition selects, with their identities.
Affected(table, where) ==
  LET Judge(row) == Selected(<<Good(BindingOf(table, table, row.tuple))>>, where)
  IN SelectSeq(rows[table], LAMBDA row : Judge(row) # <<>> /\ ~HasBad(Judge(row)))

CannotJudge(table, where) ==
  \E i \in DOMAIN rows[table] :
    HasBad(Selected(<<Good(BindingOf(table, table, rows[table][i].tuple))>>, where))

\* The tuple an update makes of a row: assigned columns from the old values.
NewTuple(s, tuple) ==
  LET binding == BindingOf(s.table, s.table, tuple)
      Assigned(c) == {i \in DOMAIN s.assignments :
                        s.assignments[i].column = Columns[s.table][c].name}
      LastOf(I) == CHOOSE i \in I : \A j \in I : j <= i
  IN [c \in DOMAIN tuple |-> IF Assigned(c) = {} THEN tuple[c]
        ELSE Value(s.assignments[LastOf(Assigned(c))].expression, binding)]

\* The tuple an insert makes of a row of its source: NULL where no column is
\* named.
InsertedTuple(s, values) ==
  [c \in DOMAIN Columns[s.table] |->
     IF \E i \in DOMAIN s.columns : s.columns[i] = Columns[s.table][c].name
     THEN values[CHOOSE i \in DOMAIN s.columns : s.columns[i] = Columns[s.table][c].name]
     ELSE <<Columns[s.table][c].type, Null>>]


\* The rows an insert takes from its source.
Source(s) ==
  IF s.source.kind = "select" THEN Limited(s.source)
  ELSE [i \in DOMAIN s.source.rows |->
          LET values == Values(s.source.rows[i], <<>>) IN
          IF Error \in ToSet(values) THEN Bad ELSE Good(values)]

UpToBad(relation) ==
  SubSeq(relation, 1, Cardinality({i \in DOMAIN relation :
                                     \A j \in 1 .. i : ~relation[j].bad}))

Change(id, tuple) == [id |-> id, tuple |-> tuple]

Work(s) ==
  CASE s.kind = "insert" ->
         LET good == UpToBad(Source(s)) IN
         [i \in DOMAIN good |-> Change(Null, InsertedTuple(s, good[i].binding))]
    [] s.kind = "update" ->
         LET affected == Affected(s.table, s.where) IN
         [i \in DOMAIN affected |-> Change(affected[i].id, NewTuple(s, affected[i].tuple))]
    [] s.kind = "delete" -> Affected(s.table, s.where)
    [] OTHER -> <<>>

\* Some expression cannot be evaluated on some row it may be asked of.
QueryMayFail(s) == HasBad(Unlimited(s)) \/ ~GoodLimit(LimitOf(s))

CannotEvaluate(s) ==
  CASE s.kind = "select" -> QueryMayFail(s)
    [] s.kind = "insert" -> IF s.source.kind = "select" THEN QueryMayFail(s.source)
                            ELSE HasBad(Source(s))
    [] s.kind = "delete" -> CannotJudge(s.table, s.where)
    [] s.kind = "update" -> \/ CannotJudge(s.table, s.where)
                            \/ \E i \in DOMAIN Work(s) : Error \in ToSet(Work(s)[i].tuple)
    [] OTHER -> TRUE

\* It does not get to the end without asking.
MustFail(s) ==
  CASE s.kind = "select" -> HasBad(Limited(s))
    [] s.kind = "insert" -> HasBad(Source(s))
    [] s.kind \in {"update", "delete"} -> CannotEvaluate(s)
    [] OTHER -> FALSE

JobOf(s) == [stmt |-> s, todo |-> Work(s), count |-> 0,
             mayFail |-> CannotEvaluate(s) \/ MixesTypes(s), mustFail |-> MustFail(s)]

(***************************************************************************)
(* The actions                                                             *)
(***************************************************************************)
Failed == [ok |-> FALSE, rows |-> <<>>]
Answered(result) == [ok |-> TRUE, rows |-> result]

Begin(s) ==
  /\ job = NoJob
  /\ job' = JobOf(s)
  /\ answer' = Null
  /\ UNCHANGED rows

Without(table, id) == SelectSeq(rows[table], LAMBDA row : row.id # id)

\* An inserted or updated row comes last, under a new identity.
ChangeRow ==
  LET table == job.stmt.table
      change == Head(job.todo)
  IN /\ job.todo # <<>>
     /\ IF job.stmt.kind = "delete"
        THEN rows' = [rows EXCEPT ![table] = Without(table, change.id)]
        ELSE \E id \in Ids \ {row.id : row \in ToSet(rows[table])} :
               rows' = [rows EXCEPT ![table] =
                          Append(Without(table, change.id), Change(id, change.tuple))]
     /\ job' = [job EXCEPT !.todo = Tail(@), !.count = @ + 1]
     /\ UNCHANGED answer

Result ==
  CASE job.stmt.kind = "select" -> Bindings(Limited(job.stmt))
    [] job.stmt.kind = "create index" -> <<>>
    [] OTHER -> << <<"integer", job.count>> >>

Finish ==
  /\ job # NoJob
  /\ job.todo = <<>>
  /\ ~job.mustFail
  /\ answer' = Answered(Result)
  /\ job' = NoJob
  /\ UNCHANGED rows

Fail ==
  /\ job # NoJob
  /\ job.mayFail
  /\ answer' = Failed
  /\ job' = NoJob
  /\ UNCHANGED rows

Next(statements) == (\E s \in statements : Begin(s)) \/ ChangeRow \/ Finish \/ Fail

=============================================================================
