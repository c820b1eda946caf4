----------------------------- MODULE Executors -----------------------------
(***************************************************************************)
(* The executors that produce rows (query/executor/): sequential scan,     *)
(* values, filter, projection, limit, nested loop join, nested index join  *)
(* and external merge sort.                                                *)
(*                                                                         *)
(* An executor is its plan node together with its state; its children are  *)
(* executors.  A call works on the storage env, a record of the heaps, the *)
(* indexes, the live temporary pages and a status that an error or a panic *)
(* sets, and gives back a record of the storage, the executor in its new   *)
(* state and the rows it returns.  A row has an identifier, Null for a     *)
(* computed one, and its values.                                           *)
(***************************************************************************)
EXTENDS Planner, TableHeap

CONSTANTS
  Columns,         \* table |-> its schema: names, types and sizes of the columns
  SortBatchSize,   \* SORT_CHILD_BATCH_SIZE
  TempCapacity     \* tuples that fit in a temporary page

Done(env, ex, rows) == [env |-> env, ex |-> ex, rows |-> rows]
Stopped(env, ex, status) == Done([env EXCEPT !.status = status], ex, <<>>)

Row(rid, values) == [rid |-> rid, values |-> values]

\* create_executor: every executor as its constructor leaves it.
RECURSIVE create_executor(_)
create_executor(plan) ==
  LET state == CASE plan.kind = "seq scan" -> [table_iterator |-> Exhausted]
                 [] plan.kind = "values" -> [next_row_idx |-> 0]
                 [] plan.kind = "filter" -> [buffered_rows |-> <<>>]
                 [] plan.kind = "limit" -> [remaining |-> 0]
                 [] plan.kind = "nested loop join" ->
                      [outer |-> <<>>, matched |-> FALSE, inner |-> <<>>]
                 [] plan.kind = "nested index join" ->
                      [outer |-> <<>>, matched |-> FALSE, rids |-> Null]
                 [] plan.kind = "sort" -> [run |-> <<>>, tuple_idx |-> 0]
                 [] OTHER -> <<>>
      new == [i \in DOMAIN children(plan) |-> create_executor(children(plan)[i])]
  IN clone_with_children(plan, new) @@ state

\* The pages of a table that the open iterators of an executor have guards on.
RECURSIVE Guards(_, _)
Guards(ex, table) ==
  IF ex.kind = "seq scan"
  THEN IF ex.table = table THEN {ex.table_iterator.page} \ {0} ELSE {}
  ELSE UNION {Guards(children(ex)[i], table) : i \in DOMAIN children(ex)}

\* The temporary pages that dropping an executor deletes (Drop for
\* MergeSortRunIterator).
RECURSIVE OwnedPages(_)
OwnedPages(ex) ==
  (IF ex.kind = "sort" THEN {ex.run[i].page : i \in DOMAIN ex.run} ELSE {})
    \cup UNION {OwnedPages(children(ex)[i]) : i \in DOMAIN children(ex)}

(***************************************************************************)
(* Joined rows.  A left join fills the inner side with NULLs of its types. *)
(***************************************************************************)
build_join_tuple(ex, left, right) ==
  IF right # Null THEN Row(Null, left.values \o right.values)
  ELSE Row(Null, [i \in DOMAIN ex.schema |->
                    IF i \in DOMAIN left.values THEN left.values[i]
                    ELSE <<ex.schema[i].type, Null>>])

(***************************************************************************)
(* External merge sort.  Tuples fill temporary pages; each page is sorted, *)
(* then runs are merged two by two, in their order, until one is left.     *)
(***************************************************************************)
RECURSIVE merge_sorted_runs(_, _, _)

\* Variant that takes the right run first among equals.
merge_right_first(a, b, order_bys) ==
  IF a = <<>> \/ b = <<>> THEN a \o b
  ELSE IF KeyGreater(SortKey(Head(b), order_bys), SortKey(Head(a), order_bys), order_bys)
       THEN <<Head(a)>> \o merge_sorted_runs(Tail(a), b, order_bys)
       ELSE <<Head(b)>> \o merge_sorted_runs(a, Tail(b), order_bys)

\* merge_sorted_runs: the left run first among equals.
merge_sorted_runs(a, b, order_bys) ==
  IF a = <<>> \/ b = <<>> THEN a \o b
  ELSE IF KeyGreater(SortKey(Head(a), order_bys), SortKey(Head(b), order_bys), order_bys)
       THEN <<Head(b)>> \o merge_sorted_runs(a, Tail(b), order_bys)
       ELSE <<Head(a)>> \o merge_sorted_runs(Tail(a), b, order_bys)

\* The stable sort of one page (slice::sort_by).
SortedPage(tuples, order_bys) ==
  FoldLeft(LAMBDA sorted, t : merge_sorted_runs(sorted, <<t>>, order_bys), <<>>, tuples)

\* insert_into_page: a new page whenever the last one is full; one at least.
RECURSIVE IntoPages(_)
IntoPages(tuples) ==
  IF Len(tuples) <= TempCapacity THEN <<tuples>>
  ELSE <<SubSeq(tuples, 1, TempCapacity)>>
         \o IntoPages(SubSeq(tuples, TempCapacity + 1, Len(tuples)))

\* One round of merging; the odd run out is the last one of the next round.
RECURSIVE MergeRound(_, _)
MergeRound(runs, order_bys) ==
  IF Len(runs) <= 1 THEN runs
  ELSE <<merge_sorted_runs(runs[1], runs[2], order_bys)>>
         \o MergeRound(SubSeq(runs, 3, Len(runs)), order_bys)

RECURSIVE MergeAll(_, _)
MergeAll(runs, order_bys) ==
  IF Len(runs) = 1 THEN runs[1] ELSE MergeAll(MergeRound(runs, order_bys), order_bys)

\* The n lowest page numbers that are free, as the pages of the tuples.
OnFreePages(temp, pages) ==
  LET free == (1 .. Cardinality(temp) + Len(pages)) \ temp
      Nth(n) == CHOOSE p \in free : Cardinality({q \in free : q <= p}) = n
  IN [i \in DOMAIN pages |-> [page |-> Nth(i), tuples |-> pages[i]]]

PagesOf(run) == {run[i].page : i \in DOMAIN run}

RECURSIVE take(_, _, _, _)

\* Variant that lets go of a page without deleting it.
take_undeleted(env, ex, n, rows) ==
  IF n = 0 \/ ex.run = <<>> THEN Done(env, ex, rows)
  ELSE IF ex.tuple_idx >= Len(Head(ex.run).tuples)
  THEN take(env, [ex EXCEPT !.run = Tail(@), !.tuple_idx = 0], n, rows)
  ELSE take(env, [ex EXCEPT !.tuple_idx = @ + 1], n - 1,
            Append(rows, Row(Null, Head(ex.run).tuples[ex.tuple_idx + 1])))

\* MergeSortRunIterator::next, n times: a page is deleted when the tuple behind
\* its last one is asked for.
take(env, ex, n, rows) ==
  IF n = 0 \/ ex.run = <<>> THEN Done(env, ex, rows)
  ELSE LET page == Head(ex.run) IN
       IF ex.tuple_idx >= Len(page.tuples)
       THEN take([env EXCEPT !.temp = @ \ {page.page}],
                 [ex EXCEPT !.run = Tail(@), !.tuple_idx = 0], n, rows)
       ELSE take(env, [ex EXCEPT !.tuple_idx = @ + 1], n - 1,
                 Append(rows, Row(Null, page.tuples[ex.tuple_idx + 1])))

(***************************************************************************)
(* init and next                                                           *)
(***************************************************************************)
RECURSIVE next(_, _, _)

\* All rows of a child, batch by batch.
RECURSIVE Drain(_, _, _)
Drain(env, ex, rows) ==
  LET More(c) == IF c.env.status # "ok" \/ c.rows = <<>> THEN Done(c.env, c.ex, rows)
                 ELSE Drain(c.env, c.ex, rows \o c.rows)
  IN More(next(env, ex, SortBatchSize))

SortedRun(pages, order_bys) ==
  MergeAll([i \in DOMAIN pages |-> SortedPage(pages[i], order_bys)], order_bys)

\* An error on the way leaves the pages behind: nobody owns them yet.
LeavePages(env, ex, pages, status) ==
  Stopped([env EXCEPT !.temp = @ \cup PagesOf(OnFreePages(@, pages))], ex, status)

OwnRun(env, ex, run) ==
  Done([env EXCEPT !.temp = @ \cup PagesOf(run)],
       [ex EXCEPT !.run = run, !.tuple_idx = 0], <<>>)

\* Rows are drained into pages, then sorted.
SortInit(env, ex) ==
  LET HasKey(row) == Error \notin ToSet(SortKey(row.values, ex.order_bys))
      Sort(c, drained, pages) ==
        IF c.env.status # "ok" THEN LeavePages(c.env, drained, pages, c.env.status)
        ELSE IF \E i \in DOMAIN c.rows : ~HasKey(c.rows[i])
        THEN LeavePages(c.env, drained, pages, "error")
        ELSE OwnRun(c.env, drained,
                    OnFreePages(c.env.temp, IntoPages(SortedRun(pages, ex.order_bys))))
      After(c) == Sort(c, [ex EXCEPT !.child = c.ex],
                       IntoPages([i \in DOMAIN c.rows |-> c.rows[i].values]))
  IN After(Drain(env, ex.child, <<>>))

\* NULL limits nothing; a negative number is refused.
LimitInit(env, ex) ==
  LET v == evaluate_expression(ex.limit, << <<>> >>) IN
  IF ~IsNumeric(v) /\ ~IsNull(v) THEN Stopped(env, ex, "error")
  ELSE IF IsNull(v) THEN Done(env, [ex EXCEPT !.remaining = Null], <<>>)
  ELSE IF v[2] < 0 THEN Stopped(env, ex, "error")
  ELSE Done(env, [ex EXCEPT !.remaining = v[2]], <<>>)

\* The nested loop join initialises its outer child only.
RECURSIVE init(_, _)
init(env, ex) ==
  CASE ex.kind = "seq scan" -> Done(env, [ex EXCEPT !.table_iterator = iter], <<>>)
    [] ex.kind = "values"   -> Done(env, [ex EXCEPT !.next_row_idx = 0], <<>>)
    [] ex.kind = "nested loop join" ->
         LET c == init(env, ex.left) IN Done(c.env, [ex EXCEPT !.left = c.ex], <<>>)
    [] OTHER ->
         LET c == init(env, ex.child)
             started == [ex EXCEPT !.child = c.ex]
         IN CASE c.env.status # "ok" -> Done(c.env, started, <<>>)
              [] ex.kind = "sort"    -> SortInit(c.env, started)
              [] ex.kind = "limit"   -> LimitInit(c.env, started)
              [] ex.kind = "nested index join" ->
                   Done(c.env, [started EXCEPT !.outer = <<>>, !.matched = FALSE,
                                               !.rids = Null], <<>>)
              [] OTHER -> Done(c.env, started, <<>>)

\* What becomes of the slot a scan comes to: deleted ones are dropped.
scan_verdict(ex, slot) ==
  IF slot.deleted THEN "drop"
  ELSE IF ex.filter = <<>> THEN "keep"
  ELSE filter_keep_row(ex.filter[1], <<slot.tuple>>)

RECURSIVE ScanNext(_, _, _, _)

ScanSlot(env, ex, n, rows) ==
  LET rid == <<ex.table_iterator.page, ex.table_iterator.idx>>
      slot == get_tuple(env.heap[ex.table], rid)
      verdict == scan_verdict(ex, slot)
  IN IF verdict = "error" THEN Stopped(env, ex, "error")
     ELSE ScanNext(env, ex, n, IF verdict = "drop" THEN rows ELSE Append(rows, Row(rid, slot.tuple)))

\* Variant that stays where it is when it comes to the end.
ScanNextKeepsPage(env, ex, n, rows) ==
  LET it == iterator_next(env.heap[ex.table], ex.table_iterator) IN
  IF Len(rows) = n \/ it = Exhausted THEN Done(env, ex, rows)
  ELSE ScanSlot(env, [ex EXCEPT !.table_iterator = it], n, rows)

\* The scan returns live rows that pass its filter, if it has one.
ScanNext(env, ex, n, rows) ==
  LET it == iterator_next(env.heap[ex.table], ex.table_iterator)
      moved == [ex EXCEPT !.table_iterator = it]
  IN IF Len(rows) = n THEN Done(env, ex, rows)
     ELSE IF it = Exhausted THEN Done(env, moved, rows)
     ELSE ScanSlot(env, moved, n, rows)

\* Rows of the child's batch that are left over stay in the buffer.
RECURSIVE FilterNext(_, _, _, _)
FilterNext(env, ex, n, rows) ==
  IF ex.buffered_rows = <<>>
  THEN LET c == next(env, ex.child, n)
           filled == [ex EXCEPT !.child = c.ex, !.buffered_rows = c.rows]
       IN IF c.env.status # "ok" \/ c.rows = <<>> THEN Done(c.env, filled, rows)
          ELSE FilterNext(c.env, filled, n, rows)
  ELSE LET row == Head(ex.buffered_rows)
           rest == [ex EXCEPT !.buffered_rows = Tail(@)]
           verdict == filter_keep_row(ex.predicate, <<row.values>>)
           kept == IF verdict = "keep" THEN Append(rows, row) ELSE rows
       IN IF verdict = "error" THEN Stopped(env, rest, "error")
          ELSE IF Len(kept) = n THEN Done(env, rest, kept)
          ELSE FilterNext(env, rest, n, kept)

ProjectionNext(env, ex, n) ==
  LET c == next(env, ex.child, n)
      ran == [ex EXCEPT !.child = c.ex]
      rows == [i \in DOMAIN c.rows |-> Row(Null, EvaluateAll(ex.expressions, c.rows[i].values))]
  IN IF c.env.status # "ok" THEN Done(c.env, ran, <<>>)
     ELSE IF \E i \in DOMAIN rows : Error \in ToSet(rows[i].values)
     THEN Stopped(c.env, ran, "error")
     ELSE Done(c.env, ran, rows)

LimitNext(env, ex, n) ==
  LET asked == IF ex.remaining = Null \/ n <= ex.remaining THEN n ELSE ex.remaining
      c == next(env, ex.child, asked)
  IN IF ex.remaining = 0 THEN Done(env, ex, <<>>)
     ELSE Done(c.env,
               [ex EXCEPT !.child = c.ex,
                          !.remaining = IF @ = Null THEN Null ELSE @ - Len(c.rows)],
               c.rows)

ValuesNext(env, ex, n) ==
  LET end == IF ex.next_row_idx + n <= Len(ex.rows) THEN ex.next_row_idx + n ELSE Len(ex.rows)
      batch == SubSeq(ex.rows, ex.next_row_idx + 1, end)
      rows == [i \in DOMAIN batch |-> Row(Null, EvaluateAll(batch[i], <<>>))]
  IN IF \E i \in DOMAIN rows : Error \in ToSet(rows[i].values) THEN Stopped(env, ex, "error")
     ELSE Done(env, [ex EXCEPT !.next_row_idx = end], rows)

(***************************************************************************)
(* Nested loop join.  outer holds the outer rows of the batch from the     *)
(* current one on, inner the rows left of the inner child's batch.  The    *)
(* inner child is initialised for every outer row, and once more when the  *)
(* last one is done.                                                       *)
(***************************************************************************)
keep_row(ex, left, right) ==
  IF ex.join_type = "cross" \/ ex.predicate = <<>> THEN "keep"
  ELSE filter_keep_row(ex.predicate[1], <<left.values, right.values>>)

RECURSIVE LoopJoinNext(_, _, _, _)

NextOuterBatch(env, ex, n, rows) ==
  LET Restart(l, r) ==
        LET filled == [ex EXCEPT !.left = l.ex, !.right = r.ex, !.outer = l.rows, !.matched = FALSE]
        IN IF r.env.status # "ok" THEN Done(r.env, filled, rows)
           ELSE LoopJoinNext(r.env, filled, n, rows)
      After(l) ==
        IF l.env.status # "ok" \/ l.rows = <<>> THEN Done(l.env, [ex EXCEPT !.left = l.ex], rows)
        ELSE Restart(l, init(l.env, ex.right))
  IN After(next(env, ex.left, n))

\* When the inner child has no more rows the outer row is finished: a left
\* join returns it alone if nothing matched.
NextInnerBatch(env, ex, n, rows) ==
  LET out == IF ex.join_type = "left" /\ ~ex.matched
             THEN Append(rows, build_join_tuple(ex, Head(ex.outer), Null)) ELSE rows
      Finish(again, finished) ==
        IF again.env.status # "ok" \/ Len(out) >= n THEN Done(again.env, finished, out)
        ELSE LoopJoinNext(again.env, finished, n, out)
      FinishRow(again) ==
        Finish(again, [ex EXCEPT !.right = again.ex, !.outer = Tail(@), !.matched = FALSE])
      After(r) ==
        IF r.env.status # "ok" THEN Done(r.env, [ex EXCEPT !.right = r.ex], rows)
        ELSE IF r.rows = <<>> THEN FinishRow(init(r.env, r.ex))
        ELSE LoopJoinNext(r.env, [ex EXCEPT !.right = r.ex, !.inner = r.rows], n, rows)
  IN After(next(env, ex.right, n))

JoinInnerRow(env, ex, n, rows) ==
  LET left == Head(ex.outer)
      right == Head(ex.inner)
      verdict == keep_row(ex, left, right)
      rest == [ex EXCEPT !.inner = Tail(@), !.matched = @ \/ verdict = "keep"]
      out == IF verdict = "keep" THEN Append(rows, build_join_tuple(ex, left, right)) ELSE rows
  IN IF verdict = "error" THEN Stopped(env, rest, "error")
     ELSE IF verdict = "keep" /\ Len(out) >= n THEN Done(env, rest, out)
     ELSE LoopJoinNext(env, rest, n, out)

LoopJoinNext(env, ex, n, rows) ==
  IF ex.outer = <<>> THEN NextOuterBatch(env, ex, n, rows)
  ELSE IF ex.inner = <<>> THEN NextInnerBatch(env, ex, n, rows)
  ELSE JoinInnerRow(env, ex, n, rows)

(***************************************************************************)
(* Nested index join.  rids holds the matches left of the current outer    *)
(* row, Null before the index has been asked.                              *)
(***************************************************************************)
\* Index::scan_key: the rows of a key in the order of the tree.
scan_key(entries, key) ==
  SetToSortSeq({rid \in {e[2] : e \in entries} : <<key, rid>> \in entries}, RidBefore)

\* Tuple::from_values asserts that the values have the types of the schema.
HaveTypes(values, columns) == \A i \in DOMAIN values : values[i][1] = columns[i].type

RECURSIVE IndexJoinNext(_, _, _, _)

\* A key with a NULL in it matches nothing.
ProbeIndex(env, ex, n, rows) ==
  LET key == EvaluateAll(ex.index_expressions, Head(ex.outer).values)
      key_schema == [i \in DOMAIN ex.key_attrs |-> Columns[ex.table][ex.key_attrs[i]]]
      found == IF \E i \in DOMAIN key : IsNull(key[i]) THEN <<>>
               ELSE scan_key(env.index[ex.table][ex.key_attrs], key)
  IN IF ~HaveTypes(key, key_schema) THEN Stopped(env, ex, "panic")
     ELSE IndexJoinNext(env, [ex EXCEPT !.rids = found], n, rows)

FetchMatch(env, ex, n, rows) ==
  LET rid == Head(ex.rids)
      slot == get_tuple(env.heap[ex.table], rid)
      rest == [ex EXCEPT !.rids = Tail(@), !.matched = @ \/ ~slot.deleted]
      out == IF slot.deleted THEN rows
             ELSE Append(rows, build_join_tuple(ex, Head(ex.outer), Row(rid, slot.tuple)))
  IN IF ~slot.deleted /\ Len(out) >= n THEN Done(env, rest, out)
     ELSE IndexJoinNext(env, rest, n, out)

FinishOuterRow(env, ex, n, rows) ==
  LET out == IF ex.join_type = "left" /\ ~ex.matched
             THEN Append(rows, build_join_tuple(ex, Head(ex.outer), Null)) ELSE rows
      finished == [ex EXCEPT !.outer = Tail(@), !.matched = FALSE, !.rids = Null]
  IN IF Len(out) >= n THEN Done(env, finished, out) ELSE IndexJoinNext(env, finished, n, out)

IndexJoinNext(env, ex, n, rows) ==
  IF ex.outer = <<>>
  THEN LET c == next(env, ex.child, n)
           filled == [ex EXCEPT !.child = c.ex, !.outer = c.rows, !.matched = FALSE, !.rids = Null]
       IN IF c.env.status # "ok" \/ c.rows = <<>> THEN Done(c.env, filled, rows)
          ELSE IndexJoinNext(c.env, filled, n, rows)
  ELSE IF ex.rids = Null THEN ProbeIndex(env, ex, n, rows)
  ELSE IF ex.rids # <<>> THEN FetchMatch(env, ex, n, rows)
  ELSE FinishOuterRow(env, ex, n, rows)

next(env, ex, n) ==
  CASE ex.kind = "seq scan"          -> ScanNext(env, ex, n, <<>>)
    [] ex.kind = "values"            -> ValuesNext(env, ex, n)
    [] ex.kind = "filter"            -> FilterNext(env, ex, n, <<>>)
    [] ex.kind = "projection"        -> ProjectionNext(env, ex, n)
    [] ex.kind = "limit"             -> LimitNext(env, ex, n)
    [] ex.kind = "sort"              -> take(env, ex, n, <<>>)
    [] ex.kind = "nested loop join"  -> LoopJoinNext(env, ex, n, <<>>)
    [] ex.kind = "nested index join" -> IndexJoinNext(env, ex, n, <<>>)

=============================================================================
