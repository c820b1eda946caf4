----------------------------- MODULE Statements -----------------------------
(***************************************************************************)
(* The execution of statements (database.rs, query/engine.rs, query/       *)
(* executor/engine.rs, insert.rs, update.rs, delete.rs, catalog/           *)
(* manager.rs).  One statement at a time holds the catalog: it is planned, *)
(* optimized and pulled batch by batch through its executors; an insert,   *)
(* update or delete goes through each batch row by row, heap first and     *)
(* index by index, or the other way round.                                 *)
(*                                                                         *)
(* The scan below a statement keeps a read guard on the page its iterator  *)
(* stands on, and the changes to the heap take write guards: a statement   *)
(* that wants the page its own scan is on waits for ever.  A panic poisons *)
(* the mutex of the catalog, and no statement runs after it.               *)
(***************************************************************************)
EXTENDS Executors

CONSTANTS
  StatementSet,    \* the statements clients may execute
  InitialTables,   \* tables as earlier statements may have left them
  BatchSize,       \* DEFAULT_BATCH_SIZE
  MaxStatements,   \* bound on the statements of a run
  MaxPages         \* bound on the pages of a heap

VARIABLES
  heap,       \* table |-> its heap
  index,      \* table |-> for each index, named by its columns, its entries
  temp,       \* the temporary pages that are live
  stmt,       \* the statement that holds the catalog, Null when none does
  ex,         \* the executor that gives its rows
  pc,         \* what it is about to do
  batch,      \* the rows of the batch still to be changed
  row,        \* the row being changed
  count,      \* rows changed so far
  out,        \* rows of a query so far
  answer,     \* the answer to the last statement
  executed,   \* statements so far
  job,        \* history: what Database has the statement do
  fetched     \* history: rows of the last batch

vars == <<heap, index, temp, stmt, ex, pc, batch, row, count, out, answer, executed,
          job, fetched>>

storage == <<heap, index, temp>>
progress == <<batch, row, count, out>>

Tables == DOMAIN Columns

NoRow == [rid |-> Null, old |-> Null, new |-> Null, new_rid |-> Null, todo |-> {}]

\* key_from_tuple.
KeyOf(tuple, key_attrs) == [i \in DOMAIN key_attrs |-> tuple[key_attrs[i]]]

HasNull(key) == \E i \in DOMAIN key : IsNull(key[i])

\* Catalog::create_index goes through the heap for the entries of a new index.
EntriesOf(h, key_attrs) ==
  {<<KeyOf(get_tuple(h, rid).tuple, key_attrs), rid>> : rid \in LiveRids(h)}

IndexesOf(table) == DOMAIN index[table]

\* The rows as Database knows them: the live ones in the order of the heap, and
\* the one that an update has marked and not yet written anew.
RowsOf(table) ==
  LET RowAt(page, idx) == [id |-> <<page, idx>>, slot |-> heap[table][page][idx]]
      all == FlattenSeq([page \in DOMAIN heap[table] |->
                           [idx \in DOMAIN heap[table][page] |-> RowAt(page, idx)]])
      InHand(id) == pc = "insert new" /\ stmt.table = table /\ id = row.rid
      kept == SelectSeq(all, LAMBDA r : ~r.slot.deleted \/ InHand(r.id))
  IN [i \in DOMAIN kept |-> [id |-> kept[i].id, tuple |-> kept[i].slot.tuple]]

Db == INSTANCE Database WITH
  Ids <- (1 .. MaxPages) \X (1 .. PageCapacity),
  rows <- [table \in Tables |-> RowsOf(table)]

(***************************************************************************)
(* The statements before this one                                          *)
(***************************************************************************)
Init ==
  \E tables \in InitialTables :
    /\ heap = [table \in Tables |-> tables[table].heap]
    /\ index = [table \in Tables |->
                  [key_attrs \in tables[table].indexes |->
                     EntriesOf(tables[table].heap, key_attrs)]]
    /\ temp = {}
    /\ stmt = Null /\ ex = Null /\ pc = "idle"
    /\ batch = <<>> /\ row = NoRow /\ count = 0 /\ out = <<>>
    /\ answer = Null /\ executed = 0
    /\ job = Db!NoJob /\ fetched = 0

(***************************************************************************)
(* One statement                                                           *)
(***************************************************************************)
\* Database::execute_sql: the statement has the catalog to itself.
Execute(s) ==
  /\ pc = "idle"
  /\ executed < MaxStatements
  /\ executed' = executed + 1
  /\ stmt' = s
  /\ pc' = IF s.kind = "create index" THEN "create index" ELSE "plan"
  /\ answer' = Null
  /\ job' = Db!JobOf(s)
  /\ fetched' = 0
  /\ UNCHANGED <<storage, ex, progress>>

Env == [heap |-> heap, index |-> index, temp |-> temp, status |-> "ok"]

IsQuery == stmt.kind = "select"

Source == IF IsQuery THEN ex ELSE ex.child

WithSource(source) == IF IsQuery THEN source ELSE [ex EXCEPT !.child = source]

\* The statement ends and its executor is dropped; the next one may run.
End(result) ==
  /\ answer' = result
  /\ pc' = "idle"
  /\ stmt' = Null /\ ex' = Null
  /\ batch' = <<>> /\ row' = NoRow /\ count' = 0 /\ out' = <<>>
  /\ job' = Db!NoJob /\ fetched' = 0
  /\ UNCHANGED executed

\* A panic leaves the mutex of the catalog poisoned.
Panic ==
  /\ pc' = "panicked"
  /\ UNCHANGED <<stmt, ex, progress, answer, executed, job, fetched>>

\* After a call r of an executor that ended in an error or a panic.
Break(r) ==
  /\ temp' = r.env.temp \ OwnedPages(r.ex)
  /\ IF r.env.status = "panic" THEN Panic ELSE End(Db!Failed)

Launch(root, r) ==
  IF r.env.status # "ok" THEN Break(r)
  ELSE /\ ex' = IF IsQuery THEN r.ex ELSE [root EXCEPT !.child = r.ex]
       /\ temp' = r.env.temp
       /\ pc' = "pull"
       /\ UNCHANGED <<stmt, progress, answer, executed, job, fetched>>

\* plan_statement, optimize, create_executor and init.
Start ==
  /\ pc = "plan"
  /\ UNCHANGED <<heap, index>>
  /\ \E plan \in {plan_statement(stmt)} :
       IF FaultsInPlan(plan) # <<>> THEN End(Db!Failed) /\ UNCHANGED temp
       ELSE \E root \in {optimize(plan, [table \in Tables |-> IndexesOf(table)])} :
              Launch(root, init(Env, create_executor(IF IsQuery THEN root ELSE root.child)))

(***************************************************************************)
(* A batch pulled from the executor                                        *)
(***************************************************************************)
PullFails(pulled) ==
  /\ pulled.env.status # "ok"
  /\ Break(pulled)

\* ExecutionEngine::execute collects the rows of a query.
PullRows(pulled) ==
  /\ IsQuery
  /\ pulled.env.status = "ok" /\ pulled.rows # <<>>
  /\ out' = out \o [i \in DOMAIN pulled.rows |-> pulled.rows[i].values]
  /\ ex' = pulled.ex
  /\ temp' = pulled.env.temp
  /\ UNCHANGED <<stmt, pc, batch, row, count, answer, executed, job, fetched>>

FetchBatch(pulled) ==
  /\ ~IsQuery
  /\ pulled.env.status = "ok" /\ pulled.rows # <<>>
  /\ batch' = pulled.rows
  /\ fetched' = Len(pulled.rows)
  /\ ex' = WithSource(pulled.ex)
  /\ temp' = pulled.env.temp
  /\ pc' = "row"
  /\ UNCHANGED <<stmt, row, count, out, answer, executed, job>>

\* An empty batch ends the statement; a change answers with its count.
Complete(pulled) ==
  /\ pulled.env.status = "ok" /\ pulled.rows = <<>>
  /\ temp' = pulled.env.temp \ OwnedPages(pulled.ex)
  /\ End(Db!Answered(IF IsQuery THEN out ELSE << <<"integer", count>> >>))

Pull ==
  /\ pc = "pull"
  /\ UNCHANGED <<heap, index>>
  /\ \E pulled \in {next(Env, Source, BatchSize)} :
       \/ PullFails(pulled) \/ PullRows(pulled) \/ FetchBatch(pulled) \/ Complete(pulled)

(***************************************************************************)
(* Changing rows                                                           *)
(***************************************************************************)
Table == stmt.table

\* The page latch is free of the statement's own scan.
CanWrite(page) == page \notin Guards(ex, Table)

InBounds == Len(heap[Table]) < MaxPages \/ Len(Last(heap[Table])) < PageCapacity

Working(new_row, next_pc) ==
  /\ row' = new_row
  /\ pc' = next_pc
  /\ UNCHANGED <<temp, stmt, ex, batch, count, out, answer, executed, fetched>>

Promised == job' = [job EXCEPT !.todo = SubSeq(@, 2, Len(@)), !.count = @ + 1]

NextRow ==
  /\ batch' = Tail(batch)
  /\ count' = count + 1
  /\ row' = NoRow
  /\ pc' = IF Tail(batch) = <<>> THEN "pull" ELSE "row"
  /\ UNCHANGED <<temp, stmt, ex, out, answer, executed, fetched>>

\* Unwinding drops the executor.
PanicInRow(new_row) ==
  /\ row' = new_row
  /\ pc' = "panicked"
  /\ temp' = temp \ OwnedPages(ex)
  /\ UNCHANGED <<stmt, ex, batch, count, out, answer, executed, job, fetched>>

FailInRow ==
  /\ temp' = temp \ OwnedPages(ex)
  /\ End(Db!Failed)

\* Variant that makes a NULL of any type of a column that is not named.
TupleToInsertUntyped ==
  LET Given(c) == {i \in DOMAIN ex.target_col_idxs : ex.target_col_idxs[i] = c}
  IN [c \in DOMAIN Columns[Table] |->
        IF Given(c) = {} THEN <<"integer", Null>>
        ELSE Head(batch).values[CHOOSE i \in Given(c) : TRUE]]

\* InsertExecutor: columns that are not named become NULL.
TupleToInsert ==
  LET Given(c) == {i \in DOMAIN ex.target_col_idxs : ex.target_col_idxs[i] = c}
  IN [c \in DOMAIN Columns[Table] |->
        IF Given(c) = {} THEN <<Columns[Table][c].type, Null>>
        ELSE Head(batch).values[CHOOSE i \in Given(c) : TRUE]]

InsertTuple ==
  /\ pc = "row" /\ stmt.kind = "insert"
  /\ UNCHANGED index
  /\ IF ~HaveTypes(TupleToInsert, Columns[Table])
     THEN PanicInRow(row) /\ UNCHANGED heap
     ELSE /\ CanWrite(PageOfInsert(heap[Table]))
          /\ InBounds
          /\ heap' = [heap EXCEPT ![Table] = insert_tuple(@, TupleToInsert)]
          /\ Promised
          /\ Working([NoRow EXCEPT !.rid = RidOfInsert(heap[Table]), !.new = TupleToInsert,
                                   !.todo = IndexesOf(Table)], "index")

\* The indexes come in the order of a hash map.  A NULL has no encoding.
IndexTuple ==
  /\ pc = "index"
  /\ UNCHANGED heap
  /\ \E key_attrs \in row.todo :
       LET key == KeyOf(row.new, key_attrs) IN
       IF HasNull(key) THEN PanicInRow(row) /\ UNCHANGED index
       ELSE /\ index' = [index EXCEPT ![Table][key_attrs] = @ \cup {<<key, row.rid>>}]
            /\ Working([row EXCEPT !.todo = @ \ {key_attrs}], "index")
            /\ UNCHANGED job

RowDone ==
  /\ pc \in {"index", "reindex"} /\ row.todo = {}
  /\ NextRow
  /\ UNCHANGED <<heap, index, job>>

\* UpdateExecutor: the new values are computed before anything is changed.
MarkOld ==
  LET rid == Head(batch).rid
      old == get_tuple(heap[Table], rid)
      new == EvaluateAll(ex.expressions, old.tuple)
  IN /\ pc = "row" /\ stmt.kind = "update"
     /\ UNCHANGED index
     /\ IF old.deleted THEN PanicInRow(row) /\ UNCHANGED heap
        ELSE IF Error \in ToSet(new) THEN FailInRow /\ UNCHANGED heap
        ELSE IF ~HaveTypes(new, Columns[Table]) THEN PanicInRow(row) /\ UNCHANGED heap
        ELSE /\ CanWrite(rid[1])
             /\ heap' = [heap EXCEPT ![Table] = update_meta(@, rid, TRUE)]
             /\ Working([NoRow EXCEPT !.rid = rid, !.old = old.tuple, !.new = new,
                                      !.todo = IndexesOf(Table)], "insert new")
             /\ UNCHANGED job

InsertNew ==
  /\ pc = "insert new"
  /\ CanWrite(PageOfInsert(heap[Table]))
  /\ InBounds
  /\ heap' = [heap EXCEPT ![Table] = insert_tuple(@, row.new)]
  /\ Promised
  /\ Working([row EXCEPT !.new_rid = RidOfInsert(heap[Table])], "reindex")
  /\ UNCHANGED index

\* The old entry goes before the new one is encoded.
ReIndex ==
  /\ pc = "reindex"
  /\ UNCHANGED heap
  /\ \E key_attrs \in row.todo :
       LET old == <<KeyOf(row.old, key_attrs), row.rid>>
           new == <<KeyOf(row.new, key_attrs), row.new_rid>>
       IN IF old \notin index[Table][key_attrs] THEN FailInRow /\ UNCHANGED index
          ELSE IF HasNull(new[1])
          THEN /\ index' = [index EXCEPT ![Table][key_attrs] = @ \ {old}]
               /\ PanicInRow(row)
          ELSE /\ index' = [index EXCEPT ![Table][key_attrs] = (@ \ {old}) \cup {new}]
               /\ Working([row EXCEPT !.todo = @ \ {key_attrs}], "reindex")
               /\ UNCHANGED job

\* DeleteExecutor: the indexes first, the heap last.
DeleteRow ==
  LET rid == Head(batch).rid
      old == get_tuple(heap[Table], rid)
  IN /\ pc = "row" /\ stmt.kind = "delete"
     /\ UNCHANGED <<heap, index>>
     /\ IF old.deleted THEN PanicInRow(row)
        ELSE /\ Working([NoRow EXCEPT !.rid = rid, !.old = old.tuple,
                                      !.todo = IndexesOf(Table)], "unindex")
             /\ UNCHANGED job

RemoveEntry ==
  /\ pc = "unindex"
  /\ UNCHANGED heap
  /\ \E key_attrs \in row.todo :
       LET old == <<KeyOf(row.old, key_attrs), row.rid>> IN
       IF old \notin index[Table][key_attrs] THEN FailInRow /\ UNCHANGED index
       ELSE /\ index' = [index EXCEPT ![Table][key_attrs] = @ \ {old}]
            /\ Working([row EXCEPT !.todo = @ \ {key_attrs}], "unindex")
            /\ UNCHANGED job

MarkDeleted ==
  /\ pc = "unindex" /\ row.todo = {}
  /\ CanWrite(row.rid[1])
  /\ heap' = [heap EXCEPT ![Table] = update_meta(@, row.rid, TRUE)]
  /\ Promised
  /\ NextRow
  /\ UNCHANGED index

(***************************************************************************)
(* Catalog::create_index.  An index is known by its columns here, so that  *)
(* a second one on the same columns is a duplicate.                        *)
(***************************************************************************)
CreateIndex ==
  LET entries == EntriesOf(heap[Table], stmt.key_attrs) IN
  /\ pc = "create index"
  /\ UNCHANGED <<heap, temp>>
  /\ IF stmt.key_attrs \in IndexesOf(Table) THEN End(Db!Failed) /\ UNCHANGED index
     ELSE IF \E e \in entries : HasNull(e[1]) THEN Panic /\ UNCHANGED index
     ELSE /\ index' = [index EXCEPT ![Table] = @ @@ (stmt.key_attrs :> entries)]
          /\ End(Db!Answered(<<>>))

Proceed ==
  \/ Start \/ Pull
  \/ InsertTuple \/ IndexTuple
  \/ MarkOld \/ InsertNew \/ ReIndex \/ RowDone
  \/ DeleteRow \/ RemoveEntry \/ MarkDeleted
  \/ CreateIndex

Next == (\E s \in StatementSet : Execute(s)) \/ Proceed

Spec == Init /\ [][Next]_vars

(***************************************************************************)
(* Properties                                                              *)
(***************************************************************************)
\* The rows that the statement has changed in the heap and not yet in every
\* index, or the other way round.
HalfChanged(table) ==
  IF row # NoRow /\ Table = table THEN {row.rid, row.new_rid} ELSE {}

\* Every index has exactly the live rows of its table under their keys, at
\* every moment and also after an error, except for the one row a statement
\* is changing: insert.rs, update.rs and delete.rs keep two structures in
\* step by hand, in different orders.
IndexFollowsHeap ==
  \A table \in Tables : \A key_attrs \in IndexesOf(table) :
    LET Settled(entries) == {e \in entries : e[2] \notin HalfChanged(table)} IN
    Settled(index[table][key_attrs]) = Settled(EntriesOf(heap[table], key_attrs))

\* The reasons for a panic are two: a NULL in the key of an index
\* (key_encoder.rs, unreachable) and types that the planner let pass
\* (Tuple::from_values, assert_eq).  No statement without either panics,
\* whatever came before it.
PanicsOnlyOnNullKeysOrMixedTypes ==
  pc = "panicked" =>
    \/ Db!MixesTypes(stmt)
    \/ /\ row # NoRow
       /\ \E key_attrs \in IndexesOf(Table) : HasNull(KeyOf(row.new, key_attrs))
    \/ /\ stmt.kind = "create index"
       /\ \E e \in EntriesOf(heap[Table], stmt.key_attrs) : HasNull(e[1])

\* Temporary pages that no executor will ever delete.
Leaked == temp \ (IF ex = Null THEN {} ELSE OwnedPages(Source))

\* The pages of a sort are deleted as its rows are taken or when it is dropped
\* (sort.rs, MergeSortRunIterator); they are lost only by a statement that
\* fails or panics.
OnlyErrorsLeakPages ==
  [][Leaked' \subseteq Leaked \/ answer' = Db!Failed \/ pc' = "panicked"]_vars

RECURSIVE Reads(_, _)
Reads(ref, table) ==
  IF ref.kind = "table" THEN ref.table = table
  ELSE Reads(ref.left, table) \/ Reads(ref.right, table)

InsertsFromItsTable ==
  /\ stmt # Null
  /\ stmt.kind = "insert" /\ stmt.source.kind = "select"
  /\ Reads(stmt.source.from, stmt.table)

\* An insert that reads its own table and goes back to it after it has
\* inserted rows, for the next batch or for the next outer row of a join: it
\* may read the rows it has inserted itself.
MayReadItself ==
  /\ InsertsFromItsTable
  /\ count + Len(batch) >= BatchSize \/ stmt.source.from.kind = "join"

\* Every answer, every change of a row and its order are those of Database,
\* with or without indexes, whatever the batches and the pages; only an insert
\* that reads what it writes is not promised anything.
ImplementsDatabase == [][Db!Next(StatementSet) \/ MayReadItself]_(Db!vars)

\* The statements whose own scan may still stand on a page when they change
\* it: a full batch of rows, or a scan that a LIMIT stops or a join starts
\* again.
MayBlockItself ==
  \/ /\ stmt # Null /\ stmt.kind \in {"update", "delete"}
     /\ fetched = BatchSize
  \/ /\ InsertsFromItsTable
     /\ fetched = BatchSize \/ stmt.source.limit # <<>> \/ stmt.source.from.kind = "join"

\* The change waits for a page latch that the scan of its own statement holds.
WaitsForItself ==
  \/ pc = "row" /\ stmt.kind = "insert" /\ ~CanWrite(PageOfInsert(heap[Table]))
  \/ pc = "row" /\ stmt.kind = "update" /\ ~CanWrite(Head(batch).rid[1])
  \/ pc = "insert new" /\ ~CanWrite(PageOfInsert(heap[Table]))
  \/ pc = "unindex" /\ row.todo = {} /\ ~CanWrite(row.rid[1])

\* No other statement ever waits for itself: the iterator lets go of its last
\* page when it comes to the end (table_heap.rs), before any row is changed.
OnlyOpenScansBlock == WaitsForItself => MayBlockItself

=============================================================================
