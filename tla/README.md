# A TLA+ model of oxtub

oxtub is a small relational database in Rust: a paged file behind a disk
scheduler, a buffer pool, a B+ tree and a table heap on top of it, and a SQL
engine that runs one statement at a time. This directory holds TLA+ modules of
its storage layers, of the way of a statement from its syntax tree to a plan, and
of the execution of statements, TLC configurations that check them on small
instances, and TLAPS proofs of what the lower layers guarantee for every size.

Paths below are relative to the repository; `bpm.rs:189` is a line of
`src/buffer/bpm.rs`, and so on. Definitions keep the names of the methods they
model. `PROJECT.json` maps each of them to its lines.

Run anything with, for example:

    tlc -workers 2 -config btree_threads.cfg MCBTree.tla
    tlc -workers 2 -config statements.cfg MCStatements.tla
    tlc -workers 2 -config frontend.cfg MCFrontEnd.tla
    tlapm BufferPoolProofs.tla

## 1. The system

| Component | State | Operations | Talks to |
|---|---|---|---|
| Replacement policy (`buffer/replacer`) | access history per frame, evictable flags, `curr_size`, a clock | `record_access`, `set_evictable`, `evict`, `remove`, `size` | called by the pool under its mutex |
| Buffer pool (`buffer/bpm.rs`, `frame.rs`) | `page_table`, frame metas (page, pin count, dirty), `free_list`, `next_page_id`, all under one mutex; the bytes of each frame under a latch of their own | `new_page`, `read_page`, `write_page`, `delete_page` | the policy; the disk scheduler, while it holds the mutex |
| Page guards (`buffer/page_guard.rs`) | a latch and a pin | `deref_mut`, `drop` | `drop` locks the pool's mutex again |
| Disk scheduler (`storage/disk/disk_scheduler.rs`) | a channel, a worker thread | `read_page`, `write_page` (wait for an answer), `delete_page` (does not), `drop` | the disk manager, from the worker only |
| Disk manager (`storage/disk/disk_manager.rs`) | page id -> slot, free slots, capacity, the file | `read_page`, `write_page`, `delete_page` | the file system |
| B+ tree (`storage/index/b_tree.rs`) | a header page and leaf and internal pages; per call the guards it holds | `insert`, `remove`, `get_values`, `lower_bound`/`iter` | latches pages through the pool |
| Leaf and internal pages (`storage/page`) | sorted entries, tombstones, next leaf; children and separators | search, insert, remove, split, merge | bytes of one page |
| Index iterator (`storage/index/index_iterator.rs`) | one read guard, a position | `next` | the pool |
| Table heap (`storage/table`) | first and last page id under a mutex; a chain of slotted pages | `insert_tuple`, `get_tuple`, `update_meta`, `iter` | the pool |
| Catalog (`catalog`) | tables, indexes, names | `create_tbl`, `create_index`, lookups | heap and indexes |
| Executors (`query/executor`) | batches, guards kept between batches, sorted runs | `init`, `next` | heap, indexes, pool |
| Parser, binder (`query/parser.rs`, `query/binder`) | none between statements | syntax tree to statement; names to columns of the catalog | catalog |
| Planner, optimizer (`query/planner`, `query/optimizer`) | none between statements | bound statement to plan; plan to better plan | catalog, for the indexes |
| Engine (`query/engine.rs`) | none between statements | `execute_sql`, EXPLAIN, CREATE TABLE, CREATE INDEX | all of `query`, catalog |
| Database (`database.rs`) | the catalog under one mutex | `execute_sql` | everything |

`Database::execute_sql` keeps the catalog's mutex for the whole statement
(`database.rs:11`), so statements never overlap. The layers below are written
for several threads all the same: the disk scheduler has a worker of its own,
and the tests of the pool and of the tree run threads against each other. The
models follow the layers, not the one mutex on top.

The database file is a temporary one and nothing is read back at start
(`repl.rs`), so there is no recovery to model. A panic ends each model: in the
tree nothing more is asked of it, and in `Statements` it leaves the catalog's
mutex poisoned, so that no statement can follow.

### What is hard

* **Pins, latches and the mutex.** A caller pins under the mutex, lets go of it
  and waits for the latch; a guard's drop locks the mutex, unpins and only then
  releases the latch. Eviction waits for a latch *with* the mutex held.
* **Failures between two steps.** A failed write-back must restore the victim; a
  failed read leaves a frame nowhere (a TODO says so); a failed transfer in the
  disk manager comes after a slot has been taken, a failed growth after the capacity
  was doubled.
* **Order on one channel.** A delete nobody waits for must not overtake a write,
  and a read must see all that was sent before it.
* **Giving up latches.** The tree's optimistic way down gives up all its latches
  and starts again; whatever it saw is stale by then. Lookups hold one latch
  while they wait for the next.
* **Rebalancing.** Three pages change together, recursively, with separators
  that have to agree with what has moved.
* **Statements that meet themselves.** A scan keeps a read guard on its page
  between batches, while the statement above it takes write guards on the same
  heap and appends to it: it may wait for its own scan, or read its own rows.
* **Several structures without undo.** Insert, update and delete change a heap
  and several indexes in three different orders; errors and panics come between.
* **Columns found by name, again and again.** The binder finds a column in the
  tables of FROM, the planner finds it again by the text `table.column` in the
  schema of whatever plan is below, and rewrites then move expressions between
  plans by number. A wrong column usually has the right type.
* **Definitions in two steps.** CREATE TABLE registers the table before the index
  of its primary key, which may be refused.
* **Batches.** Joins, filters, limits and sorts leave off wherever a batch is full
  and go on from buffered state; the optimizer exchanges whole plans.
* **Limits.** File growth, a full free list, full leaves, minimum occupancy with
  odd and even sizes, tombstone capacity.

Every such place is a `hazards` entry of `PROJECT.json` with its line, the
properties that cover it, or the reason why none does yet.

## 2. Modules

    Replacer <------ implements ------ LruKReplacer
       ^ INSTANCE
    BufferPool ------ implements -----> PageStore
       | INSTANCE
    DiskService <--- implements ------ DiskScheduler --EXTENDS--> DiskManager

    Index <--------- implements ------ BTree --EXTENDS--> LeafPage, InternalPage

    Database <------ implements ------ Statements --EXTENDS--> Executors
                                                                 | EXTENDS
                                       Expressions <-- Planner <-+-> TableHeap

    Meaning <----- agrees with, through PlanMeaning, ----- FrontEnd
                                                              | EXTENDS
              Binder --EXTENDS--> Parser     Planner     Catalog

Each layer is modelled against the *specification* of the layer below, and that
layer is shown to implement it: the pool uses `Replacer` and `DiskService`, and
`LruKReplacer` and `DiskScheduler` are proved to implement them for all sizes, as
the pool is proved to implement `PageStore`.

| Module | Models | Remarks |
|---|---|---|
| `Replacer` | trait `Replacer` | which frames are tracked and evictable; `evict` yields any evictable one |
| `LruKReplacer` | `lru_k_replacer.rs` | histories cut to k entries, and, as a history variable, the whole access log to say what LRU-K means |
| `DiskManager` | `disk_manager.rs` | slots, file growth, deletion, the errors of read and write. `DiskSpec` without, `FaultySpec` with all its errors |
| `DiskService` | what the pool uses of the scheduler | one queue, one content per page, answers in order |
| `DiskScheduler` | `disk_scheduler.rs` over `DiskManager` | sending, the worker, `Drop` |
| `PageStore` | what the pool promises | one content per page, readers together, a writer alone |
| `BufferPool` | `bpm.rs`, `page_guard.rs`, `frame.rs` | see below |
| `LeafPage`, `InternalPage` | `b_tree_leaf_page.rs`, `b_tree_internal_page.rs` | operators on one page, named after the methods |
| `Index` | what an index promises | a set of entries; each update at one instant; a lookup answers all that was there throughout and nothing that never was |
| `BTree` | `b_tree.rs`, `index_iterator.rs` | see below |
| `Database` | what the database promises of its statements | tables as sequences of rows, queries on whole relations by name; no plan, index, page or batch |
| `Expressions` | `executor/expression.rs`, `compare_keys` of `sort.rs` | three-valued logic, widening, overflow, the order of sort keys |
| `TableHeap` | `table_heap.rs`, `table_page.rs` | a chain of pages of slots, its iterator |
| `Parser` | `query/parser.rs` | from the syntax tree of the SQL library to a statement, or `Refused` |
| `Binder` | `query/binder` | names to columns, stars to columns, what may stand beside a group; what goes wrong is in the bound statement, in the order in which the code comes upon it |
| `Planner` | `planner/transformer.rs`, `planner/plan.rs`, `planner/expression.rs`, `optimizer/mod.rs` | from bound statements to the plan that is executed; with the same account of what goes wrong |
| `Catalog` | `catalog/manager.rs`, `storage/index/factory.rs`, `encoded_key_size` | tables, indexes by name, and the keys and key sizes an index can have |
| `Meaning` | what a statement means, said of its syntax tree | written from what SQL promises, not from the binder or the planner |
| `PlanMeaning` | what a plan does, in the same terms | |
| `FrontEnd` | `query/engine.rs`, `database.rs` | see below |
| `Executors` | the row-producing executors of `query/executor` | an executor is its plan with its state; `init` and `next` are operators on storage and executor |
| `Statements` | `database.rs`, `query/engine.rs`, `executor/engine.rs`, `insert.rs`, `update.rs`, `delete.rs`, `create_index` of `catalog/manager.rs` | see below |
| `LruKReplacerProofs`, `DiskSchedulerProofs`, `BufferPoolProofs`, `PageStoreProofs` | | the theorems of a module; those about what the pool promises are in `PageStoreProofs` |
| `TreeShape` | | what the searches of `LeafPage` and `InternalPage` find; what it is for pages to be a tree, and that each change of several pages leaves them one |
| `TreeSteps` | | that the operators `BTree` is built from make those changes |
| `BTreeProofs` | | the theorems of `BTree` about the tree |
| `IndexProofs` | | the theorems of `BTree` about what its callers see |
| `MC*` | | constants and symmetry for TLC |

A definition whose comment begins with "Variant" is a faulty form of the one
after it. No specification uses it; `PROJECT.json` lists which property fails
when it takes the other's place.

### Correspondence

**Granularity.** An action goes from one operation that may block (the mutex, a
latch, a channel) to the next. What a thread does with the mutex held and
without waiting is one action, for nobody can see it half done.

**BufferPool.** `call[t].pc` is where the thread is:

| pc | code | actions |
|---|---|---|
| `idle` | before `lock()` | `new_page`; `PinLoaded` (a hit), `TakeFreeFrame`, `TakeVictim`, `NoAvailableFrame`; `PagePinned`, `DeleteLoaded`, `DeleteUnloaded` |
| `latch` | waits for the latch of a pinned frame, without the mutex | `OpenGuard` |
| `free_latch`, `victim_latch` | waits for a frame's latch with the mutex | `LatchFreeFrame`, `LatchCleanVictim`, `LatchDirtyVictim` |
| `flush`, `load` | waits for the disk's answer with the mutex | `Flushed`, `FlushFailed`; `Loaded`, `LoadFailed` |
| `error` | the frame's latch is still held while the error is returned | `ReturnError` |
| `unlatch` | a guard's drop after it has unpinned | `Unlatch` (its first half is `Unpin`) |
| `delete` | page unloaded, mutex released, request not sent yet | `SendDelete` |

A page's bytes are one value. `stored` and `queue` are those of `DiskService`.
The callers are as disciplined as the repository's: they use ids that `new_page`
gave out, hold pages in increasing order of their id (or there would be
deadlocks of their own making), do not write to a page they have deleted, and do
not open a page twice. Reading a deleted page is allowed, because `delete_page`
permits the race.

**BTree.** `op[t]` is the `BTreeContext` of a call: `header` and `read` are the
read guards it holds, `writes` the write set from the highest page to the
lowest, `page` the guard popped from it. `Wants(t)` is the page the thread waits
to latch; `Granted` is when it gets it.

| Code | Actions |
|---|---|
| `insert`, `remove`: the optimistic way down | `LatchHeader`, `LatchRoot`, `Descend`, `InsertOptimistic`, `RemoveOptimistic` |
| `insert_pessimistic` | `LatchHeaderForWrite`, `InsertFirst`, `LatchRootForWrite`, `DescendForWrite`, `InsertAtLeaf`, `SplitRoot`, `InsertIntoParent`, `SplitParent` |
| `remove_pessimistic` and its helpers | the same way down, `RemoveAtLeaf`, `LeafLeft`, `LeafRight`, `MergeLeaf`, `Underflow`, `NodeLeft`, `NodeRight`, `MergeNode`, `ShrinkRoot` |
| `get_values`, `lower_bound`, the iterator | `LatchHeader`, `LatchRoot`, `PinRoot`, `Search`, `ReadLeaf`, `PinNext`, `LatchNext` |

Assumptions of the tree's model: the pool is large enough never to evict and its
disk never fails; so a deleted page, which was never written, reads as zeros. A
deleted id that no thread remembers may be given out again, which stands for a
fresh id and keeps the model finite (the code's ids only grow). A failed
assertion or an index out of bounds sets `panicked` and stops the program. Slots
of internal pages count from 0 as in the code, entries of a leaf from 1.

**Statements.** One statement at a time holds the catalog. `pc` is where it is:

| pc | code | actions |
|---|---|---|
| `idle` | no statement holds the catalog | `Execute` |
| `plan` | `plan_statement`, `optimize`, `create_executor`, `init` | `Start` |
| `pull` | `next` of the executor below, one batch | `Pull` (it fails, a query collects the rows, a change takes them as its batch, or the statement is complete) |
| `row` | the next row of the batch | `InsertTuple`, `MarkOld`, `DeleteRow` |
| `insert new` | an update has marked the old row | `InsertNew` |
| `index`, `reindex`, `unindex` | index by index, in any order (the indexes are in a hash map) | `IndexTuple`, `ReIndex`, `RemoveEntry`; `RowDone`, `MarkDeleted` |
| `create index` | `Catalog::create_index` | `CreateIndex` |
| `panicked` | the mutex is poisoned | none |

`ex` is the tree of executors, each a record of its plan node and its fields, so
that what an iterator, a buffer or a run holds between two batches is in the
state. A call of `next` is one step: it changes nothing but the executor and the
temporary pages, and nobody else runs. `Guards(ex, table)` are the pages the open
iterators have read guards on; a step that takes a write guard is enabled only
if its page is not among them (`CanWrite`). An index is the set of entries its
tree implements (`Index`), named by its columns; a heap is a sequence of pages
and a row identifier a pair of places. Statements are taken as bound; that the
bound statement and its plan are the right ones is what `FrontEnd` is about. Values are integers of three widths, booleans and NULL.
`job` and `fetched` are history variables, and `rows` of `Database` is mapped to
the live rows in heap order, together with the one an update has marked and not
yet written anew.

**FrontEnd.** `call` is the statement at work, `catalog` the tables with their
columns and indexes, `poisoned` whether a panic has poisoned the mutex.

| `call.at` | code | actions |
|---|---|---|
| `idle` | `Database::execute_sql` not called, or waiting for the mutex | `ExecuteSql`: `parse_sql` and `bind_statement`, or their error or panic |
| `bound` | the `match` in `execute_sql_with_batch_size` | `ExecutePlanned` (`plan_statement`, `optimize`, `create_executor`), `ExecuteExplain`, `ExecuteCreateTable`, `ExecuteCreateIndex` |
| `planned` | `ExecutionEngine::execute` | `Run` |
| `done` | the answer, or the panic, is on its way back | `Return` |

A text is what the SQL library hands over: a sequence of syntax trees, with a set
of `clauses` that name the parts of the grammar the parser looks for only to
refuse them. Names are strings, and `Lower` maps each to its lower case. A
literal is a value with its type; strings stand for themselves, with their length.
A row is left out, so that what a plan comes to when it runs is open: rows, an
error, or, for a change or a new index, the panic of a key that cannot be encoded.
`Statements` settles that.

`split_insert_after` treats three cases and never builds the over-full page; the
model builds it and cuts it, which is where each of the cases ends. The byte
layout of pages is left out.

## 3. Runs

| Run | Question | Bounds | States |
|---|---|---|---|
| `lru_k` | does the truncated history choose LRU-K's victim, and does `size()` count? | 3 frames, k = 2 (`bpm.rs` uses 2), 7 accesses | 17 k |
| `disk` | is the scheduler over the real file one content per page, in order, and does it answer and stop? | 2 clients, 3 pages, 2 values, initial capacity 1, queue of 2 | 866 k |
| `disk_io_fault` | *violation*: see section 4 | 3 pages | |
| `buffer_pool` | pins, eviction, failures, deletes, and `PageStore` | 2 threads, 2 frames, 3 pages, 2 guards a thread, 1 delete | 1.27 M |
| `buffer_pool_live` | does everything return? | 2 threads, 1 frame, 2 pages | 18 k |
| `btree_nodes` | every sequence of calls of one thread: order, balance, which assertion fails, `Index` | `LeafMax` 4, `InternalMax` 3, 10 entries of which 4 are inserted and removed; from the empty tree and two loaded ones | 507 k |
| `btree_threads` | two threads: updates beside updates, lookups and scans beside inserts | 2 threads, `LeafMax` 3, `InternalMax` 3, 4 entries | 366 k |
| `statements` | do planner, optimizer, executors, heap and indexes do what a database does, and what happens on the way to an error? | 33 statements, two in a row; 4 states of two tables; batches of 3, sort batches, table pages and temporary pages of 2 | 6 k |
| `frontend` | is the plan of a statement what the statement means, is the rest refused, and does the catalog stay sound? | 159 statements, in any order; 3 initial catalogs; at most 3 tables with 2 indexes each | 9 k |
| `btree_full_leaf`, `btree_lookup_deadlock`, `btree_tombstones` | *violations*: see section 4 | | |

Why the bounds are enough.

* *lru_k*: seven accesses give three frames full histories of two with one to
  spare, so that a history has been cut and compared with cut and uncut ones.
* *disk*: with an initial capacity of 1 three pages make the file grow twice, and
  each growth may fail, so that a fresh slot can lie just past the end of the file;
  a delete and a new page make a slot change hands; two requests in the
  channel are the least that can be out of order. `MaxQueue` bounds the channel.
* *buffer_pool*: three pages in two frames evict; two guards a thread let a
  thread pin everything (`NoAvailableFrame`) and let reader and writer of one
  page drop in either order; `MaxPage`, `MaxGuards`, `MaxDeletes` bound
  `next_page_id`, the guards of a thread and the deletes. One frame is what
  makes every load of the live run evict. What is checked here and proved in
  section 5 does not depend on the bounds.
* *btree_nodes*: internal pages of three are the smallest that can borrow
  from either side, merge with either side, split in all three ways, and let the
  root grow and shrink. Two leaves redistribute only if they do not fit into one
  page: with `LeafMax` up to 3 they always fit. With 4 it takes a long sequence of
  calls to a tree of three levels, so that the run also begins with the two trees
  that inserting ten entries in increasing and in decreasing order makes. `Updated`
  are the entries that are inserted and removed: some in the first, the middle and
  the last two leaves, so that every leaf has a sibling that changes and one that
  does not. What happens after the assertion of section 4 has failed is not asked.
* *btree_threads*: leaves of three have a state in which the
  optimistic way succeeds, one in which it gives up, and a minimum of one; four
  entries make a root with two and three leaves and the merges back. Two threads
  are what every property here is about. `MayOverlap` names the pairs of kinds of
  calls that may be in progress together: every pair but a remove with a
  lookup, which section 4 shows to go wrong, and two lookups, which share every
  latch.
* *statements*: tables of at most three pages to begin with, so that with batches
  of three and pages of two a batch ends inside a page, at its end and beyond it,
  a join leaves off in the middle of an outer row, and a sort has one run, two and
  an odd one. The four states hold NULLs, duplicates, rows without partner,
  deleted rows, a page without live rows, an empty table, the largest integer,
  and indexes of one and two columns; the statements go through every executor,
  every rewrite that fires and every error of an expression. The second statement runs on
  what the first one left, failed ones included. `MaxPages` stops only the inserts
  that read their own rows for ever. The code's batches are 128 rows.
* *frontend*: the statements are written so that each rule of the parser, the
  binder and the planner is met, kept and broken, most of them in more than one
  place: names with and without their table, in another case, of an alias, in
  self-joins and joins of three tables, ambiguous, missing and out of the scope of
  their join; groups by columns, expressions and nothing, with several aggregates
  in one expression and several expressions; every join and clause that is refused.
  Two of the catalogs share column names between tables and have the indexes that
  decide about the rewrites, and one is empty. Statements run in any order, and
  definitions change what the next one means. `MaxTables` and `MaxIndexes` hold back
  a definition when there is no room for what it might add.
* *Tree, `Page`*: the page ids. The bound is never reached: a thread that could
  not get a page would be stuck for ever, and these runs check for deadlock. Only
  `lru_k`, whose clock is bounded, `disk`, which ends with its shutdown, and
  `statements`, where statements do block themselves, do not.

### What the properties say

* *LRU-K.* `VictimHasLargestKDistance`: the victim is the one the policy names on
  the whole log of accesses. `CurrSizeCountsEvictable`. That it is unique, and so
  does not depend on the order in which a hash map yields the candidates
  (`VictimIsUnique`), is proved.
  `ImplementsReplacer`.
* *Disk.* `SlotsPartitioned`: every slot ever given out is in use or free and none is
  both; `DistinctSlots`, that no two pages share one, is proved. `SlotsInFile`: all of
  them are inside the file, and `set_len` never cuts one off, also when a growth has
  failed and `page_capacity` says more than there is. (The *next* slot need not be, see
  section 4.) `ReadsSeeEarlierWrites`:
  what a read will find is fixed when it is sent. `JoinedMeansDrained`,
  `EveryRequestAnswered`, `DropTerminates`, `ImplementsDiskService`.
* *Pool.* `PageTableMatchesMetas`, `PinsCountGuards`, `EvictableIffUnpinned`,
  `GuardKeepsItsFrame`, `FramesAccountedFor` (a frame is lost only by a failed
  read), `MutexHolderWaitsOnlyForDrops` (why waiting for a latch with the mutex is
  no deadlock), `MutexReleased`, `CallsReturn`, `DeleteReachesDisk`,
  `ImplementsPageStore` (no content is ever lost or seen by the wrong guard).
* *Tree.* `SortedWhenQuiet`, `BalancedWhenQuiet`, `NoPageLeaked`: shape, whenever no
  call is changing it. `NeverPanics`, `PanicsOnlyOnFullLeaf`, `PanicsOnlyOnEmptiedTree`:
  assertions.
  `NoLatchCycle`: no threads wait for each other in a circle. `AnswersInOrder`.
  `EveryCallReturns`. `ImplementsIndex`: `insert` and `remove` are atomic and
  answer truthfully, and lookups miss nothing that was there all the time.
* *Statements.* `ImplementsDatabase`: every answer, every change of a row and the
  order of both are those of `Database`, with or without indexes, whatever the
  batches and pages, and errors come only where an expression cannot be evaluated
  or types are mixed. `IndexFollowsHeap`: at every moment, also after an error,
  every index has exactly the live rows of its table, but for the row in hand.
  `OnlyErrorsLeakPages`: a sort's temporary pages are deleted unless the statement
  fails. `OnlyOpenScansBlock` and `PanicsOnlyOnNullKeysOrMixedTypes` delimit what goes
  wrong (section 4): which statements may wait for themselves, and what makes
  one panic. Two statements are excepted by name: `MayReadItself`, an insert that
  goes back to its own table after it has inserted rows, is promised nothing
  by `Database`; `MayBlockItself` are the statements of a full batch, and the inserts
  from their own table below a LIMIT or in a join.

* *Front end.* `PlansMeanWhatWasWritten`: the plan that runs, or that EXPLAIN shows,
  does what its text says: every column is the one that is meant, every condition
  is checked on the rows it is about, aggregates are the ones of their place, the
  result has the names and the order that were asked for, and no rewrite changes
  any of this. `OnlyMeaningfulStatementsRun`: what runs has a meaning, what is
  refused has none, and the front end panics at known gaps only (section 4).
  `CatalogSound`: no table has two columns that cannot be told apart, every key is one
  that can be encoded. `DefinitionsTakeEffectOrFail`: a definition does what it says
  or changes nothing, but for the table whose primary key is refused.
  Left out of these by name: two tables of one FROM whose names differ in case
  only (`HasPlainNames`); such a name means the first of them.
  `Meaning` follows the code in what it passes over in silence: DISTINCT, HAVING, WITH,
  FETCH, ON CONFLICT, RETURNING of an INSERT, IF NOT EXISTS, ORDER BY and LIMIT of
  VALUES and the alias of an UPDATE or DELETE have no effect; names of tables, and of the
  columns of an INSERT, keep their quotes; of two assignments to a column the
  last counts.

### Fairness

* `DiskScheduler`: weak fairness of the worker and of the joining thread. Both
  are threads that only ever wait for what the other provides.
* `BufferPool`: weak fairness of the worker and of a thread's own steps; strong
  fairness of the steps that take a lock others use as well (`OpenGuard`, and
  `Unpin`, which needs the mutex): a lock that is free again and again is got in
  the end. Fairness of `Unpin` includes the assumption that callers drop
  their guards. No thread has to make a call. Writers that wait for a latch are
  left out of `CallsReturn`: readers that overlap for ever keep them out unless
  the lock prefers writers, which `std::sync::RwLock` leaves open.
* `BTree`: strong fairness of the steps of each thread within a call, latches
  included. `EveryCallReturns` is checked for two threads, where a latch the other
  holds is free again and again; readers of three or more threads that overlap for
  ever could keep a writer out, as in the pool.
* `Statements`, `FrontEnd`: none; their properties are about safety. That a statement ends
  would be false (section 4).

## 4. Findings

Four runs show the code contradicting what it says of itself.

* **`disk_io_fault`** `AllocatedSlotIsUnused`. `allocate_new_page` pops a deleted
  slot before the transfer and `pages.insert` comes after it. If the transfer
  fails, the slot is in neither, and `pages.len()`, from which the next fresh slot
  is numbered, is one short: that slot is one another page uses. The `disk` run
  and the proofs therefore leave out the errors of a page that has no slot yet
  while there are deleted slots (`HarmlessError`). They have all the others: the
  failed transfers of a page with a slot or with a fresh one, and a failed growth.
* **`btree_full_leaf`** `NeverPanics`. A merge may fill a leaf to `max_size`,
  because its entries only have to fit. The next insert into it reaches
  `insert_at`, which asserts that there is room, before the split. One thread is
  enough. It needs leaves of at least four entries; production uses as many as
  fit into a page, the concurrent tests use two and three.
* **`btree_lookup_deadlock`** `NoLatchCycle`. `get_values` holds a leaf and waits
  for the one to its right; `remove_pessimistic` holds a leaf and waits for its
  left sibling. The statement mutex hides this from SQL; the tree's own test of
  concurrent deletes and lookups does not.
* **`btree_tombstones`** `ImplementsIndex`. `evict_oldest_tombstone_and_append`
  removes the entry at the oldest tombstone twice, the second time a live one.
  Production has no tombstones (`TOMB_CAP` 0, `b_tree_index.rs:20`).

Further behaviour met on the way, which limits what the passing runs can ask:

* `allocate_new_page` doubles `page_capacity` before `set_len`
  (`disk_manager.rs:92`). If that fails, the capacity is not reached again for as many
  pages, the file is not grown, and pages without a slot are given one past its end,
  although the comment promises an offset within the file: reading such a page fails
  with the file system working again, until writes have extended the file. No
  page that has a slot is harmed: the `disk` run and the proofs include this failure
  (`WorkerGrowthError`).
* A `remove` beside a scan or get can answer `PagePinned` although the entry is
  gone, because the merged page is deleted before the parents are repaired
  (`b_tree.rs:701`); the repair is skipped. A lookup that read the root's id
  before the root was deleted meets a page of zeros. So
  `MayOverlap` keeps lookups and removes apart.
* Two removes can both see the last entry; the one that comes back for write
  latches finds no root and fails `assert_ne!` (`b_tree.rs:606`).
  `PanicsOnlyOnEmptiedTree` says that this is the only assertion to fail.
* `InternalMax` 2 is accepted by the constructor and lets removes fail an
  assertion.
* With a tombstone capacity of two or more a split may leave a leaf without
  entries (`b_tree_leaf_page.rs:500`).
* An UPDATE or DELETE that affects as many rows as fit in a batch (128) waits for
  its own scan if the scan stands on the page to be changed, with the
  catalog's mutex held, so that the database stops. So does an INSERT ... SELECT
  from its own table; with a LIMIT, or from a join, a few rows are enough.
* An INSERT ... SELECT that goes back to its own table after it has inserted
  reads the rows it has inserted, and may go on until the disk is full.
* A NULL in an indexed column reaches `unreachable!()` in the key encoder
  (`key_encoder.rs:47`) when the row is already in the heap, or an update has
  removed the old entry, and poisons the catalog. So does CREATE INDEX on a
  column with NULLs.
* `from_values` (`tuple.rs:128`) asserts types the planner has let pass: an
  expression of integer and bigint assigned to an integer column, a later row of
  VALUES of other types than the first (there is an ignored test of it), an
  index join of an integer with a bigint column.
* An error inside the initialisation of a sort leaves its temporary pages behind.
* `KeyNotFound` and the assertions on deleted tuples in `update.rs` and `delete.rs`
  are in the model and never reached.
* ORDER BY in a grouped query is not validated: a column that is not grouped by
  reaches the planner, whose `panic!` says that the binder would have caught it
  (`planner/transformer.rs:723`), and poisons the catalog. So does a column that is
  only part of an expression grouped by. An aggregate outside the projection, and a
  column with a schema, reach a `todo!()` (`planner/transformer.rs:583`,
  `binder/transformer.rs:570`), and so does every aggregate when it is to be executed
  (`executor/engine.rs:165`). `OnlyMeaningfulStatementsRun` says that the front end
  panics nowhere else (`IsUnfinished`, `HasNoExecutor`).
* CREATE TABLE with a primary key that cannot be indexed (a varchar, three columns)
  answers with an error and leaves the table without a key.
* A reused slot still has the bytes of the deleted page, although the comment at
  `disk_manager.rs:40` promises zeros.

## 5. Proofs

| Module | Inductive invariant | Theorems |
|---|---|---|
| `LruKReplacerProofs` | types, `CurrSizeCountsEvictable`, and: each history is the end of that frame's log (`HistoryEndsLog`), all times are past and distinct | `TypeCorrect`, `SizeCorrect`, `PolicyCorrect`, `VictimDetermined`, `Refinement` |
| `DiskSchedulerProofs` | types, `SlotsInv` (used and free slots are disjoint, together the first slots of the file; the file and the capacity have room for them, and `set_len` does not truncate), `Shutdown` (an exited worker left an empty, closed channel) | `TypeCorrect`, `SlotsDistinct`, `SlotsCorrect`, `FileHoldsSlots`, `Drained`, `ReadsCorrect`, `Refinement` |
| `BufferPoolProofs` | thirteen conjuncts, see below | `TypeCorrect`, `PageTableCorrect`, `PinsCorrect`, `GuardsCorrect`, `EvictionCorrect`, `NoDeadlockOnMutex`, `NoFrameLost` |
| `PageStoreProofs` | the pool's, and where the content of each page is, see below | `StoreInvariance`, `Refinement` |
| `TreeShape` | none, they are about operators | `LowerBoundFound`, `LastChildFound` |
| `TreeSteps` | none | `LeafGains`, `LeafLoses`, `LeafHalved`, `ParentGains`, `ParentHalved`, `LeavesJoined`, `NodesJoined` |
| `BTreeProofs` | `TreeInv`, see below | `TreeInvariance`, `TreeFromEmpty`, `NoLatchCycleEver`, `NoPageLeakedEver` |
| `IndexProofs` | `IndexInv`: `TreeInv`, and what each call knows | `IndexRefinement`, `AnswersInOrderEver` |

The theorems hold for any sets of frames, threads, clients, pages and values,
any k >= 1 and any initial capacity >= 1. The assumptions on constants are the
named `ASSUME`s of the modules: that null values are no values, that the bounds
are natural numbers, that `Frame` of the policy is finite. The theorems about the tree
hold for any number of threads and pages, any `LeafMax` and `InternalMax` >= 2 and any
entries, under the hypotheses named below.

*LRU-K.* The policy is defined on the whole log and the code has the last k
times. `HistorySuffices`: the k-th last access is the first of a full history,
and a short history is the whole log. Times are distinct, so that the victim is
unique.

*Disk.* `pages.len()` numbers a fresh slot correctly only if no slot was ever
lost, which is what `SlotsPartitioned` says and what `disk_io_fault` breaks.
`FileHoldsSlots` does not need the file to be as long as the capacity, which a failed
`set_len` makes false: a fresh slot is at most just past the end, a read that meets the
end enters no page, and a write extends the file by the page.
`Refinement` maps the content of a page to what its slot holds: it is kept by
growth of the file and by what happens to other pages because slots are
distinct. `ReadsCorrect` needs in its invariant that the content a read was promised
when it was sent is the one its page has after what stands before it in the channel.

*Pool.* `PinsCountGuards` is not inductive: a page in the hands of a thread that
is loading must have no guards (`FrameInHand`), a free frame no page and no pins
(`FreeFrames`), the replacer must agree with the pins (`Tracking`), a guard that
waits must belong to a call in `latch` and the other way round (`WaitingGuards`,
`WaitingCalls`), a thread has at most one guard on a page (`OneGuardPerPage`), and
the holders of a latch are its open guards, the loading thread or a thread about
to unlatch (`LatchOwners`). With these, `MutexHolderWaitsOnlyForDrops` follows:
a victim had no pins, so whoever still holds its latch has unpinned already.

*Pool as a store.* `PageStore` has one content per page; the pool may have it in a
frame, in a request under way, or on disk. The invariant of `StoreInvariance` says
which: a loaded page that is not dirty is saved as it is in its frame, counting the
writes that are still in the channel (`CleanSaved`); a write in the channel carries
the content of its page and a delete comes after the page was given up
(`RequestsOK`); the answer a loading thread waits for is the content of the page it
asked for (`RepliesOK`); readers and writers of the store are the open guards of the
pool (`LatchesHeld`). Every action of the pool is then an action of the store or changes
nothing the store can see; eviction, flushes, loads and their failures are of the
second kind.

*Searches.* `binary_search` and `lower_bound` of the pages are recursive functions
on an interval. That such a function exists at all is proved on the finite set of
intervals, and what it finds by counting its steps, so that no induction theorem is
needed: on a sorted page `LowerBoundFound` gives the first entry not below the
one sought, and `LastChildFound` the last child whose separator is not above it.

*Tree.* The hypotheses of the theorems are these.

* `EntriesBounded`: entries are pairs of naturals below a bound, which gives them a
  rank. Keys and row ids of the code have a fixed width.
* `NoTombstones`: `TombCap` is 0, as in production. Section 4 shows what goes wrong
  otherwise.
* `LookupsApart`: no lookup beside a remove. `btree_lookup_deadlock` is what
  happens without it.
* `TreesSound`: the trees to begin with are trees. `TreeFromEmpty` does without it
  when the index begins empty.

`Tree` (`TreeShape`) says that there are levels `lv` and ranges `lo`, `hi` such that
every page is filed between its two bounds, the ranges of one level are disjoint,
each internal page's children share out its range in a row, all of them one level
down, and leaves are linked in the order of their ranges. A page that has just
been split is followed by its other half, of which no parent knows yet (`pend`).
`TreeInv` adds where each call is (`Stage`): what pages it has latched, that
they are a path, at which level they are, that the entry it carries is in their range;
that what one thread has latched for writing nobody else has latched (`Apart`), and that
a half without a parent is known to the one thread that is about to enter it
(`HalvesHeld`). A page somebody has not latched may change at any time, so nothing is
said of it but that it is there. `TreeSteps` shows of each operation of `BTree`
what it makes of the pages it has latched, in terms of the changes of `TreeShape`: an
entry or a child gained or lost, a page halved, two joined, one of two refilled from
the other. `BTreeProofs` has one lemma per action.

`NoLatchCycleEver`: a thread waits for a page one level below one it has latched, for
a sibling under a parent it has latched for writing, or, with only read latches, for the
leaf to the right. So whoever waits for a page on a level is behind one who is
lower, or on the same level further right, and never in a circle. A lookup and a remove
together are the one exception, and they are the deadlock that was found.
`NoPageLeakedEver`: every page but the root has a parent or is such a half, and when
no call is in progress there are no halves.

*Tree as an index.* `IndexRefinement` maps the tree to the set of the entries in its
leaves and each call to the call of `Index`, and has one lemma for every action, which
says what step of `Index` it is. A call takes effect where it learns its answer:
`insert` and `remove` when they write the leaf, or find there that there is nothing
to do, and a lookup at its last leaf. Splits, redistributions, merges and changes of
the root leave the set as it is, and so are nothing to `Index`. That the leaf is the
right one follows from `TreeInv`: an entry is in the leaf whose range it falls
into or in none, and the leaf that a call has latched is the one.
A lookup takes its time while others insert, so `IndexInv` says what it has by then
(`Watching`): all that it asks for, below the lower bound of the page it has come
to, that was there throughout, and nothing else (`Gathered`). This is kept
because the lower bound of a page never changes while there are lookups
(`Steady`): a split gives away the upper part of a range, and only removes move the
border to the left neighbour or free a page. It also gives
`AnswersInOrderEver`: each leaf's entries are above all that was gathered before.

What stays with TLC. Liveness under fairness is out of the prover's reach, so
`MutexReleased`, `CallsReturn`, `DeleteReachesDisk`, `EveryRequestAnswered`,
`DropTerminates` and `EveryCallReturns` are checked only. `SortedWhenQuiet` and
`BalancedWhenQuiet` walk over the tree with recursive functions and would need
induction over its height; `TreeInv` is their counterpart, which
says of every page that it is sorted, in its range and on its level; that pages are
at least half full is checked only. Of the panics, `NeverPanics` is false, and the two properties that say
which assertions may fail are checked. `Statements` and `FrontEnd` are checked: the
modules of the query layer but `Catalog` follow trees of expressions, plans and
executors with recursive operators, so that they are for TLC only.

## 6. What is not modelled

See `components` in `PROJECT.json`. In short:

* the byte layout of pages and tuples, the SQL grammar, formatting and the REPL:
  bytes and text in, bytes and text out;
* aggregation: `create_executor` answers an aggregate plan with `todo!()`
  (`executor/engine.rs:165`), and the hash table of `executor/aggregation.rs` is called
  by its own test only, so that it is open what an executor would give it first.
  Binding and planning of aggregates is modelled;
* the values of decimals and varchars (their types are modelled in `FrontEnd`), and
  the encoding of keys as bytes, except that it refuses NULL;
* errors of the buffer pool inside the tree, the heap and the executors: each of
  these layers is modelled over a pool that has a frame and a disk that works.

## 7. Plan

Done, in this order: the replacement policy; the disk manager and scheduler; the
buffer pool; the B+ tree; the proofs of the first three; heap, planner,
executors and statements; the parser, the binder, aggregates in the planner, the
catalog and definitions, against the meaning of statements.

Next in the models, the most important first:

1. `TableHeap` over `PageStore`, as a state machine with the pool's errors: insertion
   under the heap's mutex with the latches it takes one after the other, what an
   error at `table_heap.rs:74` leaves behind, iterators beside inserts. Abstract
   specification: a sequence of rows to which inserts append.
2. Errors of the pool in the B+ tree: which calls leave the tree whole.
3. `KeyEncoder`: the order of encoded keys against the order of values.
4. `Aggregation`, when an executor uses it.
5. Runs that state rules the code breaks in `Statements` and `FrontEnd`: that a bound key
   has no NULL (`key_encoder.rs:47`), that a multi-row VALUES has one type, that
   the binder catches every column the planner cannot find.

Next in the proofs:

1. occupancy of the pages (`BalancedWhenQuiet`), and with it which assertions may
   fail;
2. of the heap, as lemmas: an insertion appends one row and moves none, and the
   iterator visits every slot once, in order.
