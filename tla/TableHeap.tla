----------------------------- MODULE TableHeap -----------------------------
(***************************************************************************)
(* A table's heap (storage/table/table_heap.rs, storage/page/              *)
(* table_page.rs): a chain of pages of tuple slots.  A tuple is appended   *)
(* to the last page, or to a new one behind it; it is deleted by marking   *)
(* its slot and keeps its slot for ever.  An iterator walks the chain with *)
(* a read guard on the page it stands on.                                  *)
(*                                                                         *)
(* A heap is the sequence of its pages, a page the sequence of its slots,  *)
(* and a row identifier the pair of the two places.  The bytes of a page   *)
(* are abstracted to the number of tuples that fit.                        *)
(***************************************************************************)
EXTENDS Naturals, Sequences, SequencesExt

CONSTANT PageCapacity   \* tuples that fit in a table page

ASSUME PageCapacityAssumption == PageCapacity \in Nat \ {0}

\* TableHeap::new: the first page, empty.
EmptyHeap == << <<>> >>

Rids(heap) == {rid \in (DOMAIN heap) \X (1 .. PageCapacity) : rid[2] <= Len(heap[rid[1]])}

get_tuple(heap, rid) == heap[rid[1]][rid[2]]

LiveRids(heap) == {rid \in Rids(heap) : ~get_tuple(heap, rid).deleted}

update_meta(heap, rid, deleted) == [heap EXCEPT ![rid[1]][rid[2]].deleted = deleted]

\* insert_tuple: the last page is write-latched first, full or not.
PageOfInsert(heap) == Len(heap)

insert_tuple(heap, tuple) ==
  LET slot == [deleted |-> FALSE, tuple |-> tuple] IN
  IF Len(Last(heap)) < PageCapacity
  THEN [heap EXCEPT ![Len(heap)] = Append(@, slot)]
  ELSE Append(heap, <<slot>>)

\* Variant that names the page before a new one.
RidOfInsertBefore(heap) ==
  IF Len(Last(heap)) < PageCapacity
  THEN <<Len(heap), Len(Last(heap)) + 1>>
  ELSE <<Len(heap), 1>>

RidOfInsert(heap) ==
  IF Len(Last(heap)) < PageCapacity
  THEN <<Len(heap), Len(Last(heap)) + 1>>
  ELSE <<Len(heap) + 1, 1>>

(***************************************************************************)
(* The iterator: the page it has a guard on, 0 once it has let go of the   *)
(* last one, and the slots of that page it has returned.                   *)
(***************************************************************************)
iter == [page |-> 1, idx |-> 0]

Exhausted == [page |-> 0, idx |-> 0]

\* In the order of the chain.
RidBefore(r, s) == r[1] < s[1] \/ (r[1] = s[1] /\ r[2] < s[2])

\* next: the position behind the next slot, deleted or not, skipping pages
\* without any.  At the end of the chain the guard of the last page is dropped.
iterator_next(heap, it) ==
  LET ahead == {rid \in Rids(heap) : it.page # 0 /\ RidBefore(<<it.page, it.idx>>, rid)} IN
  IF ahead = {} THEN Exhausted
  ELSE LET rid == CHOOSE r \in ahead : \A s \in ahead : s = r \/ RidBefore(r, s)
       IN [page |-> rid[1], idx |-> rid[2]]

=============================================================================
