------------------------------ MODULE LeafPage ------------------------------
(***************************************************************************)
(* The operations of storage/page/b_tree_leaf_page.rs on one leaf page.    *)
(*                                                                         *)
(* A leaf is its entries, <<key, rid>> pairs in increasing order, the      *)
(* indexes of those that are only logically deleted, oldest first, and the *)
(* page id of the leaf to its right.  Indexes count from 1.  The operators *)
(* are named after the methods; an assertion of a method is an operator    *)
(* next to it, and the caller's to check.                                  *)
(***************************************************************************)
EXTENDS Integers, FiniteSets, SequencesExt

CONSTANT TombCap                \* TOMB_CAP

\* compare by key, then by rid
Less(a, b) == a[1] < b[1] \/ (a[1] = b[1] /\ a[2] < b[2])

EmptyLeaf(next) ==
  [kind |-> "leaf", entries |-> <<>>, tombstones |-> <<>>, next |-> next]

curr_size(leaf) == Len(leaf.entries)
live_size(leaf) == curr_size(leaf) - Len(leaf.tombstones)
are_tombstones_full(leaf) == Len(leaf.tombstones) = TombCap
is_idx_tombstoned(leaf, i) == \E j \in DOMAIN leaf.tombstones : leaf.tombstones[j] = i

LiveIndexes(leaf) == {i \in DOMAIN leaf.entries : ~is_idx_tombstoned(leaf, i)}
LiveEntriesOf(leaf) == {leaf.entries[i] : i \in LiveIndexes(leaf)}

\* The elements of s at the given indexes, in order.
ElementsAt(s, indexes) ==
  [n \in 1 .. Cardinality(indexes) |->
     s[CHOOSE i \in indexes : Cardinality({j \in indexes : j <= i}) = n]]

Pick(leaf, indexes) == ElementsAt(leaf.entries, indexes)

\* The binary search: the first index whose entry is not below what is searched.
\* Given are the indexes of the entries that are.
lower_bound_by(leaf, below) ==
  LET n == curr_size(leaf)
      search[range \in (0 .. n) \X (0 .. n)] ==
        LET mid == range[1] + (range[2] - range[1]) \div 2
        IN IF range[1] >= range[2] THEN range[1] + 1
           ELSE IF mid + 1 \in below THEN search[<<mid + 1, range[2]>>]
           ELSE search[<<range[1], mid>>]
  IN search[<<0, n>>]

find_pos(leaf, key) ==
  lower_bound_by(leaf, {i \in DOMAIN leaf.entries : leaf.entries[i][1] < key})

find_insert_pos(leaf, e) ==
  lower_bound_by(leaf, {i \in DOMAIN leaf.entries : Less(leaf.entries[i], e)})

\* find_insert_pos followed by cmp_key_rid_to_idx: the exact entry is there.
HasEntry(leaf, e) ==
  LET i == find_insert_pos(leaf, e) IN i <= curr_size(leaf) /\ leaf.entries[i] = e

\* What happens to the tombstones when an entry comes in at i, or goes.
Others(tombstones, i) ==
  ElementsAt(tombstones, {j \in DOMAIN tombstones : tombstones[j] # i})

ShiftUp(tombstones, i) ==
  [j \in DOMAIN tombstones |-> IF tombstones[j] >= i THEN tombstones[j] + 1
                                                    ELSE tombstones[j]]

ShiftDown(tombstones, i) ==
  LET others == Others(tombstones, i)
  IN [j \in DOMAIN others |-> IF others[j] > i THEN others[j] - 1 ELSE others[j]]

insert_at(leaf, i, e) ==
  [leaf EXCEPT !.entries = InsertAt(@, i, e), !.tombstones = ShiftUp(@, i)]

remove_at(leaf, i) ==
  [leaf EXCEPT !.entries = RemoveAt(@, i), !.tombstones = ShiftDown(@, i)]

add_tombstone(leaf, i) == [leaf EXCEPT !.tombstones = Append(@, i)]

remove_tombstone_at(leaf, i) ==
  [leaf EXCEPT !.tombstones = Others(@, i)]

evict_oldest_tombstone(leaf) == remove_at(leaf, Head(leaf.tombstones))

\* evict_oldest_tombstone has already removed the entry when its caller removes
\* the one at the same index, which is the next one by then.
PrunedTwice(leaf) == remove_at(evict_oldest_tombstone(leaf), Head(leaf.tombstones))

NewIndex(leaf, i) == IF i > Head(leaf.tombstones) THEN i - 1 ELSE i

EvictPanics(leaf, i) ==
  \/ Head(leaf.tombstones) > curr_size(evict_oldest_tombstone(leaf))
  \/ NewIndex(leaf, i) > curr_size(PrunedTwice(leaf))

evict_oldest_tombstone_and_append(leaf, i) ==
  add_tombstone(PrunedTwice(leaf), NewIndex(leaf, i))

remove_all_tombstones(leaf) ==
  [leaf EXCEPT !.entries = Pick(leaf, LiveIndexes(leaf)), !.tombstones = <<>>]

\* move_split_entries_to, from index start on: what stays and what is moved.
KeptBySplit(leaf, start) ==
  [leaf EXCEPT !.entries = SubSeq(@, 1, start - 1),
               !.tombstones = ElementsAt(@, {j \in DOMAIN @ : @[j] < start})]

\* Variant that leaves the first of them behind, where it is cut off.
MovedBySplitLess(leaf, start) ==
  Pick(leaf, {i \in LiveIndexes(leaf) : i > start})

MovedBySplit(leaf, start) ==
  Pick(leaf, {i \in LiveIndexes(leaf) : i >= start})

CoalescePanics(left, right, max_size) ==
  \/ curr_size(left) + curr_size(right) > max_size
  \/ Len(left.tombstones) + Len(right.tombstones) > TombCap

coalesce_right_into_page(left, right) ==
  [kind |-> "leaf",
   entries |-> left.entries \o right.entries,
   tombstones |-> left.tombstones \o [j \in DOMAIN right.tombstones |->
                                         right.tombstones[j] + curr_size(left)],
   next |-> left.next]
=============================================================================
