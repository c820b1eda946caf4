------------------------------- MODULE BTree -------------------------------
(***************************************************************************)
(* The B+ tree of storage/index/b_tree.rs, used by several threads.        *)
(*                                                                         *)
(* A thread holds page guards, that is latches, while it walks the tree.   *)
(* An action is what it does from one latch it may have to wait for to the *)
(* next.  Latches of pages the thread has just allocated are not waited    *)
(* for.                                                                    *)
(*                                                                         *)
(* Below is the buffer pool: read_page and write_page latch a page,        *)
(* delete_page refuses one that another thread has pinned, new_page gives  *)
(* out an id that nobody has.  The pool is large enough never to evict a   *)
(* page and its disk does not fail; so a deleted page was never written,   *)
(* and reads as zeros.  A deleted id that no thread remembers is taken for *)
(* a new one.                                                              *)
(*                                                                         *)
(* A failed assertion stops the program: panicked.                         *)
(***************************************************************************)
EXTENDS LeafPage, InternalPage, Integers, FiniteSets, SequencesExt

CONSTANTS Thread,
          Entry,                \* the <<key, rid>> pairs that are indexed
          Updated,              \* those that are inserted and removed
          InitialTrees,         \* the trees there are to begin with
          MayOverlap,           \* the {kind, kind} of calls made at the same time
          LeafMax, InternalMax, \* leaf_max_size, internal_max_size
          Page                  \* page ids: a bound on the pages at a time

ASSUME SizeAssumption == LeafMax \in Nat /\ LeafMax >= 2 /\ InternalMax \in Nat
                         /\ InternalMax >= 2 /\ TombCap \in Nat
ASSUME PageAssumption == Page \subseteq Nat \ {0}
ASSUME EntryAssumption == Updated \subseteq Entry

VARIABLES root,                 \* root_page_id in the header page
          node,                 \* Page -> leaf or internal page, or Free
          op,                   \* Thread -> the call it is in
          panicked,
          seen                  \* history: the entries a lookup may, must answer

vars == <<root, node, op, panicked, seen>>

INVALID_PAGE_ID == 0
Free == [kind |-> "free"]
NoEntry == <<>>

\* BTreeContext and the local variables of the call.  read is the page of the
\* last guard in read_set; header is the mode in which the header is latched.
Idle ==
  [pc |-> "idle", kind |-> "none", entry |-> NoEntry,
   answer |-> <<"none", <<>>>>,   \* what the call will return, once that is known
   root |-> INVALID_PAGE_ID,    \* root_page_id
   header |-> "none",
   read |-> INVALID_PAGE_ID,
   writes |-> <<>>,             \* write_set
   page |-> INVALID_PAGE_ID,    \* a guard popped from write_set
   target |-> INVALID_PAGE_ID,  \* the page that is latched next
   split |-> <<>>,              \* separator and page still to be given a parent
   found |-> <<>>]              \* entries a lookup has collected

\* BPlusTree::new
EmptyTree == [root |-> INVALID_PAGE_ID, node |-> [p \in Page |-> Free]]

Init ==
  /\ \E tree \in InitialTrees : root = tree.root /\ node = tree.node
  /\ op = [t \in Thread |-> Idle]
  /\ panicked = FALSE
  /\ seen = [t \in Thread |-> [always |-> {}, ever |-> {}]]

-----------------------------------------------------------------------------
(* Sizes                                                                   *)

size(n) == IF n.kind = "leaf" THEN curr_size(n) ELSE num_children(n)

min_size(n) == IF n.kind = "leaf" THEN LeafMax \div 2 ELSE (InternalMax + 1) \div 2

\* Variant in which a page is not yet full when it is.
is_insert_safe_late(n) == IF n.kind = "leaf" THEN size(n) + 1 <= LeafMax
                                             ELSE size(n) < InternalMax

is_insert_safe(n) == IF n.kind = "leaf" THEN size(n) + 1 < LeafMax
                                        ELSE size(n) < InternalMax

is_delete_safe(n) == size(n) > min_size(n)

is_leaf_delete_safe(leaf, is_root) ==
  IF is_root THEN size(leaf) > 1 \/ TombCap > 0
             ELSE ~are_tombstones_full(leaf) \/ is_delete_safe(leaf)

-----------------------------------------------------------------------------
(* Latches                                                                 *)

Written(t) == ToSet(op[t].writes) \cup ({op[t].page} \ {INVALID_PAGE_ID})

Parent(t) == Last(op[t].writes)
IdxInParent(t) == value_idx(node[Parent(t)], op[t].page)
Sibling(t, d) == value_at(node[Parent(t)], IdxInParent(t) + d)

\* The page a thread waits to latch, and how.  Header is the header page.
Header == -1
Wants(t) ==
  LET o == op[t]
      insertChild(p) == value_at(node[p], find_child_idx_for_insert(node[p], o.entry))
      searchChild(p) == value_at(node[p], find_child_idx(node[p], o.entry[1]))
  IN CASE o.pc = "header"   -> [page |-> Header, mode |-> "read"]
       [] o.pc = "header_w" -> [page |-> Header, mode |-> "write"]
       [] o.pc = "root"     -> [page |-> o.root, mode |-> "read"]
       [] o.pc = "root_w"   -> [page |-> o.root, mode |-> "write"]
       [] o.pc = "descend"  -> [page |-> insertChild(o.read), mode |-> "read"]
       [] o.pc = "search" /\ node[o.read].kind = "internal" ->
            [page |-> searchChild(o.read), mode |-> "read"]
       [] o.pc = "leaf"     -> [page |-> o.target, mode |-> "write"]
       [] o.pc = "next"     -> [page |-> o.target, mode |-> "read"]
       [] o.pc = "descend_w" -> [page |-> insertChild(Last(o.writes)), mode |-> "write"]
       [] o.pc = "left"     -> [page |-> Sibling(t, -1), mode |-> "write"]
       [] o.pc = "right"    -> [page |-> Sibling(t, 1), mode |-> "write"]
       [] o.pc = "merge"    ->
            [page |-> Sibling(t, IF IdxInParent(t) > 0 THEN -1 ELSE 1), mode |-> "write"]
       [] o.pc = "shrink"   -> [page |-> value_at(node[o.page], 0), mode |-> "write"]
       [] OTHER             -> [page |-> INVALID_PAGE_ID, mode |-> "none"]

\* Does t's wish wait for thread u?
WaitsFor(t, u) ==
  LET w == Wants(t)
      writes == w.page \in Written(u) \/ (w.page = Header /\ op[u].header = "write")
      reads == w.page = op[u].read \/ (w.page = Header /\ op[u].header = "read")
  IN w.mode # "none" /\ (writes \/ (w.mode = "write" /\ reads))

Granted(t, pc) ==
  /\ op[t].pc = pc
  /\ \A u \in Thread \ {t} : ~WaitsFor(t, u)

\* Variant in which the guard of the deleted page is still held by its own thread.
PinnedByAny(t, p) ==
  \E u \in Thread : p \in Written(u) \cup {op[u].read, Wants(u).page}

\* delete_page fails if the page is latched by another thread or waited for.
PinnedByOther(t, p) ==
  \E u \in Thread \ {t} : p \in Written(u) \cup {op[u].read, Wants(u).page}

\* The id that new_page gives out: one that is nowhere remembered.
IsNew(p) ==
  /\ node[p] = Free
  /\ \A t \in Thread : p \notin {op[t].root, op[t].target}

NewPage(p) == IsNew(p) /\ \A q \in Page : IsNew(q) => p <= q

\* The thread goes on, or returns with all its guards dropped.
Goto(t, o) == op' = [op EXCEPT ![t] = o]

Finish(t, answer) == Goto(t, [Idle EXCEPT !.pc = "return", !.answer = answer])

Ok == <<"ok", <<>>>>
Error == <<"error", <<>>>>

Panic ==
  /\ panicked' = TRUE
  /\ UNCHANGED <<root, node, op>>

-----------------------------------------------------------------------------
(* The way down that insert and remove try first.                          *)

Call(t, kind, e) ==
  /\ op[t].pc = "idle"
  /\ \A u \in Thread : op[u].kind = "none" \/ {kind, op[u].kind} \in MayOverlap
  /\ Goto(t, [Idle EXCEPT !.pc = "header", !.kind = kind, !.entry = e])
  /\ UNCHANGED <<root, node, panicked>>

LatchHeader(t) ==
  LET o == op[t] IN
  /\ Granted(t, "header")
  /\ IF root = INVALID_PAGE_ID
     THEN CASE o.kind = "insert" -> Goto(t, [o EXCEPT !.pc = "header_w"])
            [] o.kind = "remove" -> Finish(t, <<"not_found", <<>>>>)
            [] OTHER             -> Finish(t, <<"values", <<>>>>)
     ELSE \* get_values keeps the root's id only, the others the latch as well
          Goto(t, [o EXCEPT !.pc = IF o.kind = "get" THEN "root_id" ELSE "root",
                            !.root = root,
                            !.header = IF o.kind = "get" THEN "none" ELSE "read"])
  /\ UNCHANGED <<root, node, panicked>>

\* A scan drops the header's guard once it has the root's.
LatchRoot(t) ==
  LET o == op[t] IN
  /\ Granted(t, "root")
  /\ IF o.kind \in {"insert", "remove"}
     THEN IF node[o.root].kind = "leaf"
          THEN Goto(t, [o EXCEPT !.pc = "leaf", !.target = o.root])
          ELSE Goto(t, [o EXCEPT !.pc = "descend", !.read = o.root])
     ELSE Goto(t, [o EXCEPT !.pc = "search", !.read = o.root, !.header = "none"])
  /\ UNCHANGED <<root, node, panicked>>

\* descend_read_path_for_insert and .._for_delete.  The read latch of a leaf is
\* given up for a write latch while its parent stays latched.
Descend(t) ==
  LET o == op[t]
      child == Wants(t).page
  IN
  /\ Granted(t, "descend")
  /\ IF node[child].kind = "leaf"
     THEN Goto(t, [o EXCEPT !.pc = "leaf", !.target = child])
     ELSE Goto(t, [o EXCEPT !.read = child, !.header = "none"])
  /\ UNCHANGED <<root, node, panicked>>

\* Variant in which the read latches are kept.
RetryLatched(t) == Goto(t, [op[t] EXCEPT !.pc = "header_w"])

\* Variant that tries again without write latches.
RetryOptimistic(t) ==
  Goto(t, [Idle EXCEPT !.pc = "header", !.kind = op[t].kind, !.entry = op[t].entry])

\* Start again with write latches.
Retry(t) ==
  Goto(t, [Idle EXCEPT !.pc = "header_w", !.kind = op[t].kind, !.entry = op[t].entry])

\* The exact entry is in the leaf: it is revived, or a duplicate.
InsertPresent(t, p) ==
  LET e == op[t].entry
      i == find_insert_pos(node[p], e)
  IN
  /\ HasEntry(node[p], e)
  /\ IF is_idx_tombstoned(node[p], i)
     THEN /\ node' = [node EXCEPT ![p] = remove_tombstone_at(@, i)]
          /\ Finish(t, Ok)
     ELSE /\ Finish(t, <<"duplicate", <<>>>>)
          /\ UNCHANGED node
  /\ UNCHANGED <<root, panicked>>

\* Variant in which the position depends on the key only.
WithEntryByKey(leaf, e) == insert_at(leaf, find_pos(leaf, e[1]), e)

WithEntry(leaf, e) == insert_at(leaf, find_insert_pos(leaf, e), e)

InsertOptimistic(t) ==
  LET o == op[t]
      leaf == node[o.target]
  IN
  /\ Granted(t, "leaf")
  /\ o.kind = "insert"
  /\ \/ InsertPresent(t, o.target)
     \/ /\ ~HasEntry(leaf, o.entry)
        /\ is_insert_safe(leaf)
        /\ node' = [node EXCEPT ![o.target] = WithEntry(@, o.entry)]
        /\ Finish(t, Ok)
        /\ UNCHANGED <<root, panicked>>
     \/ /\ ~HasEntry(leaf, o.entry)
        /\ ~is_insert_safe(leaf)
        /\ Retry(t)
        /\ UNCHANGED <<root, node, panicked>>

\* What remove looks for is not in the leaf, or is a tombstone there.
Absent(leaf, e) ==
  ~HasEntry(leaf, e) \/ is_idx_tombstoned(leaf, find_insert_pos(leaf, e))

RemovesPhysically(leaf) == are_tombstones_full(leaf)

delete_from_leaf(leaf, i) ==
  IF TombCap = 0 THEN remove_at(leaf, i)
  ELSE IF ~are_tombstones_full(leaf) THEN add_tombstone(leaf, i)
  ELSE evict_oldest_tombstone_and_append(leaf, i)

WithoutEntry(leaf, e) == delete_from_leaf(leaf, find_insert_pos(leaf, e))

DeletePanics(leaf, e) ==
  TombCap > 0 /\ are_tombstones_full(leaf) /\ EvictPanics(leaf, find_insert_pos(leaf, e))

RemoveOptimistic(t) ==
  LET o == op[t]
      leaf == node[o.target]
      safe == is_leaf_delete_safe(leaf, o.target = o.root)
  IN
  /\ Granted(t, "leaf")
  /\ o.kind = "remove"
  /\ \/ /\ Absent(leaf, o.entry)
        /\ Finish(t, <<"not_found", <<>>>>)
        /\ UNCHANGED <<root, node, panicked>>
     \/ /\ ~Absent(leaf, o.entry)
        /\ safe
        /\ IF DeletePanics(leaf, o.entry) THEN Panic
           ELSE /\ node' = [node EXCEPT ![o.target] = WithoutEntry(@, o.entry)]
                /\ Finish(t, Ok)
                /\ UNCHANGED <<root, panicked>>
     \/ /\ ~Absent(leaf, o.entry)
        /\ ~safe
        /\ Retry(t)
        /\ UNCHANGED <<root, node, panicked>>

-----------------------------------------------------------------------------
(* The way down with write latches.                                        *)

\* remove_pessimistic: assert_ne!(root_page_id, INVALID_PAGE_ID)
LatchHeaderForWrite(t) ==
  LET o == op[t] IN
  /\ Granted(t, "header_w")
  /\ root # INVALID_PAGE_ID \/ o.kind = "remove"
  /\ IF root = INVALID_PAGE_ID THEN Panic
     ELSE /\ Goto(t, [o EXCEPT !.pc = "root_w", !.root = root, !.header = "write"])
          /\ UNCHANGED <<root, node, panicked>>

\* Variant that does not look again whether there is a root.
InsertFirstUnchecked(t) ==
  /\ Granted(t, "header_w")
  /\ op[t].kind = "insert"
  /\ \E p \in Page :
       /\ NewPage(p)
       /\ root' = p
       /\ node' = [node EXCEPT ![p] =
                     insert_at(EmptyLeaf(INVALID_PAGE_ID), 1, op[t].entry)]
  /\ Finish(t, Ok)
  /\ UNCHANGED panicked

\* insert_pessimistic starts a tree.
InsertFirst(t) ==
  /\ Granted(t, "header_w")
  /\ root = INVALID_PAGE_ID
  /\ op[t].kind = "insert"
  /\ \E p \in Page :
       /\ NewPage(p)
       /\ root' = p
       /\ node' = [node EXCEPT ![p] =
                     insert_at(EmptyLeaf(INVALID_PAGE_ID), 1, op[t].entry)]
  /\ Finish(t, Ok)
  /\ UNCHANGED panicked

\* Where the way down goes on from p, the last page of the write set.
Below(p) == IF node[p].kind = "leaf" THEN "at_leaf" ELSE "descend_w"

LatchRootForWrite(t) ==
  LET o == op[t] IN
  /\ Granted(t, "root_w")
  /\ Goto(t, [o EXCEPT !.pc = Below(o.root), !.writes = <<o.root>>])
  /\ UNCHANGED <<root, node, panicked>>

\* Nothing above a page that neither splits nor underflows can change.
Safe(kind, n) == IF kind = "insert" THEN is_insert_safe(n) ELSE is_delete_safe(n)

DescendForWrite(t) ==
  LET o == op[t]
      child == Wants(t).page
  IN
  /\ Granted(t, "descend_w")
  /\ IF Safe(o.kind, node[child])
     THEN Goto(t, [o EXCEPT !.pc = Below(child), !.writes = <<child>>, !.header = "none"])
     ELSE Goto(t, [o EXCEPT !.pc = Below(child), !.writes = Append(@, child)])
  /\ UNCHANGED <<root, node, panicked>>

-----------------------------------------------------------------------------
(* insert_pessimistic at the leaf, and insert_into_parent.                 *)

\* A leaf that becomes full is split at once.
SplitAt == LeafMax \div 2 + 1

\* key_ref(0) and rid_ref(0); zeros if nothing was moved to the new leaf.
Separator(leaf) == IF leaf.entries = <<>> THEN <<0, 0>> ELSE Head(leaf.entries)

InsertAtLeaf(t) ==
  LET o == op[t]
      p == Last(o.writes)
      full == WithEntry(node[p], o.entry)
  IN
  /\ o.pc = "at_leaf"
  /\ o.kind = "insert"
  /\ \/ InsertPresent(t, p)
     \/ \* insert_at: assert!(size < max_size)
        /\ ~HasEntry(node[p], o.entry)
        /\ size(node[p]) >= LeafMax
        /\ Panic
     \/ /\ ~HasEntry(node[p], o.entry)
        /\ size(node[p]) + 1 < LeafMax
        /\ node' = [node EXCEPT ![p] = full]
        /\ Finish(t, Ok)
        /\ UNCHANGED <<root, panicked>>
     \/ /\ ~HasEntry(node[p], o.entry)
        /\ size(node[p]) + 1 = LeafMax
        /\ \E q \in Page :
             /\ NewPage(q)
             /\ node' = [node EXCEPT
                  ![p] = [KeptBySplit(full, SplitAt) EXCEPT !.next = q],
                  ![q] = [EmptyLeaf(full.next) EXCEPT !.entries = MovedBySplit(full, SplitAt)]]
             /\ Goto(t, [o EXCEPT !.pc = "split", !.answer = Ok,
                                  !.split = <<Separator(node'[q]), q>>])
        /\ UNCHANGED <<root, panicked>>

\* The loop of insert_into_parent: the guard of the page that was split goes,
\* its new sibling becomes a child of the page above it.
SplitRoot(t) ==
  LET o == op[t]
      left == Last(o.writes)
  IN
  /\ o.pc = "split"
  /\ Len(o.writes) = 1
  /\ IF left = o.root
     THEN /\ \E p \in Page :
               /\ NewPage(p)
               /\ node' = [node EXCEPT ![p] =
                             InternalNode(<<left, o.split[2]>>, <<o.split[1]>>)]
               /\ root' = p
          /\ Finish(t, o.answer)
          /\ UNCHANGED panicked
     ELSE Panic

InsertIntoParent(t) ==
  LET o == op[t]
      left == Last(o.writes)
      parent == Last(Front(o.writes))
  IN
  /\ o.pc = "split"
  /\ Len(o.writes) > 1
  /\ size(node[parent]) < InternalMax
  /\ node' = [node EXCEPT ![parent] = insert_after(@, left, o.split[1], o.split[2])]
  /\ Finish(t, o.answer)
  /\ UNCHANGED <<root, panicked>>

SplitParent(t) ==
  LET o == op[t]
      left == Last(o.writes)
      parent == Last(Front(o.writes))
      old == node[parent]
  IN
  /\ o.pc = "split"
  /\ Len(o.writes) > 1
  /\ size(old) >= InternalMax
  /\ \E p \in Page :
       /\ NewPage(p)
       /\ node' = [node EXCEPT
            ![parent] = LeftOfSplit(old, left, o.split[1], o.split[2]),
            ![p] = RightOfSplit(old, left, o.split[1], o.split[2])]
       /\ Goto(t, [o EXCEPT !.writes = Front(@),
                    !.split = <<PromotedBySplit(old, left, o.split[1], o.split[2]), p>>])
  /\ UNCHANGED <<root, panicked>>

-----------------------------------------------------------------------------
(* remove_pessimistic at the leaf.  A popped guard's page is at index       *)
(* IdxInParent of the page that is then the last of the write set.          *)

\* Which sibling is looked at first.
FirstSide(p, parent) == IF value_idx(node[parent], p) > 0 THEN "left" ELSE "right"

\* page p is deleted and n is what the other pages become, or the deletion
\* is refused and remove reports that.
Deleting(t, p, n, onward) ==
  IF PinnedByOther(t, p)
  THEN node' = n /\ Finish(t, Error)
  ELSE node' = [n EXCEPT ![p] = Free] /\ Goto(t, onward)

Returned(answer) == [Idle EXCEPT !.pc = "return", !.answer = answer]

RemoveAtLeaf(t) ==
  LET o == op[t]
      p == Last(o.writes)
      leaf == node[p]
      rest == Front(o.writes)
      done == is_delete_safe(leaf) \/ ~RemovesPhysically(leaf)
      after == [node EXCEPT ![p] = WithoutEntry(@, o.entry)]
  IN
  /\ o.pc = "at_leaf"
  /\ o.kind = "remove"
  /\ IF Absent(leaf, o.entry)
     THEN /\ Finish(t, <<"not_found", <<>>>>)
          /\ UNCHANGED <<root, node, panicked>>
     ELSE IF DeletePanics(leaf, o.entry) THEN Panic
     ELSE
     \/ \* No underflow, or of the root leaf, of which one entry is enough.
        /\ done \/ (rest = <<>> /\ size(after[p]) > 0)
        /\ node' = after
        /\ Finish(t, Ok)
        /\ UNCHANGED <<root, panicked>>
     \/ /\ ~done /\ rest = <<>> /\ size(after[p]) = 0
        /\ root' = INVALID_PAGE_ID
        /\ Deleting(t, p, after, Returned(Ok))
        /\ UNCHANGED panicked
     \/ \* The leaf underflows.
        /\ ~done /\ rest # <<>>
        /\ IF num_children(node[Last(rest)]) > 1
           THEN /\ node' = after
                /\ Goto(t, [o EXCEPT !.pc = FirstSide(p, Last(rest)),
                             !.answer = Ok, !.page = p, !.writes = rest])
                /\ UNCHANGED <<root, panicked>>
           ELSE Panic

\* choose_leaf_pair_action
Redistribute(left, right) == live_size(left) + live_size(right) > LeafMax

\* redistribute_leaf_pair: the pages keep their live entries, cut so that the
\* deficient page has exactly the minimum.
CutAt(left, right) ==
  IF live_size(left) < min_size(left) THEN min_size(left)
  ELSE live_size(left) + live_size(right) - min_size(right)

RedistributePanics(left, right) ==
  \/ live_size(left) >= min_size(left) /\ live_size(right) >= min_size(right)
  \/ live_size(left) + live_size(right) < min_size(left) + min_size(right)

Redistributed(parent, l, r, idx) ==
  LET left == node[l]
      right == node[r]
      all == remove_all_tombstones(left).entries \o remove_all_tombstones(right).entries
      cut == CutAt(left, right)
  IN [node EXCEPT
       ![l] = [@ EXCEPT !.entries = SubSeq(all, 1, cut), !.tombstones = <<>>],
       ![r] = [@ EXCEPT !.entries = SubSeq(all, cut + 1, Len(all)), !.tombstones = <<>>],
       ![parent].seps[idx] = all[cut + 1]]

\* With the sibling at distance d, latched for this step only: entries are
\* moved, or it is the next one's turn.
TryLeafSibling(t, d, otherwise) ==
  LET o == op[t]
      sibling == Sibling(t, d)
      l == IF d < 0 THEN sibling ELSE o.page
      r == IF d < 0 THEN o.page ELSE sibling
      idx == IdxInParent(t) + (IF d < 0 THEN 0 ELSE 1)
  IN
  \/ /\ ~Redistribute(node[l], node[r])
     /\ Goto(t, [o EXCEPT !.pc = otherwise])
     /\ UNCHANGED <<root, node, panicked>>
  \/ /\ Redistribute(node[l], node[r])
     /\ IF RedistributePanics(node[l], node[r]) THEN Panic
        ELSE /\ node' = Redistributed(Parent(t), l, r, idx)
             /\ Finish(t, o.answer)
             /\ UNCHANGED <<root, panicked>>

HasRight(t) == IdxInParent(t) + 1 < num_children(node[Parent(t)])
AfterLeft(t) == IF HasRight(t) THEN "right" ELSE "merge"

IsLeaf(p) == node[p].kind = "leaf"

LeafLeft(t) ==
  /\ Granted(t, "left") /\ IsLeaf(op[t].page)
  /\ TryLeafSibling(t, -1, AfterLeft(t))

LeafRight(t) ==
  /\ Granted(t, "right") /\ IsLeaf(op[t].page)
  /\ TryLeafSibling(t, 1, "merge")

\* merge_leaf_pair evicts the oldest tombstones, of the left page first, but
\* for as many as the merged page needs to have the minimum size.
Evicted(leaf, n) ==
  LET after[i \in 0 .. n] == IF i = 0 THEN leaf ELSE evict_oldest_tombstone(after[i - 1])
  IN after[n]

AtMost(a, b) == IF a < b THEN a ELSE b

Retained(left, right) ==
  LET lacking == min_size(left) - (live_size(left) + live_size(right))
  IN IF lacking > 0 THEN lacking ELSE 0

Surplus(left, right) ==
  LET n == Len(left.tombstones) + Len(right.tombstones) - Retained(left, right)
  IN IF n > 0 THEN n ELSE 0

LeftRest(left, right) ==
  Evicted(left, AtMost(Surplus(left, right), Len(left.tombstones)))

RightRest(left, right) ==
  Evicted(right, Surplus(left, right)
                 - AtMost(Surplus(left, right), Len(left.tombstones)))

MergePanics(left, right) ==
  \/ live_size(left) + live_size(right) > LeafMax
  \/ Len(left.tombstones) + Len(right.tombstones) < Retained(left, right)
  \/ CoalescePanics(LeftRest(left, right), RightRest(left, right), LeafMax)
  \/ size(LeftRest(left, right)) + size(RightRest(left, right)) < min_size(left)

\* Variant in which the left page keeps its link to the page that goes.
MergedLeafUnlinked(left, right) ==
  coalesce_right_into_page(LeftRest(left, right), RightRest(left, right))

MergedLeaf(left, right) ==
  [coalesce_right_into_page(LeftRest(left, right), RightRest(left, right))
     EXCEPT !.next = right.next]

\* The left sibling is preferred, and then the leaf itself is the page that goes.
MergeLeaf(t) ==
  LET o == op[t]
      idx == IdxInParent(t)
      l == IF idx > 0 THEN Sibling(t, -1) ELSE o.page
      r == IF idx > 0 THEN o.page ELSE Sibling(t, 1)
      right_idx == IF idx > 0 THEN idx ELSE 1
  IN
  /\ Granted(t, "merge") /\ IsLeaf(o.page)
  /\ IF MergePanics(node[l], node[r]) THEN Panic
     ELSE /\ Deleting(t, r,
               [node EXCEPT ![l] = MergedLeaf(@, node[r]),
                            ![Parent(t)] = remove_slot(@, right_idx)],
               [o EXCEPT !.pc = "underflow", !.page = INVALID_PAGE_ID])
          /\ UNCHANGED <<root, panicked>>

-----------------------------------------------------------------------------
(* propagate_parent_underflow                                              *)

Underflow(t) ==
  LET o == op[t]
      p == Last(o.writes)
      rest == Front(o.writes)
  IN
  /\ o.pc = "underflow"
  /\ \/ /\ p = o.root /\ size(node[p]) = 1
        /\ Goto(t, [o EXCEPT !.pc = "shrink", !.page = p, !.writes = rest])
        /\ UNCHANGED <<root, node, panicked>>
     \/ /\ IF p = o.root THEN size(node[p]) # 1 ELSE size(node[p]) >= min_size(node[p])
        /\ Finish(t, o.answer)
        /\ UNCHANGED <<root, node, panicked>>
     \/ /\ p # o.root /\ size(node[p]) < min_size(node[p])
        /\ IF rest # <<>> /\ num_children(node[Last(rest)]) > 1
           THEN /\ Goto(t, [o EXCEPT !.pc = FirstSide(p, Last(rest)),
                                     !.page = p, !.writes = rest])
                /\ UNCHANGED <<root, node, panicked>>
           ELSE Panic

\* try_redistribute_internal_pair
LeftBorrows(left, right) == size(left) < min_size(left) /\ size(right) > min_size(right)
RightBorrows(left, right) == size(right) < min_size(right) /\ size(left) > min_size(left)

BorrowFromRight(parent, l, r, idx) ==
  LET left == node[l]
      right == node[r]
  IN [node EXCEPT
       ![l] = InternalNode(Append(left.children, Head(right.children)),
                           Append(left.seps, node[parent].seps[idx])),
       ![r] = InternalNode(Tail(right.children), Tail(right.seps)),
       ![parent].seps[idx] = Head(right.seps)]

\* Variant that does not change the separator in the parent.
BorrowFromLeftStale(parent, l, r, idx) ==
  LET left == node[l]
      right == node[r]
  IN [node EXCEPT
       ![l] = InternalNode(Front(left.children), Front(left.seps)),
       ![r] = InternalNode(<<Last(left.children)>> \o right.children,
                           <<node[parent].seps[idx]>> \o right.seps)]

BorrowFromLeft(parent, l, r, idx) ==
  LET left == node[l]
      right == node[r]
  IN [node EXCEPT
       ![l] = InternalNode(Front(left.children), Front(left.seps)),
       ![r] = InternalNode(<<Last(left.children)>> \o right.children,
                           <<node[parent].seps[idx]>> \o right.seps),
       ![parent].seps[idx] = Last(left.seps)]

TryNodeSibling(t, d, otherwise) ==
  LET o == op[t]
      sibling == Sibling(t, d)
      l == IF d < 0 THEN sibling ELSE o.page
      r == IF d < 0 THEN o.page ELSE sibling
      idx == IdxInParent(t) + (IF d < 0 THEN 0 ELSE 1)
  IN
  /\ IF LeftBorrows(node[l], node[r])
     THEN /\ node' = BorrowFromRight(Parent(t), l, r, idx)
          /\ Finish(t, o.answer)
     ELSE IF RightBorrows(node[l], node[r])
     THEN /\ node' = BorrowFromLeft(Parent(t), l, r, idx)
          /\ Finish(t, o.answer)
     ELSE /\ Goto(t, [o EXCEPT !.pc = otherwise])
          /\ UNCHANGED node
  /\ UNCHANGED <<root, panicked>>

NodeLeft(t) ==
  /\ Granted(t, "left") /\ ~IsLeaf(op[t].page)
  /\ TryNodeSibling(t, -1, AfterLeft(t))

NodeRight(t) ==
  /\ Granted(t, "right") /\ ~IsLeaf(op[t].page)
  /\ TryNodeSibling(t, 1, "merge")

\* merge_internal_right_into_left: the separator comes down from the parent.
MergedNode(left, right, sep) ==
  InternalNode(left.children \o right.children, Append(left.seps, sep) \o right.seps)

MergeNode(t) ==
  LET o == op[t]
      idx == IdxInParent(t)
      l == IF idx > 0 THEN Sibling(t, -1) ELSE o.page
      r == IF idx > 0 THEN o.page ELSE Sibling(t, 1)
      right_idx == IF idx > 0 THEN idx ELSE 1
      sep == node[Parent(t)].seps[right_idx]
  IN
  /\ Granted(t, "merge") /\ ~IsLeaf(o.page)
  /\ IF size(node[l]) + size(node[r]) > InternalMax THEN Panic
     ELSE /\ Deleting(t, r,
               [node EXCEPT ![l] = MergedNode(@, node[r], sep),
                            ![Parent(t)] = remove_slot(@, right_idx)],
               [o EXCEPT !.pc = "underflow", !.page = INVALID_PAGE_ID])
          /\ UNCHANGED <<root, panicked>>

\* shrink_root_internal_page: the only child becomes the root, unless it is an
\* empty leaf, and the old root is deleted.
ShrinkRoot(t) ==
  LET o == op[t]
      child == Wants(t).page
      empty == IsLeaf(child) /\ size(node[child]) = 0
  IN
  /\ Granted(t, "shrink")
  /\ IF empty /\ PinnedByOther(t, child)
     THEN Finish(t, Error) /\ UNCHANGED <<root, node>>
     ELSE /\ root' = IF empty THEN INVALID_PAGE_ID ELSE child
          /\ Deleting(t, o.page, IF empty THEN [node EXCEPT ![child] = Free] ELSE node,
                      Returned(o.answer))
  /\ UNCHANGED panicked

-----------------------------------------------------------------------------
(* get_values, and lower_bound followed by the iterator to its end.        *)

\* get_values holds no latch between the header's and the root's: from here on
\* the root is pinned.
PinRoot(t) ==
  /\ op[t].pc = "root_id"
  /\ Goto(t, [op[t] EXCEPT !.pc = "root"])
  /\ UNCHANGED <<root, node, panicked>>

\* A page of zeros is no leaf, and as an internal page it has no children:
\* find_child_idx asserts that it has.
Search(t) ==
  LET o == op[t] IN
  /\ o.pc = "search" /\ ~IsLeaf(o.read)
  /\ IF node[o.read] = Free THEN Panic
     ELSE /\ Granted(t, "search")
          /\ Goto(t, [o EXCEPT !.read = Wants(t).page])
          /\ UNCHANGED <<root, node, panicked>>

\* Live entries of a leaf that the call asks for, in order.
Matching(o, leaf) ==
  Pick(leaf, {i \in LiveIndexes(leaf) :
    /\ o.pc = "search" => i >= find_pos(leaf, o.entry[1])
    /\ o.kind = "get" => leaf.entries[i][1] = o.entry[1]})

\* Variant that stops at the first key that is not below.
SeesGreaterOrEqual(o, leaf) ==
  o.kind = "get" /\ \E i \in DOMAIN leaf.entries : leaf.entries[i][1] >= o.entry[1]

\* get_values stops at the first greater key.
SeesGreater(o, leaf) ==
  o.kind = "get" /\ \E i \in DOMAIN leaf.entries : leaf.entries[i][1] > o.entry[1]

\* get_values keeps this leaf's guard while it waits for the next one; the
\* iterator drops it first.
ReadLeaf(t) ==
  LET o == op[t]
      leaf == node[o.read]
      all == o.found \o Matching(o, leaf)
  IN
  /\ o.pc = "walk" \/ (o.pc = "search" /\ leaf.kind = "leaf")
  /\ IF SeesGreater(o, leaf) \/ leaf.next = INVALID_PAGE_ID
     THEN Finish(t, <<"values", all>>)
     ELSE IF o.kind = "get"
     THEN Goto(t, [o EXCEPT !.pc = "next", !.target = leaf.next, !.found = all])
     ELSE Goto(t, [o EXCEPT !.pc = "next_id", !.target = leaf.next, !.found = all,
                            !.read = INVALID_PAGE_ID])
  /\ UNCHANGED <<root, node, panicked>>

PinNext(t) ==
  /\ op[t].pc = "next_id"
  /\ Goto(t, [op[t] EXCEPT !.pc = "next"])
  /\ UNCHANGED <<root, node, panicked>>

\* A page of zeros, taken for a leaf, is empty and the last: the iterator ends.
LatchNext(t) ==
  LET o == op[t] IN
  /\ Granted(t, "next")
  /\ IF node[o.target] = Free
     THEN Finish(t, <<"values", o.found>>)
     ELSE Goto(t, [o EXCEPT !.pc = "walk", !.read = o.target,
                            !.target = INVALID_PAGE_ID])
  /\ UNCHANGED <<root, node, panicked>>

Return(t) ==
  /\ op[t].pc = "return"
  /\ Goto(t, Idle)
  /\ UNCHANGED <<root, node, panicked>>

-----------------------------------------------------------------------------
(* The specification.                                                      *)

Updates == {"insert", "remove"}
Lookups == {"get", "scan"}

\* A lookup starts from a key: the least entry with it stands for it.
LeastEntries == {e \in Entry : \A f \in Entry : f[1] = e[1] => e[2] <= f[2]}

Contents == UNION {LiveEntriesOf(node[p]) : p \in {q \in Page : IsLeaf(q)}}

LooksUp(t) == op[t].kind \in Lookups

\* seen follows the contents of the tree while a lookup runs.
Observe ==
  seen' = [t \in Thread |->
    IF ~LooksUp(t)' THEN [always |-> {}, ever |-> {}]
    ELSE IF LooksUp(t)
    THEN [always |-> seen[t].always \cap Contents', ever |-> seen[t].ever \cup Contents']
    ELSE [always |-> Contents', ever |-> Contents']]

Advance(t) ==
  \/ LatchHeader(t) \/ LatchRoot(t) \/ Descend(t)
  \/ InsertOptimistic(t) \/ RemoveOptimistic(t)
  \/ LatchHeaderForWrite(t) \/ InsertFirst(t)
  \/ LatchRootForWrite(t) \/ DescendForWrite(t)
  \/ InsertAtLeaf(t) \/ SplitRoot(t) \/ InsertIntoParent(t) \/ SplitParent(t)
  \/ RemoveAtLeaf(t) \/ LeafLeft(t) \/ LeafRight(t) \/ MergeLeaf(t)
  \/ Underflow(t) \/ NodeLeft(t) \/ NodeRight(t) \/ MergeNode(t) \/ ShrinkRoot(t)
  \/ PinRoot(t) \/ Search(t) \/ ReadLeaf(t)
  \/ PinNext(t) \/ LatchNext(t)
  \/ Return(t)

Next ==
  \/ /\ ~panicked
     /\ \E t \in Thread :
          \/ \E kind \in Updates, e \in Updated : Call(t, kind, e)
          \/ \E kind \in Lookups, e \in LeastEntries : Call(t, kind, e)
          \/ Advance(t)
     /\ Observe
  \/ panicked /\ UNCHANGED vars          \* the program has stopped

Spec == Init /\ [][Next]_vars

\* A thread goes on with its call if it can again and again; the latches are
\* granted in some fair order.  Nobody has to call.  Observe only follows, and
\* every step of a call changes op or panics.
FairSpec ==
  Spec /\ \A t \in Thread : SF_<<op, panicked>>(~panicked /\ Advance(t))

-----------------------------------------------------------------------------
(***************************************************************************)
(* Properties                                                              *)
(***************************************************************************)

\* No call is changing the tree.
Quiet == \A t \in Thread : Written(t) = {}

\* The leaves under page p, from left to right, and the depths they are at.
Height == 0 .. Cardinality(Page)

LeavesUnder ==
  LET row[p \in Page, h \in Height] ==
        CASE IsLeaf(p) -> <<p>>
          [] node[p].kind = "internal" /\ h > 0 ->
               FlattenSeq([i \in DOMAIN node[p].children |-> row[node[p].children[i], h - 1]])
          [] OTHER -> <<>>
  IN [p \in Page |-> row[p, Cardinality(Page)]]

DepthsUnder ==
  LET depths[p \in Page, h \in Height] ==
        CASE IsLeaf(p) -> {0}
          [] node[p].kind = "internal" /\ h > 0 ->
               UNION {{d + 1 : d \in depths[node[p].children[i], h - 1]} :
                        i \in DOMAIN node[p].children}
          [] OTHER -> {}
  IN [p \in Page |-> depths[p, Cardinality(Page)]]

Increasing(s) == \A i, j \in DOMAIN s : i < j => Less(s[i], s[j])

EntriesOf(pages) == FlattenSeq([i \in DOMAIN pages |-> node[pages[i]].entries])

\* The entries of the leaves, tombstones included, are in increasing order from
\* left to right, and every separator lies between what is left and what is
\* right of it: "Leaf entries are physically sorted by (K, Rid)", "Internal page
\* slot i > 0 stores the lower-bound (K, Rid) for child i".
SortedWhenQuiet ==
  Quiet /\ root # INVALID_PAGE_ID =>
    LET leaves == LeavesUnder IN
    /\ Increasing(EntriesOf(leaves[root]))
    /\ \A p \in Page : node[p].kind = "internal" =>
         \A i \in DOMAIN node[p].seps :
           /\ \A e \in ToSet(EntriesOf(leaves[node[p].children[i]])) : Less(e, node[p].seps[i])
           /\ \A e \in ToSet(EntriesOf(leaves[node[p].children[i + 1]])) :
                ~Less(e, node[p].seps[i])

\* All leaves are equally deep and linked from left to right; every page but the
\* root is at least half full, and a root that is no leaf has two children.
BalancedWhenQuiet ==
  Quiet /\ root # INVALID_PAGE_ID =>
    LET row == LeavesUnder[root] IN
    /\ Cardinality(DepthsUnder[root]) = 1
    /\ \A i \in DOMAIN row :
         node[row[i]].next = IF i = Len(row) THEN INVALID_PAGE_ID ELSE row[i + 1]
    /\ \A p \in Page \ {root} : node[p] # Free => size(node[p]) >= min_size(node[p])
    /\ size(node[root]) >= IF IsLeaf(root) THEN 1 ELSE 2

\* The pages that every set has that has the root and the children of its pages.
PagesInTree ==
  LET closed == {S \in SUBSET Page : root \in S /\
                   \A p \in S : node[p].kind = "internal" => ToSet(node[p].children) \subseteq S}
  IN IF root = INVALID_PAGE_ID THEN {} ELSE {p \in Page : \A S \in closed : p \in S}

\* No page is lost: what was allocated and not deleted belongs to the tree.
NoPageLeaked ==
  Quiet => {p \in Page : node[p] # Free} = PagesInTree

\* No assertion fails and no index is out of bounds: in particular "Caller must
\* ensure that the page is not already full" of insert_at.
NeverPanics == ~panicked

\* No assertion fails but that of insert_at on a leaf that a merge has left full.
PanicsOnlyOnFullLeaf ==
  panicked => \E t \in Thread :
    /\ op[t].pc = "at_leaf" /\ op[t].kind = "insert"
    /\ size(node[Last(op[t].writes)]) = LeafMax

\* No assertion fails but the one that the tree is not empty, of a remove that
\* comes back for write latches when others have removed all the rest.
PanicsOnlyOnEmptiedTree ==
  panicked => \E t \in Thread :
    op[t].pc = "header_w" /\ op[t].kind = "remove" /\ root = INVALID_PAGE_ID

\* No threads wait for each other in a circle: of those of any set one waits for
\* none of the others.
NoLatchCycle ==
  \A S \in SUBSET Thread :
    S # {} => \E t \in S : \A u \in S \ {t} : ~WaitsFor(t, u)

\* Lookups and scans answer in increasing order, every entry once.
AnswersInOrder ==
  \A t \in Thread : op[t].answer[1] = "values" => Increasing(op[t].answer[2])

\* Every call that is made returns: again and again each thread is outside of one.
EveryCallReturns ==
  \A t \in Thread : []<>(op[t].pc = "idle" \/ panicked)

\* What the calls are to Index.
Calls ==
  [t \in Thread |->
    LET o == op[t]
        pending == o.answer[1] = "none"
    IN [kind |-> IF pending THEN o.kind ELSE "done",
        entry |-> IF pending THEN o.entry ELSE NoEntry,
        answer |-> <<o.answer[1], ToSet(o.answer[2])>>,
        always |-> seen[t].always, ever |-> seen[t].ever]]

I == INSTANCE Index WITH contents <- Contents, calls <- Calls

\* The tree is a set of entries to its callers, whatever it does inside: a split,
\* a redistribution or a merge changes nothing, an insert or remove that answers
\* Ok changed exactly its own entry, once, and lookups miss nothing.
ImplementsIndex == I!Spec
=============================================================================
