---------------------------- MODULE InternalPage ----------------------------
(***************************************************************************)
(* The operations of storage/page/b_tree_internal_page.rs on one internal  *)
(* page: n children and the n - 1 separators between them.  seps[i] is     *)
(* slot i of the page, the lower bound of children[i + 1]; the key of slot *)
(* 0 is never used.  A child's index is its slot, so it counts from 0.     *)
(***************************************************************************)
EXTENDS Integers, SequencesExt

InternalNode(children, seps) ==
  [kind |-> "internal", children |-> children, seps |-> seps]

num_children(node) == Len(node.children)

value_at(node, idx) == node.children[idx + 1]

value_idx(node, p) == (CHOOSE i \in DOMAIN node.children : node.children[i] = p) - 1

\* The binary search of find_child_idx and find_child_idx_for_insert: the last
\* slot of which the separator is still to the left of what is searched.  Given
\* are the slots of which that is so.
LastChild(node, left) ==
  LET n == num_children(node)
      search[range \in (0 .. n) \X (0 .. n)] ==
        LET mid == range[1] + (range[2] - range[1]) \div 2
        IN IF range[2] - range[1] <= 1 THEN range[1]
           ELSE IF mid \in left THEN search[<<mid, range[2]>>]
           ELSE search[<<range[1], mid>>]
  IN search[<<0, n>>]

\* The first child that can hold the key.
find_child_idx(node, key) ==
  LastChild(node, {i \in DOMAIN node.seps : node.seps[i][1] < key})

\* Variant that looks for a separator itself to the left of it.
find_child_idx_for_insert_below(node, e) ==
  LET IsLeft(s) == s[1] < e[1] \/ (s[1] = e[1] /\ s[2] < e[2])
  IN LastChild(node, {i \in DOMAIN node.seps : IsLeft(node.seps[i])})

\* The child for the exact entry.
find_child_idx_for_insert(node, e) ==
  LET IsLeft(s) == s[1] < e[1] \/ (s[1] = e[1] /\ s[2] <= e[2])
  IN LastChild(node, {i \in DOMAIN node.seps : IsLeft(node.seps[i])})

\* Child p with separator s comes right after the child named after.
insert_after(node, after, s, p) ==
  LET idx == value_idx(node, after) + 1
  IN [node EXCEPT !.seps = InsertAt(@, idx, s), !.children = InsertAt(@, idx + 1, p)]

\* Slot idx > 0 goes, with its separator.
remove_slot(node, idx) ==
  [node EXCEPT !.seps = RemoveAt(@, idx), !.children = RemoveAt(@, idx + 1)]

\* split_insert_after: the node with the new child is cut in two.  The code
\* tells three cases apart, by where the new child falls, and never builds the
\* over-full node; each case leaves behind what is written here.
SplitSize(node) == (num_children(node) + 1) \div 2

LeftOfSplit(node, after, s, p) ==
  LET whole == insert_after(node, after, s, p)
      k == SplitSize(node)
  IN InternalNode(SubSeq(whole.children, 1, k), SubSeq(whole.seps, 1, k - 1))

RightOfSplit(node, after, s, p) ==
  LET whole == insert_after(node, after, s, p)
      k == SplitSize(node)
  IN InternalNode(SubSeq(whole.children, k + 1, Len(whole.children)),
                  SubSeq(whole.seps, k + 1, Len(whole.seps)))

PromotedBySplit(node, after, s, p) ==
  insert_after(node, after, s, p).seps[SplitSize(node)]
=============================================================================
