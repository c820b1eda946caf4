------------------------------ MODULE MCBTree ------------------------------
(***************************************************************************)
(* BTree for TLC.                                                          *)
(***************************************************************************)
EXTENDS BTree, TLC

\* Keys with several rids, so that separators need the rid as well.
Four == {<<1, 1>>, <<1, 2>>, <<2, 1>>, <<2, 2>>}
Ten == (1 .. 5) \X {1, 2}
Seven == Four \cup {<<3, 1>>, <<3, 2>>, <<4, 1>>}

\* Entries of the first, the middle and the last two leaves of a loaded tree.
Outer == {<<1, 1>>, <<3, 1>>, <<4, 1>>, <<5, 1>>}

\* Which calls overlap: updates with updates, and inserts with lookups as well.
UpdatesAndReads == {{"insert"}, {"remove"}, {"insert", "remove"},
                    {"insert", "get"}, {"insert", "scan"}}
RemovesAndGets == {{"insert"}, {"remove"}, {"insert", "remove"}, {"remove", "get"}}

\* A tree of three levels over the entries of Ten: leaves 1 .. 5 of one key
\* each, and the internal nodes 6, 7 and 8 with these children.
Loaded(children) ==
  LET Leaf(k) == [EmptyLeaf(IF k = 5 THEN INVALID_PAGE_ID ELSE k + 1)
                    EXCEPT !.entries = <<<<k, 1>>, <<k, 2>>>>]
      First(p) == IF p \in 1 .. 5 THEN <<p, 1>> ELSE <<children[p][1], 1>>
      Node(c) == InternalNode(c, [i \in 1 .. Len(c) - 1 |-> First(c[i + 1])])
  IN [root |-> 8,
      node |-> [p \in Page |-> CASE p \in 1 .. 5 -> Leaf(p)
                                 [] p \in 6 .. 8 -> Node(children[p])
                                 [] OTHER -> Free]]

\* Trees to begin with: the empty one, and the two that inserting Ten in
\* increasing and in decreasing order makes of it with LeafMax 4, InternalMax 3.
OnlyEmpty == {EmptyTree}
EmptyAndLoaded ==
  { EmptyTree,
    Loaded(6 :> <<1, 2>> @@ 7 :> <<3, 4, 5>> @@ 8 :> <<6, 7>>),
    Loaded(6 :> <<1, 2, 3>> @@ 7 :> <<4, 5>> @@ 8 :> <<6, 7>>) }

=============================================================================
