----------------------------- MODULE TreeSteps -----------------------------
(***************************************************************************)
(* What the operations on one page, and the updates of several pages that  *)
(* BTree's actions make, do to a tree.  There are no tombstones.           *)
(***************************************************************************)
EXTENDS TreeShape

-----------------------------------------------------------------------------
(* Searching.                                                              *)

\* The position of an entry: what is before it is less, what follows is not.
LEMMA LeafSearched ==
  ASSUME EntriesBounded, NEW leaf, NEW a, NEW b, Filed(leaf.entries, a, b), NEW e \in Entry
  PROVE  /\ find_insert_pos(leaf, e) \in 1 .. Len(leaf.entries) + 1
         /\ \A i \in 1 .. Len(leaf.entries) :
              /\ i < find_insert_pos(leaf, e) => Rank(leaf.entries[i]) < Rank(e)
              /\ find_insert_pos(leaf, e) <= i => Rank(e) <= Rank(leaf.entries[i])
<1> DEFINE s == leaf.entries
           n == Len(s)
           T == {i \in DOMAIN s : Less(s[i], e)}
<1>1. /\ s \in Seq(Entry) /\ n \in Nat /\ DOMAIN s = 1 .. n
      /\ \A i, j \in 1 .. n : i < j => Rank(s[i]) < Rank(s[j])
      /\ \A i \in 1 .. n : Rank(s[i]) \in Int /\ s[i] \in Entry
      /\ Rank(e) \in Int
  BY FiledRanks, Ranked DEF Filed
<1>2. \A i \in 1 .. n : i \in T <=> Rank(s[i]) < Rank(e)
  BY <1>1, Ranked
<1>3. find_insert_pos(leaf, e) = lower_bound_by(leaf, T)
  BY DEF find_insert_pos
<1>4. T \in SUBSET (1 .. n)
  BY <1>1
<1> HIDE DEF T, s, n
<1>5. \A i \in T : \A j \in 1 .. i : j \in T
  <2> SUFFICES ASSUME NEW i \in T, NEW j \in 1 .. i PROVE j \in T
    OBVIOUS
  <2>1. i \in 1 .. n /\ j \in 1 .. n /\ (j = i \/ j < i)
    BY <1>4, <1>1
  <2>2. Rank(s[j]) <= Rank(s[i])
    BY <2>1, <1>1
  <2> QED
    BY <2>1, <2>2, <1>1, <1>2
<1>6. PICK k \in 0 .. n : T = 1 .. k
  BY <1>1, <1>4, <1>5, Prefix
<1>7. find_insert_pos(leaf, e) = k + 1
  <2>1. lower_bound_by(leaf, 1 .. k) = k + 1
    BY <1>1, LowerBoundFound DEF s, n
  <2> QED
    BY <2>1, <1>3, <1>6
<1>8. \A i \in 1 .. n : (i < k + 1 => i \in T) /\ (k + 1 <= i => i \notin T)
  BY <1>1, <1>6
<1>9. \A i \in 1 .. n : /\ i < k + 1 => Rank(s[i]) < Rank(e)
                        /\ k + 1 <= i => Rank(e) <= Rank(s[i])
  BY <1>1, <1>2, <1>8
<1> QED
  BY <1>1, <1>7, <1>9 DEF s, n

LEMMA EntryFound ==
  ASSUME EntriesBounded, NEW leaf, NEW a, NEW b, Filed(leaf.entries, a, b), NEW e \in Entry,
         HasEntry(leaf, e)
  PROVE  /\ find_insert_pos(leaf, e) \in 1 .. Len(leaf.entries)
         /\ leaf.entries[find_insert_pos(leaf, e)] = e
<1>1. find_insert_pos(leaf, e) \in 1 .. Len(leaf.entries) + 1 /\ Len(leaf.entries) \in Nat
  BY LeafSearched, FiledRanks DEF Filed
<1>2. /\ find_insert_pos(leaf, e) <= Len(leaf.entries)
      /\ leaf.entries[find_insert_pos(leaf, e)] = e
  BY DEF HasEntry, curr_size
<1> QED
  BY <1>1, <1>2

LEMMA EntryMissing ==
  ASSUME EntriesBounded, NEW leaf, NEW a, NEW b, Filed(leaf.entries, a, b), NEW e \in Entry,
         ~HasEntry(leaf, e)
  PROVE  /\ find_insert_pos(leaf, e) \in 1 .. Len(leaf.entries) + 1
         /\ \A i \in 1 .. Len(leaf.entries) :
              /\ i < find_insert_pos(leaf, e) => Rank(leaf.entries[i]) < Rank(e)
              /\ find_insert_pos(leaf, e) <= i => Rank(e) < Rank(leaf.entries[i])
<1> DEFINE s == leaf.entries
           n == Len(s)
           k == find_insert_pos(leaf, e)
<1>1. /\ s \in Seq(Entry) /\ n \in Nat
      /\ \A i, j \in 1 .. n : i < j => Rank(s[i]) < Rank(s[j])
      /\ \A i \in 1 .. n : Rank(s[i]) \in Int /\ s[i] \in Entry
      /\ Rank(e) \in Int
  BY FiledRanks, Ranked DEF Filed
<1>2. /\ k \in 1 .. n + 1
      /\ \A i \in 1 .. n : /\ i < k => Rank(s[i]) < Rank(e)
                           /\ k <= i => Rank(e) <= Rank(s[i])
  BY LeafSearched
<1>3. k <= n => s[k] # e
  BY DEF HasEntry, curr_size
<1> HIDE DEF s, n, k
<1>4. ASSUME NEW i \in 1 .. n, k <= i PROVE Rank(e) < Rank(s[i])
  <2>1. k \in 1 .. n /\ s[k] # e /\ Rank(s[k]) # Rank(e) /\ Rank(e) <= Rank(s[k])
    BY <1>1, <1>2, <1>3, <1>4, Ranked
  <2>2. Rank(s[k]) <= Rank(s[i])
    BY <1>1, <1>4, <2>1
  <2> QED
    BY <1>1, <2>1, <2>2
<1> QED
  BY <1>2, <1>4 DEF s, n, k

LEMMA OrderOfKeys ==
  ASSUME EntriesBounded, NEW e \in Entry, NEW f \in Entry
  PROVE  /\ e[1] \in Int /\ e[2] \in Int
         /\ Rank(e) < Rank(f) => e[1] <= f[1]
         /\ Rank(e) <= Rank(f) <=> (e[1] < f[1] \/ (e[1] = f[1] /\ e[2] <= f[2]))
<1>1. PICK m \in Nat : Entry \subseteq (0 .. m) \X (0 .. m)
  BY DEF EntriesBounded
<1>2. /\ e[1] \in Int /\ e[2] \in Int /\ f[1] \in Int /\ f[2] \in Int
      /\ e = <<e[1], e[2]>> /\ f = <<f[1], f[2]>>
  BY <1>1
<1>3. Rank(e) < Rank(f) <=> Less(e, f)
  BY Ranked
<1>4. Rank(f) < Rank(e) <=> Less(f, e)
  BY Ranked
<1>5. Rank(e) \in Int /\ Rank(f) \in Int
  BY Ranked
<1> QED
  BY <1>2, <1>3, <1>4, <1>5 DEF Less

\* The child that is searched for an entry is the one in the range of which it is.
LEMMA ChildSearched ==
  ASSUME EntriesBounded, NEW nd, NEW a \in Int, NEW b \in Int, NEW h, NEW ex, NEW lv, NEW lo,
         NEW end, Row(nd.children, nd.seps, a, b, h, ex, lv, lo, end),
         NEW e \in Entry, a <= Rank(e), Rank(e) < b
  PROVE  /\ find_child_idx_for_insert(nd, e) \in 0 .. Len(nd.seps)
         /\ From(nd.seps, a, find_child_idx_for_insert(nd, e) + 1) <= Rank(e)
         /\ Rank(e) < To(nd.seps, b, find_child_idx_for_insert(nd, e) + 1)
<1> DEFINE w == nd.seps
           n == Len(w)
           IsLeft(x) == x[1] < e[1] \/ (x[1] = e[1] /\ x[2] <= e[2])
           T == {i \in DOMAIN w : IsLeft(w[i])}
<1>1. /\ w \in Seq(Entry) /\ n \in Nat /\ DOMAIN w = 1 .. n /\ Len(nd.children) = n + 1
      /\ \A i, j \in 1 .. n : i < j => Rank(w[i]) < Rank(w[j])
      /\ \A i \in 1 .. n : Rank(w[i]) \in Int /\ w[i] \in Entry
      /\ Rank(e) \in Int
  BY FiledRanks, Ranked DEF Row
<1>2. \A i \in 1 .. n : i \in T <=> Rank(w[i]) <= Rank(e)
  BY <1>1, OrderOfKeys
<1>3. find_child_idx_for_insert(nd, e) = LastChild(nd, T)
  BY DEF find_child_idx_for_insert
<1>4. T \in SUBSET (1 .. n)
  BY <1>1
<1> HIDE DEF T, w, n
<1>5. \A i \in T : \A j \in 1 .. i : j \in T
  <2> SUFFICES ASSUME NEW i \in T, NEW j \in 1 .. i PROVE j \in T
    OBVIOUS
  <2>1. i \in 1 .. n /\ j \in 1 .. n /\ (j = i \/ j < i)
    BY <1>4, <1>1
  <2>2. Rank(w[j]) <= Rank(w[i])
    BY <2>1, <1>1
  <2> QED
    BY <2>1, <2>2, <1>1, <1>2
<1>6. PICK k \in 0 .. n : T = 1 .. k
  BY <1>1, <1>4, <1>5, Prefix
<1>7. find_child_idx_for_insert(nd, e) = k
  <2>1. LastChild(nd, 1 .. k) = k
    BY <1>1, LastChildFound
  <2> QED
    BY <2>1, <1>3, <1>6
<1>8. From(w, a, k + 1) <= Rank(e)
  <2>1. CASE k = 0
    BY <2>1 DEF From
  <2>2. CASE k # 0
    <3>1. k \in T /\ k \in 1 .. n /\ (k + 1) - 1 = k /\ k + 1 # 1
      BY <2>2, <1>1, <1>6
    <3> QED
      BY <3>1, <1>2 DEF From
  <2> QED
    BY <2>1, <2>2
<1>9. Rank(e) < To(w, b, k + 1)
  <2>1. CASE k = n
    BY <2>1 DEF To, n
  <2>2. CASE k # n
    <3>1. k + 1 \notin T /\ k + 1 \in 1 .. n /\ k + 1 # n + 1
      BY <2>2, <1>1, <1>6
    <3> QED
      BY <3>1, <1>1, <1>2 DEF To, n
  <2> QED
    BY <2>1, <2>2
<1> QED
  BY <1>7, <1>8, <1>9 DEF w, n

\* A lookup by key goes down to the child where the least entry with it would be, or
\* to the end of the one before it.
LEMMA ChildLookedUp ==
  ASSUME EntriesBounded, NEW nd, NEW a, NEW b, NEW h, NEW ex, NEW lv, NEW lo,
         NEW end, Row(nd.children, nd.seps, a, b, h, ex, lv, lo, end), NEW e \in Entry
  PROVE  /\ find_child_idx(nd, e[1]) \in 0 .. Len(nd.seps)
         /\ a <= Rank(e) => From(nd.seps, a, find_child_idx(nd, e[1]) + 1) <= Rank(e)
         /\ e \in LeastEntries /\ Rank(e) <= b =>
              Rank(e) <= To(nd.seps, b, find_child_idx(nd, e[1]) + 1)
<1> DEFINE w == nd.seps
           n == Len(w)
           T == {i \in DOMAIN w : w[i][1] < e[1]}
<1>1. /\ w \in Seq(Entry) /\ n \in Nat /\ DOMAIN w = 1 .. n /\ Len(nd.children) = n + 1
      /\ \A i, j \in 1 .. n : i < j => Rank(w[i]) < Rank(w[j])
      /\ \A i \in 1 .. n : w[i] \in Entry
  BY FiledRanks DEF Row
<1>2. e[1] \in Int /\ \A i \in 1 .. n : w[i][1] \in Int
  BY <1>1, OrderOfKeys
<1>3. find_child_idx(nd, e[1]) = LastChild(nd, T)
  BY DEF find_child_idx
<1>4. T \in SUBSET (1 .. n)
  BY <1>1
<1>5. \A i \in T : \A j \in 1 .. i : j \in T
  <2> SUFFICES ASSUME NEW i \in T, NEW j \in 1 .. i PROVE j \in T
    OBVIOUS
  <2>1. i \in 1 .. n /\ j \in 1 .. n /\ (j = i \/ j < i)
    BY <1>4, <1>1
  <2>2. CASE j = i
    BY <2>2
  <2>3. CASE j < i
    <3>1. w[j] \in Entry /\ w[i] \in Entry /\ Rank(w[j]) < Rank(w[i])
      BY <2>1, <2>3, <1>1
    <3>2. w[j][1] <= w[i][1]
      BY <3>1, OrderOfKeys
    <3> QED
      BY <2>1, <3>2, <1>1, <1>2
  <2> QED
    BY <2>1, <2>2, <2>3
<1> HIDE DEF T, w, n
<1>6. PICK k \in 0 .. n : T = 1 .. k
  BY <1>1, <1>4, <1>5, Prefix
<1>7. find_child_idx(nd, e[1]) = k
  <2>1. LastChild(nd, 1 .. k) = k
    BY <1>1, LastChildFound
  <2> QED
    BY <2>1, <1>3, <1>6
<1>8. ASSUME a <= Rank(e) PROVE From(w, a, k + 1) <= Rank(e)
  <2>1. CASE k = 0
    BY <1>8, <2>1 DEF From
  <2>2. CASE k # 0
    <3>1. k \in T /\ k \in 1 .. n /\ (k + 1) - 1 = k /\ k + 1 # 1
      BY <2>2, <1>1, <1>6
    <3>2. w[k][1] < e[1] /\ w[k] \in Entry
      BY <3>1, <1>1 DEF T
    <3>3. Rank(w[k]) <= Rank(e)
      BY <3>2, OrderOfKeys
    <3> QED
      BY <3>1, <3>3 DEF From
  <2> QED
    BY <2>1, <2>2
<1>9. ASSUME e \in LeastEntries, Rank(e) <= b PROVE Rank(e) <= To(w, b, k + 1)
  <2>1. CASE k = n
    BY <1>9, <2>1 DEF To, n
  <2>2. CASE k # n
    <3>1. k + 1 \notin T /\ k + 1 \in 1 .. n /\ k + 1 # n + 1
      BY <2>2, <1>1, <1>6
    <3>2. ~(w[k + 1][1] < e[1]) /\ w[k + 1] \in Entry /\ w[k + 1][1] \in Int
      BY <3>1, <1>1, <1>2 DEF T
    <3>3. e[1] < w[k + 1][1] \/ (e[1] = w[k + 1][1] /\ e[2] <= w[k + 1][2])
      BY <1>2, <1>9, <3>2 DEF LeastEntries
    <3>4. Rank(e) <= Rank(w[k + 1])
      BY <3>2, <3>3, OrderOfKeys
    <3> QED
      BY <3>1, <3>4 DEF To, n
  <2> QED
    BY <2>1, <2>2
<1> QED
  BY <1>7, <1>8, <1>9 DEF w, n

\* The index of a child.
LEMMA ChildIndex ==
  ASSUME NEW nd, nd.children \in Seq(Page), NEW i \in 1 .. Len(nd.children),
         \A j \in 1 .. Len(nd.children) : nd.children[j] = nd.children[i] => j = i
  PROVE  value_idx(nd, nd.children[i]) = i - 1
<1>1. DOMAIN nd.children = 1 .. Len(nd.children)
  OBVIOUS
<1>2. (CHOOSE j \in DOMAIN nd.children : nd.children[j] = nd.children[i]) = i
  BY <1>1
<1> QED
  BY <1>2 DEF value_idx

-----------------------------------------------------------------------------
(* Operations on one leaf.                                                 *)

\* A leaf without tombstones.
LEMMA LeafFields ==
  ASSUME NEW leaf \in LeafRecords
  PROVE  /\ leaf.kind = "leaf" /\ leaf.entries \in Seq(Entry) /\ Len(leaf.entries) \in Nat
         /\ leaf.tombstones = <<>> /\ leaf.next \in Page \cup {NoPage}
         /\ leaf = [kind |-> "leaf", entries |-> leaf.entries, tombstones |-> <<>>,
                    next |-> leaf.next]
         /\ size(leaf) = Len(leaf.entries) /\ live_size(leaf) = Len(leaf.entries)
         /\ curr_size(leaf) = Len(leaf.entries)
         /\ \A i : ~is_idx_tombstoned(leaf, i)
         /\ LiveIndexes(leaf) = 1 .. Len(leaf.entries)
<1>1. /\ leaf.kind = "leaf" /\ leaf.entries \in Seq(Entry) /\ Len(leaf.entries) \in Nat
      /\ leaf.tombstones = <<>> /\ leaf.next \in Page \cup {NoPage}
      /\ leaf = [kind |-> "leaf", entries |-> leaf.entries, tombstones |-> <<>>,
                 next |-> leaf.next]
  BY DEF LeafRecords
<1>2. size(leaf) = Len(leaf.entries) /\ live_size(leaf) = Len(leaf.entries)
      /\ curr_size(leaf) = Len(leaf.entries)
  BY <1>1 DEF size, live_size, curr_size
<1>3. \A i : ~is_idx_tombstoned(leaf, i)
  <2>1. DOMAIN leaf.tombstones = {}
    BY <1>1
  <2> QED
    BY <2>1 DEF is_idx_tombstoned
<1>4. DOMAIN leaf.entries = 1 .. Len(leaf.entries)
  BY <1>1
<1>5. LiveIndexes(leaf) = 1 .. Len(leaf.entries)
  BY <1>3, <1>4 DEF LiveIndexes
<1> QED
  BY <1>1, <1>2, <1>3, <1>5

LeafWith(s, next) == [kind |-> "leaf", entries |-> s, tombstones |-> <<>>, next |-> next]

LEMMA LeafMade ==
  ASSUME NEW s \in Seq(Entry), NEW next \in Page \cup {NoPage}
  PROVE  /\ LeafWith(s, next) \in LeafRecords /\ LeafWith(s, next).entries = s
         /\ LeafWith(s, next).kind = "leaf" /\ LeafWith(s, next).next = next
BY DEF LeafWith, LeafRecords

LEMMA ShiftedNone ==
  ASSUME NEW i
  PROVE  ShiftUp(<<>>, i) = <<>> /\ ShiftDown(<<>>, i) = <<>>
<1>1. DOMAIN <<>> = {}
  OBVIOUS
<1>2. ShiftUp(<<>>, i) = <<>>
  BY <1>1 DEF ShiftUp
<1>3. Others(<<>>, i) = <<>>
  <2>1. {j \in DOMAIN <<>> : <<>>[j] # i} = {}
    BY <1>1
  <2> QED
    BY <2>1, NoElements DEF Others
<1>4. ShiftDown(<<>>, i) = <<>>
  BY <1>1, <1>3 DEF ShiftDown
<1> QED
  BY <1>2, <1>4

LEMMA LeafUpdated ==
  ASSUME NEW leaf \in LeafRecords, NEW s, NEW t, NEW next
  PROVE  /\ [leaf EXCEPT !.entries = s, !.tombstones = t] =
              [kind |-> "leaf", entries |-> s, tombstones |-> t, next |-> leaf.next]
         /\ [leaf EXCEPT !.next = next] = LeafWith(leaf.entries, next)
         /\ [leaf EXCEPT !.entries = s] = LeafWith(s, leaf.next)
<1>1. leaf = [kind |-> "leaf", entries |-> leaf.entries, tombstones |-> <<>>,
              next |-> leaf.next]
  BY LeafFields
<1>2. [leaf EXCEPT !.entries = s, !.tombstones = t] =
        [[leaf EXCEPT !.entries = s] EXCEPT !.tombstones = t]
  OBVIOUS
<1>3. [leaf EXCEPT !.entries = s] = LeafWith(s, leaf.next)
  BY <1>1 DEF LeafWith
<1>4. [LeafWith(s, leaf.next) EXCEPT !.tombstones = t] =
        [kind |-> "leaf", entries |-> s, tombstones |-> t, next |-> leaf.next]
  BY DEF LeafWith
<1>5. [leaf EXCEPT !.next = next] = LeafWith(leaf.entries, next)
  BY <1>1 DEF LeafWith
<1> QED
  BY <1>2, <1>3, <1>4, <1>5

\* insert_at and remove_at move entries only.
LEMMA InsertedAt ==
  ASSUME NEW leaf \in LeafRecords, NEW i, NEW e
  PROVE  insert_at(leaf, i, e) = LeafWith(InsertAt(leaf.entries, i, e), leaf.next)
<1>1. leaf.tombstones = <<>> /\ ShiftUp(leaf.tombstones, i) = <<>>
  BY LeafFields, ShiftedNone
<1> DEFINE s == InsertAt(leaf.entries, i, e)
           t == ShiftUp(leaf.tombstones, i)
<1>2. insert_at(leaf, i, e) = [leaf EXCEPT !.entries = s, !.tombstones = t]
  BY DEF insert_at
<1>3. t = <<>>
  BY <1>1
<1> HIDE DEF s, t
<1>4. insert_at(leaf, i, e) = LeafWith(s, leaf.next)
  BY <1>2, <1>3, LeafUpdated DEF LeafWith
<1> QED
  BY <1>4 DEF s

LEMMA RemovedAt ==
  ASSUME NEW leaf \in LeafRecords, NEW i
  PROVE  remove_at(leaf, i) = LeafWith(RemoveAt(leaf.entries, i), leaf.next)
<1>1. leaf.tombstones = <<>> /\ ShiftDown(leaf.tombstones, i) = <<>>
  BY LeafFields, ShiftedNone
<1> DEFINE s == RemoveAt(leaf.entries, i)
           t == ShiftDown(leaf.tombstones, i)
<1>2. remove_at(leaf, i) = [leaf EXCEPT !.entries = s, !.tombstones = t]
  BY DEF remove_at
<1>3. t = <<>>
  BY <1>1
<1> HIDE DEF s, t
<1>4. remove_at(leaf, i) = LeafWith(s, leaf.next)
  BY <1>2, <1>3, LeafUpdated DEF LeafWith
<1> QED
  BY <1>4 DEF s

\* Without room for tombstones removing is physical.
LEMMA PhysicalRemoval ==
  ASSUME NEW leaf \in LeafRecords, TombCap = 0
  PROVE  /\ are_tombstones_full(leaf) /\ RemovesPhysically(leaf)
         /\ \A e : ~DeletePanics(leaf, e)
         /\ \A e : Absent(leaf, e) <=> ~HasEntry(leaf, e)
         /\ \A e : WithoutEntry(leaf, e) =
                     LeafWith(RemoveAt(leaf.entries, find_insert_pos(leaf, e)), leaf.next)
<1>1. Len(leaf.tombstones) = 0
  BY LeafFields
<1>2. \A e : WithoutEntry(leaf, e) =
              LeafWith(RemoveAt(leaf.entries, find_insert_pos(leaf, e)), leaf.next)
  BY RemovedAt DEF WithoutEntry, delete_from_leaf
<1>3. \A e : Absent(leaf, e) <=> ~HasEntry(leaf, e)
  BY LeafFields DEF Absent
<1> QED
  BY <1>1, <1>2, <1>3 DEF are_tombstones_full, RemovesPhysically, DeletePanics

\* A leaf cut in two at an index.
LEMMA LeafCut ==
  ASSUME NEW leaf \in LeafRecords, NEW k \in 1 .. Len(leaf.entries) + 1
  PROVE  /\ KeptBySplit(leaf, k) = LeafWith(SubSeq(leaf.entries, 1, k - 1), leaf.next)
         /\ MovedBySplit(leaf, k) = SubSeq(leaf.entries, k, Len(leaf.entries))
         /\ remove_all_tombstones(leaf) = leaf
<1> DEFINE s == leaf.entries
           n == Len(s)
<1>1. s \in Seq(Entry) /\ n \in Nat /\ leaf.tombstones = <<>> /\ LiveIndexes(leaf) = 1 .. n
      /\ leaf = LeafWith(s, leaf.next)
  BY LeafFields DEF LeafWith
<1>2. KeptBySplit(leaf, k) = LeafWith(SubSeq(s, 1, k - 1), leaf.next)
  <2>1. {j \in DOMAIN <<>> : <<>>[j] < k} = {}
    OBVIOUS
  <2>2. ElementsAt(<<>>, {j \in DOMAIN <<>> : <<>>[j] < k}) = <<>>
    BY <2>1, NoElements
  <2> DEFINE v == SubSeq(s, 1, k - 1)
             t == ElementsAt(leaf.tombstones, {j \in DOMAIN leaf.tombstones : leaf.tombstones[j] < k})
  <2>3. KeptBySplit(leaf, k) = [leaf EXCEPT !.entries = v, !.tombstones = t]
    BY DEF KeptBySplit
  <2>4. t = <<>>
    BY <1>1, <2>2
  <2> HIDE DEF v, t
  <2>5. KeptBySplit(leaf, k) = LeafWith(v, leaf.next)
    BY <2>3, <2>4, LeafUpdated DEF LeafWith
  <2> QED
    BY <2>5 DEF v
<1>3. {i \in LiveIndexes(leaf) : i >= k} = k .. n
  BY <1>1
<1>4. MovedBySplit(leaf, k) = SubSeq(s, k, n)
  <2>1. MovedBySplit(leaf, k) = ElementsAt(s, k .. n)
    BY <1>3 DEF MovedBySplit, Pick
  <2>2. s \in Seq(Entry) /\ n \in 0 .. Len(s) /\ k \in 1 .. n + 1
    BY <1>1
  <2> HIDE DEF s, n
  <2>3. ElementsAt(s, k .. n) = SubSeq(s, k, n)
    BY ONLY <2>2, ElementsOfRow
  <2> QED
    BY <2>1, <2>3
<1>5. remove_all_tombstones(leaf) = leaf
  <2>1. ElementsAt(s, 1 .. n) = SubSeq(s, 1, n)
    <3>1. s \in Seq(Entry) /\ n \in 0 .. Len(s) /\ 1 \in 1 .. n + 1
      BY <1>1
    <3> HIDE DEF s, n
    <3> QED
      BY ONLY <3>1, ElementsOfRow
  <2>2. SubSeq(s, 1, n) = s
    BY <1>1
  <2> QED
    BY <2>1, <2>2, <1>1 DEF remove_all_tombstones, Pick, LeafWith
<1> QED
  BY <1>2, <1>4, <1>5

\* Nothing is evicted.
LEMMA NothingEvicted ==
  ASSUME NEW leaf
  PROVE  Evicted(leaf, 0) = leaf
<1> DEFINE F(f) == [i \in 0 .. 0 |-> IF i = 0 THEN leaf ELSE evict_oldest_tombstone(f[i - 1])]
           g == [i \in 0 .. 0 |-> leaf]
           after == CHOOSE f : f = F(f)
<1>1. \A i \in 0 .. 0 : i = 0
  OBVIOUS
<1>2. g = F(g)
  BY <1>1
<1>3. after = F(after)
  BY <1>2
<1>4. after[0] = leaf
  <2>1. F(after)[0] = leaf
    OBVIOUS
  <2> QED
    BY <2>1, <1>3
<1>5. Evicted(leaf, 0) = after[0]
  BY DEF Evicted
<1> QED
  BY <1>4, <1>5

LEMMA LeavesMerged ==
  ASSUME NEW left \in LeafRecords, NEW right \in LeafRecords
  PROVE  MergedLeaf(left, right) = LeafWith(left.entries \o right.entries, right.next)
<1>1. Len(left.tombstones) = 0 /\ Len(right.tombstones) = 0 /\ left.tombstones = <<>>
      /\ right.tombstones = <<>>
  BY LeafFields
<1>2. Retained(left, right) \in Nat
  <2>1. live_size(left) \in Nat /\ live_size(right) \in Nat /\ min_size(left) \in Nat
    BY LeafFields, SizeAssumption DEF min_size
  <2> QED
    BY <2>1 DEF Retained
<1>3. Surplus(left, right) = 0
  BY <1>1, <1>2 DEF Surplus
<1>4. LeftRest(left, right) = left /\ RightRest(left, right) = right
  BY <1>1, <1>3, NothingEvicted DEF LeftRest, RightRest, AtMost
<1>5. coalesce_right_into_page(left, right) = LeafWith(left.entries \o right.entries, left.next)
  <2>1. [j \in DOMAIN right.tombstones |-> right.tombstones[j] + curr_size(left)] = <<>>
    BY <1>1
  <2>2. <<>> \o <<>> = <<>>
    OBVIOUS
  <2> QED
    BY <1>1, <2>1, <2>2 DEF coalesce_right_into_page, LeafWith
<1>6. \A s, n : [LeafWith(s, left.next) EXCEPT !.next = n] = LeafWith(s, n)
  BY DEF LeafWith
<1> QED
  BY <1>4, <1>5, <1>6 DEF MergedLeaf

-----------------------------------------------------------------------------
(* Changes of one leaf.                                                    *)

\* f, but for its value at x.
Put(f, x, v) == [f EXCEPT ![x] = v]

LEMMA LeafRecord ==
  ASSUME NEW nd, NEW top, NEW pend, NEW lv, NEW lo, NEW hi, Tree(nd, top, pend, lv, lo, hi),
         NEW p \in Page
  PROVE  /\ nd \in [Page -> PageRecords]
         /\ nd[p].kind = "leaf" => nd[p] \in LeafRecords
BY Kinds DEF Tree, Typed

\* A leaf with other entries of its range.
LEMMA LeafRewritten ==
  ASSUME NEW nd, NEW top, NEW pend, NEW lv, NEW lo, NEW hi, Tree(nd, top, pend, lv, lo, hi),
         EntriesBounded, NEW p \in Page, nd[p].kind = "leaf",
         NEW s, Filed(s, lo[p], hi[p]),
         NEW nd2, nd2 = Put(nd, p, LeafWith(s, nd[p].next))
  PROVE  Tree(nd2, top, pend, lv, lo, hi)
<1>1. s \in Seq(Entry)
  BY DEF Filed
<1>2. nd[p] \in LeafRecords /\ nd \in [Page -> PageRecords]
  BY LeafRecord
<1>3. nd[p].next \in Page \cup {NoPage}
  BY <1>2, LeafFields
<1> DEFINE n == LeafWith(s, nd[p].next)
<1>4. n \in LeafRecords /\ n.entries = s /\ n.kind = "leaf" /\ n.next = nd[p].next
  BY <1>1, <1>3, LeafMade
<1>5. n \in PageRecords
  BY <1>4 DEF PageRecords
<1> HIDE DEF n
<1>6. nd2 \in [Page -> PageRecords] /\ nd2[p] = n /\ \A z \in Page : z # p => nd2[z] = nd[z]
  <2>1. nd2 = [nd EXCEPT ![p] = n]
    BY DEF Put, n
  <2> QED
    BY <2>1, <1>2, <1>5
<1> QED
  BY <1>4, <1>6, LeafEdited

\* insert into a leaf that has room: an entry comes into the leaf in the range of
\* which it is, the leaf stays in order, has one more, and the pages stay a tree.
THEOREM LeafGains ==
  ASSUME NEW nd, NEW top, NEW pend, NEW lv, NEW lo, NEW hi, Tree(nd, top, pend, lv, lo, hi),
         EntriesBounded, NEW p \in Page, nd[p].kind = "leaf",
         NEW e \in Entry, ~HasEntry(nd[p], e), lo[p] <= Rank(e), Rank(e) < hi[p]
  PROVE  /\ WithEntry(nd[p], e) = LeafWith(WithEntry(nd[p], e).entries, nd[p].next)
         /\ Filed(WithEntry(nd[p], e).entries, lo[p], hi[p])
         /\ Len(WithEntry(nd[p], e).entries) = size(nd[p]) + 1
         /\ size(nd[p]) \in Nat
         /\ Tree(Put(nd, p, WithEntry(nd[p], e)), top, pend, lv, lo, hi)
<1> DEFINE s == nd[p].entries
           k == find_insert_pos(nd[p], e)
           v == InsertAt(s, k, e)
<1>1. nd[p] \in LeafRecords /\ Filed(s, lo[p], hi[p])
  BY LeafRecord, NextLeaf
<1>2. s \in Seq(Entry) /\ Len(s) \in Nat /\ size(nd[p]) = Len(s)
  BY <1>1, LeafFields
<1>3. /\ k \in 1 .. Len(s) + 1
      /\ \A i \in 1 .. Len(s) : /\ i < k => Rank(s[i]) < Rank(e)
                                /\ k <= i => Rank(e) < Rank(s[i])
  BY <1>1, EntryMissing
<1>4. lo[p] \in Int /\ hi[p] \in Int
  BY DEF Tree, Typed
<1>5. WithEntry(nd[p], e) = LeafWith(v, nd[p].next)
  BY <1>1, InsertedAt DEF WithEntry
<1>6. LeafWith(v, nd[p].next).entries = v
  BY DEF LeafWith
<1> HIDE DEF k
<1>7. Len(v) = Len(s) + 1
  BY <1>2, <1>3, EntryInserted
<1> HIDE DEF v, s
<1>8. Filed(v, lo[p], hi[p])
  BY <1>1, <1>3, <1>4, FiledInserted DEF v
<1>9. Tree(Put(nd, p, LeafWith(v, nd[p].next)), top, pend, lv, lo, hi)
  BY <1>8, LeafRewritten
<1> QED
  BY <1>2, <1>5, <1>6, <1>7, <1>8, <1>9

\* remove from a leaf: the leaf has one less, and the pages stay a tree.
THEOREM LeafLoses ==
  ASSUME NEW nd, NEW top, NEW pend, NEW lv, NEW lo, NEW hi, Tree(nd, top, pend, lv, lo, hi),
         EntriesBounded, TombCap = 0, NEW p \in Page, nd[p].kind = "leaf",
         NEW e \in Entry, ~Absent(nd[p], e)
  PROVE  /\ Tree(Put(nd, p, WithoutEntry(nd[p], e)), top, pend, lv, lo, hi)
         /\ WithoutEntry(nd[p], e).kind = "leaf"
         /\ size(WithoutEntry(nd[p], e)) = size(nd[p]) - 1
<1> DEFINE s == nd[p].entries
           k == find_insert_pos(nd[p], e)
           v == RemoveAt(s, k)
<1>1. nd[p] \in LeafRecords /\ Filed(s, lo[p], hi[p])
  BY LeafRecord, NextLeaf
<1>2. s \in Seq(Entry) /\ Len(s) \in Nat /\ size(nd[p]) = Len(s)
      /\ nd[p].next \in Page \cup {NoPage}
  BY <1>1, LeafFields
<1>3. HasEntry(nd[p], e) /\ WithoutEntry(nd[p], e) = LeafWith(v, nd[p].next)
  BY <1>1, PhysicalRemoval
<1>4. k \in 1 .. Len(s)
  BY <1>1, <1>3, EntryFound
<1>5. lo[p] \in Int /\ hi[p] \in Int
  BY DEF Tree, Typed
<1> HIDE DEF k
<1>6. Filed(v, lo[p], hi[p])
  BY <1>1, <1>4, <1>5, FiledRemoved
<1>7. Len(v) = Len(s) - 1 /\ v \in Seq(Entry)
  BY <1>2, <1>4, EntryRemoved
<1> HIDE DEF v, s
<1>8. Tree(Put(nd, p, LeafWith(v, nd[p].next)), top, pend, lv, lo, hi)
  BY <1>6, LeafRewritten
<1>9. LeafWith(v, nd[p].next).kind = "leaf" /\ LeafWith(v, nd[p].next).entries = v
  BY DEF LeafWith
<1>10. size(LeafWith(v, nd[p].next)) = Len(v)
  BY <1>9 DEF size, curr_size
<1> QED
  BY <1>2, <1>3, <1>7, <1>8, <1>9, <1>10

\* The first leaf.
LEMMA TreePlanted ==
  ASSUME NEW nd, NEW pend, NEW lv, NEW lo, NEW hi, Tree(nd, NoPage, pend, lv, lo, hi),
         EntriesBounded, NEW p \in Page, NEW e \in Entry,
         NEW nd2, nd2 = Put(nd, p, insert_at(EmptyLeaf(INVALID_PAGE_ID), 1, e))
  PROVE  Tree(nd2, p, pend, Put(lv, p, 0), Put(lo, p, Bottom), Put(hi, p, Ceiling))
<1> DEFINE m == EmptyLeaf(INVALID_PAGE_ID)
           v == InsertAt(<<>>, 1, e)
           leaf == LeafWith(v, NoPage)
<1>1. m \in LeafRecords /\ m.entries = <<>> /\ m.next = NoPage
  BY DEF EmptyLeaf, LeafRecords, NoPage
<1>2. insert_at(m, 1, e) = LeafWith(v, NoPage)
  <2> HIDE DEF m, v
  <2>1. insert_at(m, 1, e) = LeafWith(InsertAt(m.entries, 1, e), m.next)
    BY <1>1, InsertedAt
  <2> QED
    BY <1>1, <2>1 DEF v
<1>3. Filed(v, Bottom, Ceiling)
  <2>1. Filed(<<>>, Bottom, Ceiling)
    BY DEF Filed
  <2>2. 1 \in 1 .. Len(<<>>) + 1
    OBVIOUS
  <2> DEFINE z == <<>>
  <2>3. z \in Seq(Entry) /\ Len(z) = 0
    OBVIOUS
  <2> HIDE DEF z
  <2>4. Filed(InsertAt(z, 1, e), Bottom, Ceiling)
    <3>1. Filed(z, Bottom, Ceiling) /\ 1 \in 1 .. Len(z) + 1
      BY <2>1, <2>3 DEF z
    <3>2. Bottom \in Int /\ Ceiling \in Int /\ Bottom <= Rank(e) /\ Rank(e) < Ceiling
      BY Ranked
    <3> QED
      BY <2>3, <3>1, <3>2, FiledInserted
  <2> QED
    BY <2>4 DEF z
<1>4. leaf \in LeafRecords /\ leaf.next = NoPage /\ leaf.entries = v
  <2>1. v \in Seq(Entry)
    BY <1>3 DEF Filed
  <2> HIDE DEF v
  <2> QED
    BY <2>1, LeafMade
<1> HIDE DEF leaf, v, m
<1>5. nd2 = [nd EXCEPT ![p] = leaf]
  BY <1>2 DEF leaf, m, Put
<1> QED
  BY <1>3, <1>4, <1>5, Planted, ZenonT(60) DEF Put

\* A leaf that has become full is split.
LeftLeaf(full, q) == [KeptBySplit(full, SplitAt) EXCEPT !.next = q]

RightLeaf(full) == [EmptyLeaf(full.next) EXCEPT !.entries = MovedBySplit(full, SplitAt)]

\* insert into a leaf that becomes full: both halves are in order, the separator
\* lies between them, and the pages are a tree with a half that has no parent yet.
THEOREM LeafHalved ==
  ASSUME NEW nd, NEW top, NEW pend, NEW lv, NEW lo, NEW hi, Tree(nd, top, pend, lv, lo, hi),
         EntriesBounded, NEW p \in Page, nd[p].kind = "leaf",
         pend[p] = NoPage, \A r \in Page : pend[r] # p,
         NEW e \in Entry, ~HasEntry(nd[p], e), lo[p] <= Rank(e), Rank(e) < hi[p],
         size(nd[p]) + 1 = LeafMax, NEW q \in Page, nd[q] = Free,
         NEW full, full = WithEntry(nd[p], e),
         NEW nd2, nd2 = Put(Put(nd, p, LeftLeaf(full, q)), q, RightLeaf(full)),
         NEW x, x = Rank(Separator(nd2[q]))
  PROVE  /\ Separator(nd2[q]) \in Entry /\ q # p
         /\ Tree(nd2, top, Put(pend, p, q), Put(lv, q, lv[p]), Put(lo, q, x),
                 Put(Put(hi, p, x), q, hi[p]))
<1> DEFINE v == full.entries
           n == Len(v)
           k == SplitAt
           next == nd[p].next
           left == SubSeq(v, 1, k - 1)
           right == SubSeq(v, k, n)
<1>1. /\ full = LeafWith(v, next) /\ Filed(v, lo[p], hi[p]) /\ n = LeafMax
  BY LeafGains
<1>2. /\ v \in Seq(Entry) /\ n \in Nat /\ lo[p] \in Int /\ hi[p] \in Int
      /\ next \in Page \cup {NoPage}
  <2>1. v \in Seq(Entry) /\ n \in Nat
    BY <1>1 DEF Filed
  <2>2. nd[p] \in LeafRecords
    BY LeafRecord
  <2>3. next \in Page \cup {NoPage}
    BY <2>2, LeafFields
  <2> QED
    BY <2>1, <2>3 DEF Tree, Typed
<1>3. k \in 1 .. n /\ k # 1 /\ k \in Nat /\ k - 1 \in 1 .. n
  BY <1>1, <1>2, SizeAssumption DEF SplitAt
<1>4. full \in LeafRecords
  BY <1>1, <1>2, LeafMade
<1> HIDE DEF k
<1>5. KeptBySplit(full, k) = LeafWith(left, next) /\ MovedBySplit(full, k) = right
      /\ full.next = next
  <2>1. k \in 1 .. Len(full.entries) + 1
    BY <1>3, <1>2
  <2>2. full.next = next
    BY <1>1 DEF LeafWith
  <2> QED
    BY <2>1, <2>2, <1>4, LeafCut
<1> HIDE DEF v, n
<1>6. /\ v[k] \in Entry /\ Rank(v[k]) \in Int /\ lo[p] < Rank(v[k]) /\ Rank(v[k]) < hi[p]
      /\ Filed(left, lo[p], Rank(v[k])) /\ Filed(right, Rank(v[k]), hi[p])
  <2>1. k \in 1 .. Len(v) /\ lo[p] \in Int /\ hi[p] \in Int
    BY <1>2, <1>3 DEF n
  <2> QED
    BY <2>1, <1>1, <1>3, FiledCut DEF n
<1>7. p \in Pages(nd) /\ q \notin Pages(nd) /\ q # p
  BY DEF Pages, Free
<1>8. /\ nd2[p] = LeafWith(left, q) /\ nd2[q] = LeafWith(right, next)
      /\ \A z \in Page : z # p /\ z # q => nd2[z] = nd[z]
      /\ DOMAIN nd2 = Page
  <2>1. \A s, m, m2 : [LeafWith(s, m) EXCEPT !.next = m2] = LeafWith(s, m2)
    BY DEF LeafWith
  <2>2. \A s, m : [EmptyLeaf(m) EXCEPT !.entries = s] = LeafWith(s, m)
    BY DEF LeafWith, EmptyLeaf
  <2> DEFINE a == LeftLeaf(full, q)
             b == RightLeaf(full)
  <2> HIDE DEF left, right, next
  <2>6. KeptBySplit(full, SplitAt) = LeafWith(left, next)
        /\ MovedBySplit(full, SplitAt) = right /\ full.next = next
    BY <1>5 DEF k
  <2>3. a = LeafWith(left, q) /\ b = LeafWith(right, next)
    BY <2>6, <2>1, <2>2 DEF LeftLeaf, RightLeaf
  <2>4. nd2 = [nd EXCEPT ![p] = a, ![q] = b] /\ nd \in [Page -> PageRecords]
    BY LeafRecord DEF Put
  <2> HIDE DEF a, b
  <2>5. nd2[p] = a /\ nd2[q] = b /\ DOMAIN nd2 = Page
        /\ \A z \in Page : z # p /\ z # q => nd2[z] = nd[z]
    BY <2>4, <1>7
  <2> QED
    BY <2>3, <2>5
<1>9. left \in Seq(Entry) /\ right \in Seq(Entry) /\ right # <<>> /\ Head(right) = v[k]
  <2>1. left \in Seq(Entry) /\ right \in Seq(Entry)
    BY <1>6 DEF Filed
  <2>2. Len(right) = n - k + 1 /\ \A j \in 1 .. n - k + 1 : right[j] = v[j + k - 1]
    BY <1>2, <1>3, Cut DEF n
  <2>3. Len(right) >= 1 /\ right[1] = v[k]
    BY <2>2, <1>2, <1>3
  <2> HIDE DEF right
  <2> QED
    BY <2>1, <2>3
<1>10. Separator(nd2[q]) = v[k] /\ x = Rank(v[k])
  <2>2. LeafWith(right, next).entries = right
    BY DEF LeafWith
  <2>1. nd2[q].entries = right
    BY ONLY <1>8, <2>2
  <2> HIDE DEF right
  <2> QED
    BY <2>1, <1>9 DEF Separator
<1>11. /\ nd2[p].kind = "leaf" /\ nd2[p].entries = left /\ nd2[p].next = q
       /\ nd2[q].kind = "leaf" /\ nd2[q].entries = right /\ nd2[q].next = next
       /\ nd2[p] \in LeafRecords /\ nd2[q] \in LeafRecords
  <2> HIDE DEF left, right, next
  <2>1. \A s \in Seq(Entry), m \in Page \cup {NoPage} :
          /\ LeafWith(s, m) \in LeafRecords /\ LeafWith(s, m).entries = s
          /\ LeafWith(s, m).kind = "leaf" /\ LeafWith(s, m).next = m
    BY LeafMade
  <2>2. q \in Page \cup {NoPage}
    OBVIOUS
  <2> DEFINE a == LeafWith(left, q)
             b == LeafWith(right, next)
  <2>3. a.kind = "leaf" /\ a.entries = left /\ a.next = q /\ a \in LeafRecords
    BY <2>1, <2>2, <1>9
  <2>4. b.kind = "leaf" /\ b.entries = right /\ b.next = next /\ b \in LeafRecords
    BY <2>1, <1>2, <1>9
  <2>5. nd2[p] = a /\ nd2[q] = b
    BY <1>8
  <2> HIDE DEF a, b
  <2> QED
    BY <2>3, <2>4, <2>5
<1>12. nd2 \in [Page -> PageRecords]
  <2>1. nd \in [Page -> PageRecords] /\ \A z \in LeafRecords : z \in PageRecords
    BY LeafRecord DEF PageRecords
  <2>2. \A z \in Page : nd2[z] \in PageRecords
    BY <2>1, <1>8, <1>11
  <2>3. nd2 = [z \in Page |-> nd2[z]]
    BY LeafRecord DEF Put
  <2> HIDE DEF left, right, next
  <2> QED
    BY <2>2, <2>3
<1> DEFINE pend2 == [pend EXCEPT ![p] = q]
           lv2 == [lv EXCEPT ![q] = lv[p]]
           lo2 == [lo EXCEPT ![q] = x]
           hi2 == [hi EXCEPT ![p] = x, ![q] = hi[p]]
<1>13. /\ lv[p] = 0 /\ (next = NoPage <=> hi[p] = Ceiling)
       /\ next # NoPage => next \in Pages(nd) /\ nd[next].kind = "leaf" /\ lo[next] = hi[p]
  BY NextLeaf
<1>14. /\ lv2[p] = lv[p] /\ lv2[q] = lv[p] /\ lo2[p] = lo[p] /\ lo2[q] = x
       /\ hi2[p] = x /\ hi2[q] = hi[p] /\ \A z \in Page : z # q => lo2[z] = lo[z]
  BY <1>7 DEF Tree, Typed
<1>15. hi[p] <= Ceiling /\ Ceiling \in Int
  BY <1>7, EndsAfter, Ranked
<1> HIDE DEF left, right, next, lv2, lo2, hi2, pend2
<1>21. Filed(nd2[p].entries, lo2[p], hi2[p]) /\ Filed(nd2[q].entries, lo2[q], hi2[q])
  BY <1>6, <1>10, <1>11, <1>14
<1>22. lv2[p] = 0 /\ lv2[q] = 0
  BY <1>13, <1>14
<1>16. PageOK(nd2, pend2, lv2, lo2, hi2, p)
  <2>1. hi2[p] # Ceiling
    BY <1>6, <1>10, <1>14, <1>15, <1>2
  <2>3. nd2[p].next = q /\ nd2[q].kind = "leaf" /\ lo2[q] = hi2[p]
    BY <1>11, <1>14
  <2>2. LeafOK(nd2, lv2, lo2, hi2, p)
    BY <2>1, <2>3, <1>21, <1>22 DEF LeafOK
  <2> QED
    BY <2>2, <1>11 DEF PageOK
<1>17. PageOK(nd2, pend2, lv2, lo2, hi2, q)
  <2>1. CASE next = NoPage
    <3>1. LeafOK(nd2, lv2, lo2, hi2, q)
      BY <2>1, <1>11, <1>13, <1>14, <1>21, <1>22 DEF LeafOK
    <3> QED
      BY <3>1, <1>11 DEF PageOK
  <2>2. CASE next # NoPage
    <3>1. next \in Page /\ next # q /\ next # p
      BY <2>2, <1>2, <1>6, <1>7, <1>13, <1>10 DEF Pages
    <3>2. nd2[next].kind = "leaf" /\ lo2[next] = hi[p] /\ hi[p] # Ceiling
      BY <2>2, <3>1, <1>8, <1>13, <1>14
    <3>3. LeafOK(nd2, lv2, lo2, hi2, q)
      BY <3>1, <3>2, <1>11, <1>14, <1>21, <1>22 DEF LeafOK
    <3> QED
      BY <3>3, <1>11 DEF PageOK
  <2> QED
    BY <2>1, <2>2
<1>18. \A c : ChildOf(nd, c, p) => ChildOf(nd2, c, p) \/ ChildOf(nd2, c, q)
  BY DEF ChildOf
<1>19. x \in Int /\ lo[p] < x /\ x < hi[p]
  BY <1>6, <1>10
<1>23. /\ pend2 = [pend EXCEPT ![p] = q] /\ lv2 = [lv EXCEPT ![q] = lv[p]]
       /\ lo2 = [lo EXCEPT ![q] = x] /\ hi2 = [hi EXCEPT ![p] = x, ![q] = hi[p]]
  BY DEF pend2, lv2, lo2, hi2
<1>24. nd2[p].kind = "leaf" /\ \A z \in Page : z # p /\ z # q => nd2[z] = nd[z]
  BY <1>8, <1>11
<1>20. Tree(nd2, top, pend2, lv2, lo2, hi2)
  <2>1. CutInTwo(nd, pend, lv, lo, hi, p, q, x, nd2, pend2, lv2, lo2, hi2)
    BY <1>7, <1>12, <1>16, <1>17, <1>18, <1>19, <1>23, <1>24 DEF CutInTwo
  <2> QED
    BY <2>1, Split
<1> QED
  BY <1>6, <1>7, <1>10, <1>20 DEF pend2, lv2, lo2, hi2, Put

-----------------------------------------------------------------------------
(* Changes of internal pages.                                              *)

LEMMA NodeMade ==
  ASSUME NEW u \in Seq(Page), NEW w \in Seq(Entry)
  PROVE  /\ InternalNode(u, w) \in NodeRecords /\ InternalNode(u, w) \in PageRecords
         /\ InternalNode(u, w).kind = "internal"
         /\ InternalNode(u, w).children = u /\ InternalNode(u, w).seps = w
BY DEF InternalNode, NodeRecords, PageRecords

\* The place of a child under its parent.
LEMMA Placed ==
  ASSUME NEW nd, NEW top, NEW pend, NEW lv, NEW lo, NEW hi, Tree(nd, top, pend, lv, lo, hi),
         EntriesBounded, NEW p, NEW c, ChildOf(nd, c, p)
  PROVE  \E i \in 1 .. Len(nd[p].children) :
           /\ nd[p].children[i] = c /\ value_idx(nd[p], c) = i - 1
           /\ i \in 1 .. Len(nd[p].seps) + 1 /\ Len(nd[p].seps) \in Nat
<1>1. p \in Page /\ nd[p].kind = "internal"
  BY DEF ChildOf
<1>2. PICK i \in 1 .. Len(nd[p].children) : nd[p].children[i] = c
  BY DEF ChildOf
<1>3. /\ nd[p].children \in Seq(Page)
      /\ \A j \in 1 .. Len(nd[p].children) : nd[p].children[j] = nd[p].children[i] => j = i
      /\ Len(nd[p].children) = Len(nd[p].seps) + 1 /\ Len(nd[p].seps) \in Nat
  BY SMTT(60), <1>1, Children
<1>4. value_idx(nd[p], nd[p].children[i]) = i - 1
  BY <1>3, ChildIndex
<1> QED
  BY <1>2, <1>3, <1>4

Refilled(n, s, t) == [n EXCEPT !.seps = s, !.children = t]

LEMMA NodeUpdated ==
  ASSUME NEW n, NEW u, NEW w, n = InternalNode(u, w), NEW s, NEW t
  PROVE  Refilled(n, s, t) = InternalNode(t, s)
<1>1. [n EXCEPT !.seps = s, !.children = t] = [[n EXCEPT !.seps = s] EXCEPT !.children = t]
  OBVIOUS
<1>2. [n EXCEPT !.seps = s] = InternalNode(u, s)
  BY DEF InternalNode
<1>3. [InternalNode(u, s) EXCEPT !.children = t] = InternalNode(t, s)
  BY DEF InternalNode
<1> QED
  BY <1>1, <1>2, <1>3 DEF Refilled

LEMMA InsertedAfter ==
  ASSUME NEW n, NEW u, NEW w, n = InternalNode(u, w), NEW c, NEW s, NEW q, NEW m \in Nat,
         value_idx(n, c) = m - 1
  PROVE  insert_after(n, c, s, q) = InternalNode(InsertAt(u, m + 1, q), InsertAt(w, m, s))
<1>1. n.children = u /\ n.seps = w
  BY DEF InternalNode
<1>2. value_idx(n, c) + 1 = m
  OBVIOUS
<1> DEFINE a == InsertAt(n.seps, m, s)
           b == InsertAt(n.children, m + 1, q)
<1>3. insert_after(n, c, s, q) = Refilled(n, a, b)
  BY <1>2 DEF insert_after, Refilled
<1> HIDE DEF a, b
<1>5. Refilled(n, a, b) = InternalNode(b, a)
  BY NodeUpdated
<1>4. insert_after(n, c, s, q) = InternalNode(b, a)
  BY <1>3, <1>5
<1> QED
  BY <1>1, <1>4 DEF a, b

LEMMA SlotRemoved ==
  ASSUME NEW n, NEW u, NEW w, n = InternalNode(u, w), NEW m
  PROVE  remove_slot(n, m) = InternalNode(RemoveAt(u, m + 1), RemoveAt(w, m))
<1>1. n.children = u /\ n.seps = w
  BY DEF InternalNode
<1> DEFINE a == RemoveAt(n.seps, m)
           b == RemoveAt(n.children, m + 1)
<1>2. remove_slot(n, m) = Refilled(n, a, b)
  BY DEF remove_slot, Refilled
<1> HIDE DEF a, b
<1>4. Refilled(n, a, b) = InternalNode(b, a)
  BY NodeUpdated
<1>3. remove_slot(n, m) = InternalNode(b, a)
  BY <1>2, <1>4
<1> QED
  BY <1>1, <1>3 DEF a, b

\* insert_into_parent where there is room: the half that was split off gets its
\* place right of the one it was split from, and the pages are a tree again.
THEOREM ParentGains ==
  ASSUME NEW nd, NEW top, NEW pend, NEW lv, NEW lo, NEW hi, Tree(nd, top, pend, lv, lo, hi),
         EntriesBounded, NEW p, NEW l, ChildOf(nd, l, p),
         NEW q \in Page, q = pend[l], NEW s \in Entry, Rank(s) = lo[q]
  PROVE  /\ Tree(Put(nd, p, insert_after(nd[p], l, s, q)), top, Put(pend, l, NoPage),
                 lv, lo, hi)
         /\ \E u \in Seq(Page), w \in Seq(Entry) :
              /\ insert_after(nd[p], l, s, q) = InternalNode(u, w)
              /\ Len(u) = num_children(nd[p]) + 1 /\ Len(w) = num_children(nd[p])
              /\ num_children(nd[p]) \in Nat
<1>1. p \in Page /\ nd[p].kind = "internal"
  BY DEF ChildOf
<1> DEFINE c == nd[p].children
           v == nd[p].seps
<1>2. PICK m \in 1 .. Len(c) : c[m] = l /\ value_idx(nd[p], l) = m - 1 /\ m \in 1 .. Len(v) + 1
  BY Placed
<1>3. /\ c \in Seq(Page) /\ v \in Seq(Entry) /\ nd[p] = InternalNode(c, v)
      /\ Len(c) = Len(v) + 1 /\ Len(v) \in Nat
  BY <1>1, Children
<1> DEFINE u == InsertAt(c, m + 1, q)
           w == InsertAt(v, m, s)
<1> HIDE DEF c, v
<1>4. insert_after(nd[p], l, s, q) = InternalNode(u, w)
  BY <1>2, <1>3, InsertedAfter
<1>5. u \in Seq(Page) /\ Len(u) = Len(c) + 1
  <2> DEFINE g == m + 1
  <2>1. g \in 1 .. Len(c) + 1
    BY <1>3
  <2> HIDE DEF g
  <2>2. InsertAt(c, g, q) \in Seq(Page) /\ Len(InsertAt(c, g, q)) = Len(c) + 1
    BY <2>1, <1>3, PageInserted
  <2> QED
    BY <2>2 DEF g
<1>6. w \in Seq(Entry) /\ Len(w) = Len(v) + 1
  BY <1>2, <1>3, EntryInserted
<1>7. Tree([nd EXCEPT ![p] = InternalNode(u, w)], top, [pend EXCEPT ![l] = NoPage], lv, lo, hi)
  <2>1. m \in 1 .. Len(nd[p].children) /\ l = nd[p].children[m]
    BY <1>2 DEF c
  <2> QED
    BY <1>1, <2>1, Adopted DEF c, v
<1>8. num_children(nd[p]) = Len(c)
  BY DEF num_children, c
<1> HIDE DEF u, w
<1> QED
  BY <1>3, <1>4, <1>5, <1>6, <1>7, <1>8 DEF Put

\* The children of a page are elsewhere.
LEMMA ChildrenApart ==
  ASSUME NEW nd, NEW top, NEW pend, NEW lv, NEW lo, NEW hi, Tree(nd, top, pend, lv, lo, hi),
         EntriesBounded, NEW p \in Page, nd[p].kind = "internal"
  PROVE  \A i \in 1 .. Len(nd[p].children) :
           /\ nd[p].children[i] \in Pages(nd) /\ nd[p].children[i] \in Page
           /\ lv[nd[p].children[i]] + 1 = lv[p] /\ lv[nd[p].children[i]] \in Nat
<1>1. \A i \in 1 .. Len(nd[p].children) :
        nd[p].children[i] \in Pages(nd) /\ lv[nd[p].children[i]] + 1 = lv[p]
  BY Children
<1> QED
  BY <1>1 DEF Tree, Typed, Pages

\* An internal page cut in two after its k-th child.
LEMMA NodeCut ==
  ASSUME NEW nd, NEW top, NEW pend, NEW lv, NEW lo, NEW hi, Tree(nd, top, pend, lv, lo, hi),
         EntriesBounded, NEW p \in Page, nd[p].kind = "internal",
         pend[p] = NoPage, \A r \in Page : pend[r] # p,
         NEW u, u = nd[p].children, NEW w, w = nd[p].seps,
         NEW k \in 1 .. Len(w), NEW z \in Page, nd[z] = Free,
         NEW x, x = Rank(w[k]),
         NEW nd2, nd2 = Put(Put(nd, p, InternalNode(SubSeq(u, 1, k), SubSeq(w, 1, k - 1))),
            z, InternalNode(SubSeq(u, k + 1, Len(u)), SubSeq(w, k + 1, Len(w))))
  PROVE  /\ w[k] \in Entry
         /\ Tree(nd2, top, Put(pend, p, z), Put(lv, z, lv[p]), Put(lo, z, x),
                 Put(Put(hi, p, x), z, hi[p]))
<1> DEFINE end == Ends(pend, hi)
           u1 == SubSeq(u, 1, k)
           w1 == SubSeq(w, 1, k - 1)
           u2 == SubSeq(u, k + 1, Len(u))
           w2 == SubSeq(w, k + 1, Len(w))
           pend2 == [pend EXCEPT ![p] = z]
           lv2 == [lv EXCEPT ![z] = lv[p]]
           lo2 == [lo EXCEPT ![z] = x]
           hi2 == [hi EXCEPT ![p] = x, ![z] = hi[p]]
           end2 == Ends(pend2, hi2)
<1>1. /\ p \in Pages(nd) /\ Row(u, w, lo[p], hi[p], lv[p], Pages(nd), lv, lo, end)
      /\ u \in Seq(Page) /\ w \in Seq(Entry) /\ Len(u) = Len(w) + 1 /\ Len(w) \in Nat
  BY Children DEF NodeOK
<1>2. /\ z \notin Pages(nd) /\ z # p /\ lo[p] \in Int /\ hi[p] \in Int /\ lv[p] \in Nat
      /\ \A y \in Page : pend[y] # z
  <2>1. z \notin Pages(nd) /\ z # p
    BY <1>1 DEF Pages, Free
  <2>2. \A y \in Page : pend[y] # z
    BY <2>1, NoPageIsNone DEF Tree, Halves
  <2> QED
    BY <2>1, <2>2 DEF Tree, Typed
<1> HIDE DEF end
<1>3. /\ Row(u1, w1, lo[p], x, lv[p], Pages(nd), lv, lo, end)
      /\ Row(u2, w2, x, hi[p], lv[p], Pages(nd), lv, lo, end)
      /\ w[k] \in Entry /\ lo[p] < x /\ x < hi[p]
  BY <1>1, <1>2, RowCut
<1>4. x \in Int
  BY <1>3, Ranked
<1>5. /\ u1 \in Seq(Page) /\ w1 \in Seq(Entry) /\ u2 \in Seq(Page) /\ w2 \in Seq(Entry)
  BY <1>3 DEF Row
<1>6. /\ Len(u1) = k /\ Len(u2) = Len(u) - k
      /\ \A j \in 1 .. k : u1[j] = u[j]
      /\ \A j \in 1 .. Len(u) - k : u2[j] = u[j + k]
      /\ k <= Len(u) /\ Len(u) \in Nat /\ k \in Nat
  <2> DEFINE g == k + 1
             n == Len(u)
  <2>0. n \in Nat /\ k \in Nat /\ 1 <= k /\ k <= n
    BY <1>1
  <2>1. 1 \in 1 .. n + 1 /\ k \in 0 .. n /\ 1 <= k + 1 /\ n \in Nat
    BY <2>0
  <2>2. g \in 1 .. n + 1 /\ n \in 0 .. n /\ g <= n + 1 /\ n - g + 1 = n - k
        /\ \A j \in 1 .. n - k : j + g - 1 = j + k
    <3> HIDE DEF n
    <3> QED
      BY <2>0
  <2> HIDE DEF g, n, u1, u2
  <2>3. Len(SubSeq(u, 1, k)) = k - 1 + 1 /\ \A j \in 1 .. k - 1 + 1 : SubSeq(u, 1, k)[j] = u[j + 1 - 1]
    BY <2>1, <1>1, Cut DEF n
  <2>4. Len(SubSeq(u, g, n)) = n - g + 1 /\ \A j \in 1 .. n - g + 1 : SubSeq(u, g, n)[j] = u[j + g - 1]
    BY <2>2, <1>1, Cut DEF n
  <2>5. Len(u1) = k /\ \A j \in 1 .. k : u1[j] = u[j]
    BY <2>1, <2>3 DEF u1
  <2>6. Len(u2) = n - k /\ \A j \in 1 .. n - k : u2[j] = u[j + k]
    BY <2>2, <2>4 DEF u2, g, n
  <2> QED
    BY <2>1, <2>5, <2>6 DEF n
<1> HIDE DEF u1, w1, u2, w2
<1>7. /\ nd2[p] = InternalNode(u1, w1) /\ nd2[z] = InternalNode(u2, w2)
      /\ \A y \in Page : y # p /\ y # z => nd2[y] = nd[y]
      /\ nd2 \in [Page -> PageRecords]
  <2> DEFINE a == InternalNode(u1, w1)
             b == InternalNode(u2, w2)
  <2>1. nd2 = [nd EXCEPT ![p] = a, ![z] = b] /\ nd \in [Page -> PageRecords]
    BY DEF Tree, Typed, u1, w1, u2, w2, Put
  <2>2. a \in PageRecords /\ b \in PageRecords
    BY <1>5, NodeMade
  <2> HIDE DEF a, b
  <2>3. /\ nd2[p] = a /\ nd2[z] = b /\ \A y \in Page : y # p /\ y # z => nd2[y] = nd[y]
        /\ nd2 \in [Page -> PageRecords]
    BY <2>1, <2>2, <1>2
  <2> QED
    BY <2>3 DEF a, b
<1>8. /\ nd2[p].kind = "internal" /\ nd2[p].children = u1 /\ nd2[p].seps = w1
      /\ nd2[z].kind = "internal" /\ nd2[z].children = u2 /\ nd2[z].seps = w2
  BY <1>5, <1>7, NodeMade
<1>9. /\ lv2[z] = lv[p] /\ \A y \in Page : y # z => lv2[y] = lv[y]
      /\ lo2[z] = x /\ \A y \in Page : y # z => lo2[y] = lo[y]
      /\ hi2[p] = x /\ hi2[z] = hi[p] /\ \A y \in Page : y # z /\ y # p => hi2[y] = hi[y]
      /\ pend2[p] = z /\ \A y \in Page : y # p => pend2[y] = pend[y]
  BY <1>2 DEF Tree, Typed
<1>10. /\ pend2 = [pend EXCEPT ![p] = z] /\ lv2 = [lv EXCEPT ![z] = lv[p]]
       /\ lo2 = [lo EXCEPT ![z] = x] /\ hi2 = [hi EXCEPT ![p] = x, ![z] = hi[p]]
  OBVIOUS
<1> HIDE DEF pend2, lv2, lo2, hi2
<1>11. Pages(nd2) = Pages(nd) \cup {z}
  <2>1. nd2[p].kind = "internal" /\ nd2[z].kind = "internal"
    BY <1>8
  <2>2. \A y \in Page : y # p /\ y # z => nd2[y] = nd[y]
    BY <1>7
  <2> QED
    BY ONLY <2>1, <2>2, p \in Page, z \in Page, nd[p].kind = "internal" DEF Pages
<1>12. \A y \in Page : y # p /\ y # z => end2[y] = end[y]
  <2> SUFFICES ASSUME NEW y \in Page, y # p, y # z PROVE end2[y] = end[y]
    OBVIOUS
  <2>1. end2[y] = (IF pend2[y] = NoPage THEN hi2[y] ELSE hi2[pend2[y]])
    BY EndsAt
  <2>2. end[y] = (IF pend[y] = NoPage THEN hi[y] ELSE hi[pend[y]])
    BY EndsAt DEF end
  <2>3. pend2[y] = pend[y] /\ hi2[y] = hi[y] /\ pend[y] \in Page \cup {NoPage}
    BY <1>9 DEF Tree, Typed
  <2>4. pend[y] # NoPage => hi2[pend[y]] = hi[pend[y]]
    BY <2>3, <1>2, <1>9
  <2> HIDE DEF end2
  <2> QED
    BY <2>1, <2>2, <2>3, <2>4
<1> HIDE DEF end2
<1>13. \A i \in 1 .. Len(u) : /\ u[i] \in Pages(nd) /\ u[i] \in Page /\ u[i] # p /\ u[i] # z
  <2>1. \A i \in 1 .. Len(u) : u[i] \in Pages(nd) /\ u[i] \in Page /\ lv[u[i]] + 1 = lv[p]
                               /\ lv[u[i]] \in Nat
    BY ChildrenApart
  <2> QED
    BY <2>1, <1>2
<1>14. \A i \in 1 .. Len(u) :
         /\ u[i] \in Pages(nd2) /\ lv2[u[i]] = lv[u[i]] /\ lo2[u[i]] = lo[u[i]]
         /\ end2[u[i]] = end[u[i]]
  BY <1>9, <1>11, <1>12, <1>13
<1>15. PageOK(nd2, pend2, lv2, lo2, hi2, p)
  <2>1. \A i \in 1 .. Len(u1) :
         /\ u1[i] \in Pages(nd2) /\ lv2[u1[i]] = lv[u1[i]] /\ lo2[u1[i]] = lo[u1[i]]
         /\ end2[u1[i]] = end[u1[i]]
    <3> SUFFICES ASSUME NEW i \in 1 .. Len(u1)
                 PROVE  /\ u1[i] \in Pages(nd2) /\ lv2[u1[i]] = lv[u1[i]]
                        /\ lo2[u1[i]] = lo[u1[i]] /\ end2[u1[i]] = end[u1[i]]
      OBVIOUS
    <3>1. i \in 1 .. Len(u) /\ u1[i] = u[i]
      BY <1>6
    <3> QED
      BY <3>1, <1>14
  <2>2. Row(u1, w1, lo[p], x, lv[p], Pages(nd2), lv2, lo2, end2)
    BY <2>1, <1>3 DEF Row
  <2>3. lo2[p] = lo[p] /\ hi2[p] = x /\ lv2[p] = lv[p]
    BY <1>2, <1>9
  <2> QED
    BY <2>2, <2>3, <1>8 DEF PageOK, NodeOK, end2
<1>16. PageOK(nd2, pend2, lv2, lo2, hi2, z)
  <2>1. \A i \in 1 .. Len(u2) :
         /\ u2[i] \in Pages(nd2) /\ lv2[u2[i]] = lv[u2[i]] /\ lo2[u2[i]] = lo[u2[i]]
         /\ end2[u2[i]] = end[u2[i]]
    <3> SUFFICES ASSUME NEW i \in 1 .. Len(u2)
                 PROVE  /\ u2[i] \in Pages(nd2) /\ lv2[u2[i]] = lv[u2[i]]
                        /\ lo2[u2[i]] = lo[u2[i]] /\ end2[u2[i]] = end[u2[i]]
      OBVIOUS
    <3>1. i + k \in 1 .. Len(u) /\ u2[i] = u[i + k]
      BY <1>1, <1>6
    <3> QED
      BY <3>1, <1>14
  <2>2. Row(u2, w2, x, hi[p], lv[p], Pages(nd2), lv2, lo2, end2)
    BY <2>1, <1>3 DEF Row
  <2>3. lo2[z] = x /\ hi2[z] = hi[p] /\ lv2[z] = lv[p]
    BY <1>2, <1>9
  <2> QED
    BY <2>2, <2>3, <1>8 DEF PageOK, NodeOK, end2
<1>17. \A c : ChildOf(nd, c, p) => ChildOf(nd2, c, p) \/ ChildOf(nd2, c, z)
  <2> SUFFICES ASSUME NEW c, ChildOf(nd, c, p)
               PROVE  ChildOf(nd2, c, p) \/ ChildOf(nd2, c, z)
    OBVIOUS
  <2>1. PICK i \in 1 .. Len(u) : u[i] = c
    BY DEF ChildOf
  <2>2. CASE i <= k
    <3>1. i \in 1 .. Len(u1) /\ u1[i] = c
      BY SMTT(60), <2>1, <2>2, <1>6
    <3> QED
      BY <3>1, <1>8 DEF ChildOf
  <2>3. CASE i > k
    <3> DEFINE n == Len(u)
    <3>3. n \in Nat /\ i \in 1 .. n /\ k \in Nat /\ Len(u2) = n - k
      BY <2>1, <1>6
    <3> HIDE DEF n
    <3>1. i - k \in 1 .. Len(u2) /\ i - k \in 1 .. n - k /\ (i - k) + k = i
      BY <3>3, <2>3
    <3>2. u2[i - k] = c
      BY SMTT(60), <3>1, <2>1, <1>6 DEF n
    <3> QED
      BY <3>1, <3>2, <1>8 DEF ChildOf
  <2> QED
    BY <2>1, <2>2, <2>3, <1>1
<1>18. CutInTwo(nd, pend, lv, lo, hi, p, z, x, nd2, pend2, lv2, lo2, hi2)
  BY <1>1, <1>2, <1>3, <1>4, <1>7, <1>10, <1>15, <1>16, <1>17 DEF CutInTwo
<1>19. Tree(nd2, top, pend2, lv2, lo2, hi2)
  BY <1>18, Split
<1> QED
  BY <1>3, <1>19 DEF pend2, lv2, lo2, hi2, Put


\* insert_into_parent where there is no room: the parent is split, the separator
\* that goes up lies between its halves, and only the right half has no parent.
THEOREM ParentHalved ==
  ASSUME NEW nd, NEW top, NEW pend, NEW lv, NEW lo, NEW hi, Tree(nd, top, pend, lv, lo, hi),
         EntriesBounded, NEW p, NEW l, ChildOf(nd, l, p),
         NEW q \in Page, q = pend[l], NEW s \in Entry, Rank(s) = lo[q],
         pend[p] = NoPage, \A r \in Page : pend[r] # p,
         num_children(nd[p]) >= InternalMax, NEW z \in Page, nd[z] = Free,
         NEW nd2, nd2 = Put(Put(nd, p, LeftOfSplit(nd[p], l, s, q)),
                            z, RightOfSplit(nd[p], l, s, q)),
         NEW x, x = Rank(PromotedBySplit(nd[p], l, s, q))
  PROVE  /\ PromotedBySplit(nd[p], l, s, q) \in Entry /\ z # p
         /\ Tree(nd2, top, Put(Put(pend, l, NoPage), p, z), Put(lv, z, lv[p]),
                 Put(lo, z, x), Put(Put(hi, p, x), z, hi[p]))
<1> DEFINE whole == insert_after(nd[p], l, s, q)
           nd1 == Put(nd, p, whole)
           pend1 == Put(pend, l, NoPage)
           k == SplitSize(nd[p])
<1>1. Tree(nd1, top, pend1, lv, lo, hi)
  BY ParentGains
<1>2. PICK u \in Seq(Page), w \in Seq(Entry) :
        /\ whole = InternalNode(u, w)
        /\ Len(u) = num_children(nd[p]) + 1 /\ Len(w) = num_children(nd[p])
        /\ num_children(nd[p]) \in Nat
  BY ParentGains
<1>3. k \in 1 .. Len(w)
  <2> DEFINE n == num_children(nd[p])
  <2>1. n \in Nat /\ n >= 2 /\ k = (n + 1) \div 2 /\ Len(w) = n
    BY <1>2, SizeAssumption DEF SplitSize
  <2> HIDE DEF n, k
  <2> QED
    BY <2>1
<1>4. /\ p \in Page /\ nd[p].kind = "internal" /\ p # l /\ p # z /\ l \in Page
      /\ nd \in [Page -> PageRecords] /\ pend \in [Page -> Page \cup {NoPage}]
  <2>1. p \in Pages(nd) /\ l \in Pages(nd) /\ l # p
    BY ChildRange
  <2>2. p # z
    BY <2>1 DEF Pages, Free
  <2> QED
    BY <2>1, <2>2 DEF Pages, ChildOf, Tree, Typed
<1>5. /\ whole.kind = "internal" /\ whole.children = u /\ whole.seps = w
  BY <1>2, NodeMade
<1> HIDE DEF whole, k
<1>6. /\ nd1[p] = whole /\ nd1[z] = Free /\ \A y \in Page : y # p => nd1[y] = nd[y]
      /\ pend1[p] = NoPage /\ \A r \in Page : pend1[r] # p
  <2>1. /\ nd1[p] = whole /\ nd1[z] = Free /\ \A y \in Page : y # p => nd1[y] = nd[y]
    BY <1>4 DEF Put
  <2>2. pend1[p] = NoPage /\ \A r \in Page : pend1[r] # p
    BY <1>4, NoPageIsNone DEF Put
  <2> QED
    BY <2>1, <2>2
<1> DEFINE a == InternalNode(SubSeq(u, 1, k), SubSeq(w, 1, k - 1))
           b == InternalNode(SubSeq(u, k + 1, Len(u)), SubSeq(w, k + 1, Len(w)))
<1>7. /\ LeftOfSplit(nd[p], l, s, q) = a /\ RightOfSplit(nd[p], l, s, q) = b
      /\ PromotedBySplit(nd[p], l, s, q) = w[k]
  BY <1>5 DEF LeftOfSplit, RightOfSplit, PromotedBySplit, whole, k
<1>8. nd2 = Put(Put(nd1, p, a), z, b)
  <2> HIDE DEF a, b
  <2>1. nd2 = Put(Put(nd, p, a), z, b)
    BY <1>7
  <2>2. Put(nd1, p, a) = Put(nd, p, a)
    BY <1>4 DEF Put
  <2> QED
    BY <2>1, <2>2
<1>9. nd1[p].kind = "internal" /\ nd1[p].children = u /\ nd1[p].seps = w
  BY <1>5, <1>6
<1>10. x = Rank(w[k])
  BY <1>7
<1> HIDE DEF nd1, pend1
<1>11. /\ w[k] \in Entry
       /\ Tree(nd2, top, Put(pend1, p, z), Put(lv, z, lv[p]), Put(lo, z, x),
               Put(Put(hi, p, x), z, hi[p]))
  BY <1>1, <1>3, <1>4, <1>6, <1>8, <1>9, <1>10, NodeCut, SMTT(60) DEF a, b
<1> QED
  BY <1>4, <1>7, <1>11 DEF pend1

-----------------------------------------------------------------------------
(* Changes of two neighbours.                                              *)

\* The leaves are the pages of level 0.
LEMMA Lowest ==
  ASSUME NEW nd, NEW top, NEW pend, NEW lv, NEW lo, NEW hi, Tree(nd, top, pend, lv, lo, hi),
         EntriesBounded, NEW p \in Pages(nd)
  PROVE  /\ p \in Page /\ lv[p] \in Nat
         /\ nd[p].kind = "leaf" \/ nd[p].kind = "internal"
         /\ lv[p] = 0 <=> nd[p].kind = "leaf"
<1>1. p \in Page /\ lv[p] \in Nat /\ nd \in [Page -> PageRecords]
  BY DEF Tree, Typed, Pages
<1>2. nd[p].kind = "leaf" \/ nd[p].kind = "internal"
  BY <1>1, Kinds DEF Pages
<1>3. nd[p].kind = "leaf" => lv[p] = 0
  BY <1>1, NextLeaf
<1>4. ASSUME nd[p].kind = "internal" PROVE lv[p] # 0
  <2>1. /\ Len(nd[p].children) = Len(nd[p].seps) + 1 /\ Len(nd[p].seps) \in Nat
        /\ \A i \in 1 .. Len(nd[p].children) : lv[nd[p].children[i]] + 1 = lv[p]
                                              /\ lv[nd[p].children[i]] \in Nat
    BY <1>1, <1>4, Children, ChildrenApart
  <2>2. 1 \in 1 .. Len(nd[p].children)
    BY <2>1
  <2> QED
    BY <2>1, <2>2
<1> QED
  BY <1>1, <1>2, <1>3, <1>4

\* An equation kept folded, so that it is used only where it is expanded.
Is(a, b) == a = b

\* Entries are moved between two leaves.
LEMMA LeavesShiftedHere ==
  ASSUME NEW nd, NEW top, NEW pend, NEW lv, NEW lo, NEW hi, Tree(nd, top, pend, lv, lo, hi),
         EntriesBounded, NEW p \in Page, nd[p].kind = "internal",
         NEW m \in 1 .. Len(nd[p].seps), NEW l, Is(l, nd[p].children[m]),
         NEW r, Is(r, nd[p].children[m + 1]), pend[l] = NoPage, pend[r] = NoPage,
         nd[l].kind = "leaf",
         NEW s \in Entry, lo[l] < Rank(s), Rank(s) < hi[r],
         NEW left, Filed(left, lo[l], Rank(s)), NEW right, Filed(right, Rank(s), hi[r]),
         NEW nd2,
         Is(nd2, Put(Put(Put(nd, l, LeafWith(left, nd[l].next)),
                       r, LeafWith(right, nd[r].next)),
                   p, InternalNode(nd[p].children, Put(nd[p].seps, m, s))))
  PROVE  Tree(nd2, top, pend, lv, Put(lo, r, Rank(s)), Put(hi, l, Rank(s)))
<1> DEFINE x == Rank(s)
           lo2 == Put(lo, r, x)
           hi2 == Put(hi, l, x)
           seps2 == Put(nd[p].seps, m, s)
<1>1. Adjacent(nd, top, pend, lv, lo, hi, p, m, l, r)
  BY Neighbours DEF Is
<1>2. /\ l \in Pages(nd) /\ r \in Pages(nd) /\ l \in Page /\ r \in Page
      /\ l # r /\ l # p /\ r # p /\ lv[l] = lv[r]
      /\ lo[l] \in Int /\ hi[l] \in Int /\ lo[r] \in Int /\ hi[r] \in Int
      /\ lo[l] < hi[l] /\ hi[l] = lo[r] /\ lo[r] < hi[r] /\ hi[r] <= Ceiling
  BY <1>1 DEF Adjacent
<1>3. lv[l] = 0 /\ nd[r].kind = "leaf"
  BY <1>2, Lowest
<1>4. /\ Filed(nd[l].entries, lo[l], hi[l]) /\ nd[l] \in LeafRecords
      /\ nd[l].next = NoPage <=> hi[l] = Ceiling
      /\ nd[l].next # NoPage =>
              /\ nd[l].next \in Pages(nd) /\ nd[nd[l].next].kind = "leaf"
              /\ lo[nd[l].next] = hi[l]
  BY <1>2, NextLeaf
<1>5. /\ Filed(nd[r].entries, lo[r], hi[r]) /\ nd[r] \in LeafRecords
      /\ nd[r].next = NoPage <=> hi[r] = Ceiling
      /\ nd[r].next # NoPage =>
              /\ nd[r].next \in Pages(nd) /\ nd[nd[r].next].kind = "leaf"
              /\ lo[nd[r].next] = hi[r]
  BY <1>2, <1>3, NextLeaf
<1>7. /\ s \in Entry /\ x \in Int /\ lo[l] < x /\ x < hi[r]
      /\ Filed(left, lo[l], x) /\ Filed(right, x, hi[r])
  BY Ranked
<1>8. nd[l].next \in Page \cup {NoPage} /\ nd[r].next \in Page \cup {NoPage}
  BY <1>4, <1>5, LeafFields
<1> DEFINE a == LeafWith(left, nd[l].next)
           b == LeafWith(right, nd[r].next)
           c == InternalNode(nd[p].children, seps2)
<1>9. /\ a \in LeafRecords /\ a.kind = "leaf" /\ a.entries = left /\ a.next = nd[l].next
      /\ b \in LeafRecords /\ b.kind = "leaf" /\ b.entries = right /\ b.next = nd[r].next
  <2>1. left \in Seq(Entry) /\ right \in Seq(Entry)
    BY <1>7 DEF Filed
  <2> QED
    BY <2>1, <1>8, LeafMade
<1>10. /\ nd[p].children \in Seq(Page) /\ nd[p].seps \in Seq(Entry) /\ nd \in [Page -> PageRecords]
       /\ lo \in [Page -> Int] /\ hi \in [Page -> Int]
  BY Children DEF Tree, Typed
<1>11. seps2 \in Seq(Entry) /\ seps2 = [nd[p].seps EXCEPT ![m] = s]
  BY <1>7, <1>10, SMTT(60) DEF Put
<1>12. c \in PageRecords
  BY <1>10, <1>11, NodeMade
<1>13. /\ nd2[l] = a /\ nd2[r] = b /\ nd2[p] = c
       /\ \A z \in Page : z # p /\ z # l /\ z # r => nd2[z] = nd[z]
       /\ nd2 \in [Page -> PageRecords]
  <2>1. nd2 = Put(Put(Put(nd, l, a), r, b), p, c)
    BY DEF Is
  <2>2. a \in PageRecords /\ b \in PageRecords
    BY <1>9 DEF PageRecords
  <2> HIDE DEF a, b, c
  <2> DEFINE f == Put(nd, l, a)
             g == Put(f, r, b)
  <2>3. f \in [Page -> PageRecords] /\ f[l] = a /\ \A z \in Page : z # l => f[z] = nd[z]
    BY <2>2, <1>2, <1>10 DEF Put
  <2>4. nd2 = Put(g, p, c)
    BY <2>1
  <2> HIDE DEF f
  <2>5. g \in [Page -> PageRecords] /\ g[r] = b /\ \A z \in Page : z # r => g[z] = f[z]
    BY <2>2, <2>3, <1>2 DEF Put
  <2> HIDE DEF g
  <2>6. nd2 \in [Page -> PageRecords] /\ nd2[p] = c /\ \A z \in Page : z # p => nd2[z] = g[z]
    BY <2>4, <2>5, <1>12 DEF Put
  <2> QED
    BY <2>3, <2>5, <2>6, <1>2
<1>14. /\ lo2[r] = x /\ \A z \in Page : z # r => lo2[z] = lo[z]
       /\ hi2[l] = x /\ \A z \in Page : z # l => hi2[z] = hi[z]
       /\ lo2 = [lo EXCEPT ![r] = x] /\ hi2 = [hi EXCEPT ![l] = x]
  <2> HIDE DEF x
  <2> QED
    BY <1>2, <1>10 DEF Put
<1>15. nd[l].next = r
  <2>3. Ceiling \in Int
    BY Ranked
  <2>4. hi[l] # Ceiling
    BY <2>3, <1>2
  <2>1. nd[l].next \in Pages(nd) /\ lo[nd[l].next] = hi[l] /\ nd[nd[l].next].kind = "leaf"
    BY <2>4, <1>4
  <2>2. lv[nd[l].next] = 0 /\ lo[nd[l].next] < hi[nd[l].next]
    BY <2>1, Lowest, EndsAfter
  <2> DEFINE z == nd[l].next
  <2> HIDE DEF z
  <2>5. /\ z \in Pages(nd) /\ lv[z] = lv[r] /\ lo[z] <= lo[r] /\ lo[r] < hi[z]
        /\ lo[r] <= lo[r] /\ lo[r] < hi[r] /\ lo[r] \in Int
    BY <2>1, <2>2, <1>2, <1>3 DEF z
  <2>6. z = r
    BY <2>5, <1>2, SamePlace
  <2> QED
    BY <2>6 DEF z
<1>16. nd2[p] = InternalNode(nd[p].children, [nd[p].seps EXCEPT ![m] = s])
  BY <1>11, <1>13
<1> HIDE DEF seps2, a, b, c, lo2, hi2, x
<1>17. PageOK(nd2, pend, lv, lo2, hi2, l)
  <2>1. x # Ceiling
    BY <1>2, <1>7, Ranked
  <2>3. /\ nd2[l].entries = left /\ nd2[l].next = r /\ nd2[r].kind = "leaf"
        /\ lo2[l] = lo[l] /\ hi2[l] = x /\ lo2[r] = x
    BY <1>2, <1>9, <1>13, <1>14, <1>15
  <2>2. LeafOK(nd2, lv, lo2, hi2, l)
    BY ONLY <2>1, <2>3, <1>2, <1>3, <1>7 DEF LeafOK
  <2> QED
    BY <2>2, <1>9, <1>13 DEF PageOK
<1>18. PageOK(nd2, pend, lv, lo2, hi2, r)
  <2>1. CASE hi[r] = Ceiling
    <3>1. LeafOK(nd2, lv, lo2, hi2, r)
      BY <2>1, <1>2, <1>3, <1>5, <1>7, <1>9, <1>13, <1>14 DEF LeafOK
    <3> QED
      BY <3>1, <1>9, <1>13 DEF PageOK
  <2>2. CASE hi[r] # Ceiling
    <3> DEFINE z == nd[r].next
    <3>5. z \in Pages(nd) /\ nd[z].kind = "leaf" /\ lo[z] = hi[r] /\ z # NoPage
      BY <2>2, <1>5
    <3> HIDE DEF z
    <3>1. z \in Page /\ nd[z].kind = "leaf" /\ lo[z] = hi[r] /\ z # r /\ z # p /\ z # NoPage
      BY <3>5, <1>2 DEF Pages
    <3>2. nd2[z].kind = "leaf" /\ lo2[z] = hi[r]
      BY <3>1, <1>9, <1>13, <1>14
    <3>4. nd2[r].next = z
      BY <1>9, <1>13 DEF z
    <3>6. nd2[r].entries = right /\ lo2[r] = x /\ hi2[r] = hi[r] /\ lv[r] = 0
      BY <1>2, <1>3, <1>9, <1>13, <1>14
    <3>3. LeafOK(nd2, lv, lo2, hi2, r)
      BY ONLY <3>1, <3>2, <3>4, <3>6, <2>2, <1>7 DEF LeafOK
    <3> QED
      BY <3>3, <1>9, <1>13 DEF PageOK
  <2> QED
    BY <2>1, <2>2
<1>19. \A d : ChildOf(nd, d, l) \/ ChildOf(nd, d, r) => ChildOf(nd2, d, l) \/ ChildOf(nd2, d, r)
  BY SMTT(60), <1>3 DEF ChildOf
<1>20. BorderShifted(nd, pend, lv, lo, hi, p, m, l, r, s, nd2, lo2, hi2)
  BY <1>7, <1>9, <1>13, <1>14, <1>16, <1>17, <1>18, <1>19 DEF BorderShifted, Is, x
<1>21. Tree(nd2, top, pend, lv, lo2, hi2)
  BY <1>20, Shifted
<1> QED
  BY <1>21 DEF lo2, hi2, x

LEMMA LeavesShifted ==
  ASSUME NEW nd, NEW top, NEW pend, NEW lv, NEW lo, NEW hi, Tree(nd, top, pend, lv, lo, hi),
         EntriesBounded, NEW p \in Page, nd[p].kind = "internal",
         NEW m \in 1 .. Len(nd[p].seps), NEW l, l = nd[p].children[m],
         NEW r, r = nd[p].children[m + 1], pend[l] = NoPage, pend[r] = NoPage,
         nd[l].kind = "leaf",
         NEW s \in Entry, lo[l] < Rank(s), Rank(s) < hi[r],
         NEW left, Filed(left, lo[l], Rank(s)), NEW right, Filed(right, Rank(s), hi[r]),
         NEW nd2,
         nd2 = Put(Put(Put(nd, l, LeafWith(left, nd[l].next)),
                       r, LeafWith(right, nd[r].next)),
                   p, InternalNode(nd[p].children, Put(nd[p].seps, m, s)))
  PROVE  Tree(nd2, top, pend, lv, Put(lo, r, Rank(s)), Put(hi, l, Rank(s)))
BY LeavesShiftedHere DEF Is

\* Children are moved between two internal pages.
LEMMA NodesShiftedHere ==
  ASSUME NEW nd, NEW top, NEW pend, NEW lv, NEW lo, NEW hi, Tree(nd, top, pend, lv, lo, hi),
         EntriesBounded, NEW p \in Page, nd[p].kind = "internal",
         NEW m \in 1 .. Len(nd[p].seps), NEW l, Is(l, nd[p].children[m]),
         NEW r, Is(r, nd[p].children[m + 1]), pend[l] = NoPage, pend[r] = NoPage,
         nd[l].kind = "internal",
         NEW s \in Entry, lo[l] < Rank(s), Rank(s) < hi[r],
         NEW u1, NEW w1, NEW u2, NEW w2,
         Row(u1, w1, lo[l], Rank(s), lv[l], Pages(nd), lv, lo, Ends(pend, hi)),
         Row(u2, w2, Rank(s), hi[r], lv[r], Pages(nd), lv, lo, Ends(pend, hi)),
         \A c : ChildOf(nd, c, l) \/ ChildOf(nd, c, r) =>
           (\E i \in 1 .. Len(u1) : u1[i] = c) \/ (\E i \in 1 .. Len(u2) : u2[i] = c),
         NEW nd2,
         Is(nd2, Put(Put(Put(nd, l, InternalNode(u1, w1)), r, InternalNode(u2, w2)),
                   p, InternalNode(nd[p].children, Put(nd[p].seps, m, s))))
  PROVE  Tree(nd2, top, pend, lv, Put(lo, r, Rank(s)), Put(hi, l, Rank(s)))
<1> DEFINE x == Rank(s)
           end == Ends(pend, hi)
           lo2 == Put(lo, r, x)
           hi2 == Put(hi, l, x)
           end2 == Ends(pend, hi2)
           seps2 == Put(nd[p].seps, m, s)
<1>1. Adjacent(nd, top, pend, lv, lo, hi, p, m, l, r)
  BY Neighbours DEF Is
<1>2. /\ l \in Pages(nd) /\ r \in Pages(nd) /\ l \in Page /\ r \in Page
      /\ l # r /\ l # p /\ r # p /\ lv[l] = lv[r] /\ lv[l] \in Nat
      /\ \A z \in Page : pend[z] # l /\ pend[z] # r
  BY <1>1 DEF Adjacent
<1>3. nd[r].kind = "internal"
  BY <1>2, Lowest
<1>4. /\ nd[p].children \in Seq(Page) /\ nd[p].seps \in Seq(Entry) /\ nd \in [Page -> PageRecords]
      /\ lo \in [Page -> Int] /\ hi \in [Page -> Int]
  BY Children, ZenonT(60) DEF Tree, Typed
<1>5. seps2 \in Seq(Entry) /\ seps2 = [nd[p].seps EXCEPT ![m] = s]
  BY <1>4, SMTT(60) DEF Put
<1> DEFINE a == InternalNode(u1, w1)
           b == InternalNode(u2, w2)
           c == InternalNode(nd[p].children, seps2)
<1>6. /\ a \in PageRecords /\ a.kind = "internal" /\ a.children = u1 /\ a.seps = w1
      /\ b \in PageRecords /\ b.kind = "internal" /\ b.children = u2 /\ b.seps = w2
  <2>1. u1 \in Seq(Page) /\ w1 \in Seq(Entry) /\ u2 \in Seq(Page) /\ w2 \in Seq(Entry)
    BY DEF Row
  <2> QED
    BY <2>1, NodeMade
<1>7. c \in PageRecords /\ c.kind = "internal"
  BY <1>4, <1>5, NodeMade, ZenonT(60)
<1>8. /\ nd2[l] = a /\ nd2[r] = b /\ nd2[p] = c
      /\ \A z \in Page : z # p /\ z # l /\ z # r => nd2[z] = nd[z]
      /\ nd2 \in [Page -> PageRecords]
  <2>1. nd2 = Put(Put(Put(nd, l, a), r, b), p, c)
    BY DEF Is
  <2> HIDE DEF a, b, c
  <2> DEFINE f == Put(nd, l, a)
             g == Put(f, r, b)
  <2>3. f \in [Page -> PageRecords] /\ f[l] = a /\ \A z \in Page : z # l => f[z] = nd[z]
    BY <1>6, <1>2, <1>4 DEF Put
  <2>4. nd2 = Put(g, p, c)
    BY <2>1
  <2> HIDE DEF f
  <2>5. g \in [Page -> PageRecords] /\ g[r] = b /\ \A z \in Page : z # r => g[z] = f[z]
    BY <1>6, <2>3, <1>2 DEF Put
  <2> HIDE DEF g
  <2>6. nd2 \in [Page -> PageRecords] /\ nd2[p] = c /\ \A z \in Page : z # p => nd2[z] = g[z]
    BY <2>4, <2>5, <1>7 DEF Put
  <2> QED
    BY <2>3, <2>5, <2>6, <1>2
<1>9. /\ lo2[r] = x /\ \A z \in Page : z # r => lo2[z] = lo[z]
      /\ hi2[l] = x /\ \A z \in Page : z # l => hi2[z] = hi[z]
      /\ lo2 = [lo EXCEPT ![r] = x] /\ hi2 = [hi EXCEPT ![l] = x]
  <2> HIDE DEF x
  <2> QED
    BY <1>2, <1>4 DEF Put
<1>10. nd2[p] = InternalNode(nd[p].children, [nd[p].seps EXCEPT ![m] = s])
  BY <1>5, <1>8
<1> HIDE DEF seps2, a, b, c, lo2, hi2, x, end, end2
<1>11. Pages(nd2) = Pages(nd)
  BY <1>2, <1>3, <1>6, <1>7, <1>8 DEF Pages
<1>12. ASSUME NEW d \in Pages(nd), lv[d] + 1 = lv[l]
       PROVE  /\ d \in Pages(nd2) /\ lo2[d] = lo[d] /\ end2[d] = end[d]
  <2>1. d \in Page /\ d # l /\ d # r /\ lv[d] \in Nat
    BY SMTT(60), <1>2, <1>12 DEF Pages, Tree, Typed
  <2>2. end2[d] = (IF pend[d] = NoPage THEN hi2[d] ELSE hi2[pend[d]])
    BY <2>1, EndsAt DEF end2
  <2>3. end[d] = (IF pend[d] = NoPage THEN hi[d] ELSE hi[pend[d]])
    BY <2>1, EndsAt DEF end
  <2>4. pend[d] \in Page \cup {NoPage} /\ pend[d] # l
    BY <2>1, <1>2 DEF Tree, Typed
  <2> QED
    BY <2>1, <2>2, <2>3, <2>4, <1>9, <1>11
<1>13. PageOK(nd2, pend, lv, lo2, hi2, l)
  <2>1. Row(u1, w1, lo[l], x, lv[l], Pages(nd), lv, lo, end)
    BY DEF x, end
  <2>2. \A i \in 1 .. Len(u1) :
          u1[i] \in Pages(nd2) /\ lo2[u1[i]] = lo[u1[i]] /\ end2[u1[i]] = end[u1[i]]
    BY <2>1, <1>12 DEF Row
  <2>3. Row(u1, w1, lo[l], x, lv[l], Pages(nd2), lv, lo2, end2)
    BY <2>1, <2>2 DEF Row
  <2>4. lo2[l] = lo[l] /\ hi2[l] = x
    BY <1>2, <1>9
  <2> QED
    BY <2>3, <2>4, <1>6, <1>8 DEF PageOK, NodeOK, end2
<1>14. PageOK(nd2, pend, lv, lo2, hi2, r)
  <2>1. Row(u2, w2, x, hi[r], lv[r], Pages(nd), lv, lo, end)
    BY DEF x, end
  <2>2. \A i \in 1 .. Len(u2) :
          u2[i] \in Pages(nd2) /\ lo2[u2[i]] = lo[u2[i]] /\ end2[u2[i]] = end[u2[i]]
    BY <2>1, <1>2, <1>12 DEF Row
  <2>3. Row(u2, w2, x, hi[r], lv[r], Pages(nd2), lv, lo2, end2)
    BY <2>1, <2>2 DEF Row
  <2>4. lo2[r] = x /\ hi2[r] = hi[r]
    BY <1>2, <1>9
  <2> QED
    BY <2>3, <2>4, <1>6, <1>8 DEF PageOK, NodeOK, end2
<1>15. \A d : ChildOf(nd, d, l) \/ ChildOf(nd, d, r) => ChildOf(nd2, d, l) \/ ChildOf(nd2, d, r)
  <2> SUFFICES ASSUME NEW d, ChildOf(nd, d, l) \/ ChildOf(nd, d, r)
               PROVE  ChildOf(nd2, d, l) \/ ChildOf(nd2, d, r)
    OBVIOUS
  <2>1. (\E i \in 1 .. Len(u1) : u1[i] = d) \/ (\E i \in 1 .. Len(u2) : u2[i] = d)
    BY SMTT(60)
  <2> QED
    BY ONLY <2>1, <1>2, <1>6, <1>8 DEF ChildOf
<1>16. BorderShifted(nd, pend, lv, lo, hi, p, m, l, r, s, nd2, lo2, hi2)
  BY <1>3, <1>8, <1>9, <1>10, <1>13, <1>14, <1>15 DEF BorderShifted, Is, x
<1>17. Tree(nd2, top, pend, lv, lo2, hi2)
  BY <1>16, Shifted
<1> QED
  BY <1>17 DEF lo2, hi2, x

LEMMA NodesShifted ==
  ASSUME NEW nd, NEW top, NEW pend, NEW lv, NEW lo, NEW hi, Tree(nd, top, pend, lv, lo, hi),
         EntriesBounded, NEW p \in Page, nd[p].kind = "internal",
         NEW m \in 1 .. Len(nd[p].seps), NEW l, l = nd[p].children[m],
         NEW r, r = nd[p].children[m + 1], pend[l] = NoPage, pend[r] = NoPage,
         nd[l].kind = "internal",
         NEW s \in Entry, lo[l] < Rank(s), Rank(s) < hi[r],
         NEW u1, NEW w1, NEW u2, NEW w2,
         Row(u1, w1, lo[l], Rank(s), lv[l], Pages(nd), lv, lo, Ends(pend, hi)),
         Row(u2, w2, Rank(s), hi[r], lv[r], Pages(nd), lv, lo, Ends(pend, hi)),
         \A c : ChildOf(nd, c, l) \/ ChildOf(nd, c, r) =>
           (\E i \in 1 .. Len(u1) : u1[i] = c) \/ (\E i \in 1 .. Len(u2) : u2[i] = c),
         NEW nd2,
         nd2 = Put(Put(Put(nd, l, InternalNode(u1, w1)), r, InternalNode(u2, w2)),
                   p, InternalNode(nd[p].children, Put(nd[p].seps, m, s)))
  PROVE  Tree(nd2, top, pend, lv, Put(lo, r, Rank(s)), Put(hi, l, Rank(s)))
BY NodesShiftedHere DEF Is

LEMMA Ends1 ==
  ASSUME NEW S, NEW s \in Seq(S), s # <<>>
  PROVE  /\ Len(s) \in Nat /\ Len(s) >= 1 /\ s[1] \in S /\ s[Len(s)] \in S
         /\ Head(s) = s[1] /\ Last(s) = s[Len(s)]
         /\ Tail(s) = SubSeq(s, 2, Len(s)) /\ Front(s) = SubSeq(s, 1, Len(s) - 1)
         /\ SubSeq(s, 1, 1) = <<s[1]>> /\ SubSeq(s, Len(s), Len(s)) = <<s[Len(s)]>>
<1> DEFINE n == Len(s)
<1>1. n \in Nat /\ n >= 1
  OBVIOUS
<1>2. s[1] \in S /\ s[n] \in S
  BY <1>1
<1>3. Head(s) = s[1] /\ Last(s) = s[n] /\ Front(s) = SubSeq(s, 1, n - 1)
  BY DEF Last, Front
<1>4. Tail(s) = SubSeq(s, 2, n)
  <2>1. Tail(s) \in Seq(S) /\ Len(Tail(s)) = n - 1 /\ \A j \in 1 .. n - 1 : Tail(s)[j] = s[j + 1]
    OBVIOUS
  <2> DEFINE g == 2
  <2>2. g \in 1 .. n + 1 /\ n \in 0 .. n /\ g <= n + 1 /\ n - g + 1 = n - 1
        /\ \A j \in 1 .. n - 1 : j + g - 1 = j + 1
    <3> HIDE DEF n
    <3> QED
      BY <1>1
  <2> HIDE DEF g
  <2>3. SubSeq(s, g, n) \in Seq(S) /\ Len(SubSeq(s, g, n)) = n - g + 1
        /\ \A j \in 1 .. n - g + 1 : SubSeq(s, g, n)[j] = s[j + g - 1]
    BY <2>2, Cut
  <2>4. Len(Tail(s)) = Len(SubSeq(s, g, n))
        /\ \A j \in 1 .. Len(Tail(s)) : Tail(s)[j] = SubSeq(s, g, n)[j]
    <3> DEFINE t == Tail(s)
               v == SubSeq(s, g, n)
    <3> HIDE DEF n, t, v
    <3> QED
      BY <2>1, <2>2, <2>3 DEF t, v
  <2>5. Tail(s) = SubSeq(s, g, n)
    BY <2>1, <2>3, <2>4, SameSequence
  <2> QED
    BY <2>5 DEF g
<1>5. ASSUME NEW k \in 1 .. n PROVE SubSeq(s, k, k) = <<s[k]>>
  <2>1. k \in 1 .. n + 1 /\ k \in 0 .. n /\ k <= k + 1 /\ k - k + 1 = 1 /\ 1 + k - 1 = k
        /\ s[k] \in S
    BY <1>1
  <2>2. SubSeq(s, k, k) \in Seq(S) /\ Len(SubSeq(s, k, k)) = k - k + 1
        /\ \A j \in 1 .. k - k + 1 : SubSeq(s, k, k)[j] = s[j + k - 1]
    BY <2>1, Cut
  <2>3. Len(SubSeq(s, k, k)) = 1 /\ SubSeq(s, k, k)[1] = s[k]
    BY <2>1, <2>2
  <2>4. <<s[k]>> \in Seq(S) /\ Len(<<s[k]>>) = 1 /\ <<s[k]>>[1] = s[k]
    BY <2>1
  <2> DEFINE a == SubSeq(s, k, k)
             b == <<s[k]>>
  <2>5. /\ a \in Seq(S) /\ b \in Seq(S) /\ Len(a) = 1 /\ Len(b) = 1 /\ a[1] = s[k]
        /\ b[1] = s[k]
    BY <2>2, <2>3, <2>4
  <2> HIDE DEF a, b, n
  <2>6. Len(a) = Len(b) /\ \A i \in 1 .. Len(a) : a[i] = b[i]
    BY <2>5
  <2>7. a = b
    BY <2>5, <2>6, SameSequence
  <2> QED
    BY <2>7 DEF a, b
<1>6. 1 \in 1 .. n /\ n \in 1 .. n
  BY <1>1
<1> QED
  BY <1>1, <1>2, <1>3, <1>4, <1>5, <1>6

LEMMA NoPart ==
  ASSUME NEW S, NEW s \in Seq(S), NEW k \in 0 .. Len(s)
  PROVE  SubSeq(s, k + 1, k) = <<>>
<1>1. k + 1 \in 1 .. Len(s) + 1 /\ k + 1 <= k + 1 /\ k - (k + 1) + 1 = 0
  OBVIOUS
<1> DEFINE g == k + 1
<1>2. g \in 1 .. Len(s) + 1 /\ g <= k + 1 /\ k - g + 1 = 0
  BY <1>1
<1> HIDE DEF g
<1>3. SubSeq(s, g, k) \in Seq(S) /\ Len(SubSeq(s, g, k)) = 0
  BY <1>2, Cut
<1>4. SubSeq(s, g, k) = <<>>
  BY <1>3
<1> QED
  BY <1>4 DEF g

LEMMA Appended ==
  ASSUME NEW S, NEW s \in Seq(S), NEW e \in S
  PROVE  /\ s \o <<e>> = Append(s, e) /\ s \o <<>> = s
         /\ Append(<<>>, e) = <<e>>
OBVIOUS

\* The children of l and r are then u1 and u2.
Lent(nd, pend, lv, lo, hi, l, r, u1, w1, u2, w2, sep) ==
  /\ sep \in Entry /\ lo[l] < Rank(sep) /\ Rank(sep) < hi[r]
  /\ Row(u1, w1, lo[l], Rank(sep), lv[l], Pages(nd), lv, lo, Ends(pend, hi))
  /\ Row(u2, w2, Rank(sep), hi[r], lv[r], Pages(nd), lv, lo, Ends(pend, hi))
  /\ \A c : ChildOf(nd, c, l) \/ ChildOf(nd, c, r) =>
       (\E i \in 1 .. Len(u1) : u1[i] = c) \/ (\E i \in 1 .. Len(u2) : u2[i] = c)

GivenFirst(nd, p, m, l, r) ==
  InternalNode(Append(nd[l].children, Head(nd[r].children)), Append(nd[l].seps, nd[p].seps[m]))
WithoutFirst(nd, r) == InternalNode(Tail(nd[r].children), Tail(nd[r].seps))
FirstSep(nd, r) == Head(nd[r].seps)

WithoutLast(nd, l) == InternalNode(Front(nd[l].children), Front(nd[l].seps))
GivenLast(nd, p, m, l, r) ==
  InternalNode(<<Last(nd[l].children)>> \o nd[r].children, <<nd[p].seps[m]>> \o nd[r].seps)
LastSep(nd, l) == Last(nd[l].seps)

\* The first child of the right page goes to the left one.
LEMMA FirstLent ==
  ASSUME NEW nd, NEW top, NEW pend, NEW lv, NEW lo, NEW hi, Tree(nd, top, pend, lv, lo, hi),
         EntriesBounded, NEW p, NEW m, NEW l, NEW r,
         Adjacent(nd, top, pend, lv, lo, hi, p, m, l, r),
         nd[l].kind = "internal", nd[r].kind = "internal", nd[r].seps # <<>>
  PROVE  \E u1, w1, u2, w2 :
           /\ Lent(nd, pend, lv, lo, hi, l, r, u1, w1, u2, w2, FirstSep(nd, r))
           /\ GivenFirst(nd, p, m, l, r) = InternalNode(u1, w1)
           /\ WithoutFirst(nd, r) = InternalNode(u2, w2)
<1>0. PICK end : end = Ends(pend, hi)
  OBVIOUS
<1> DEFINE ul == nd[l].children
           wl == nd[l].seps
           ur == nd[r].children
           wr == nd[r].seps
           s == nd[p].seps[m]
           y == Rank(s)
<1>1. /\ l \in Pages(nd) /\ r \in Pages(nd) /\ l \in Page /\ r \in Page /\ lv[l] = lv[r]
      /\ lo[l] \in Int /\ hi[l] \in Int /\ lo[r] \in Int /\ hi[r] \in Int
      /\ lo[l] < hi[l] /\ hi[l] = y /\ lo[r] = y /\ y < hi[r] /\ s \in Entry /\ y \in Int
  BY DEF Adjacent
<1> HIDE DEF s, y
<1>2. /\ Row(ul, wl, lo[l], y, lv[l], Pages(nd), lv, lo, end)
      /\ Row(ur, wr, y, hi[r], lv[l], Pages(nd), lv, lo, end)
  BY <1>0, <1>1, Children DEF NodeOK
<1> HIDE DEF ul, wl, ur, wr
<1>3. /\ ul \in Seq(Page) /\ wl \in Seq(Entry) /\ ur \in Seq(Page) /\ wr \in Seq(Entry)
      /\ Len(ul) = Len(wl) + 1 /\ Len(ur) = Len(wr) + 1 /\ Len(wr) \in Nat /\ Len(wl) \in Nat
  BY <1>2 DEF Row
<1>4. wr # <<>> /\ ur # <<>>
  <2>1. wr # <<>>
    BY DEF wr
  <2> QED
    BY <2>1, <1>3
<1>5. /\ Len(wr) >= 1 /\ Head(wr) = wr[1] /\ Tail(wr) = SubSeq(wr, 2, Len(wr))
      /\ Head(ur) = ur[1] /\ Tail(ur) = SubSeq(ur, 2, Len(ur)) /\ SubSeq(ur, 1, 1) = <<ur[1]>>
      /\ ur[1] \in Page
  BY <1>3, <1>4, Ends1
<1>6. SubSeq(wr, 1, 0) = <<>>
  <2>1. 0 \in 0 .. Len(wr)
    BY <1>3
  <2>2. SubSeq(wr, 0 + 1, 0) = <<>>
    BY <2>1, <1>3, NoPart
  <2> QED
    BY <2>2
<1>7. /\ Row(SubSeq(ur, 1, 1), SubSeq(wr, 1, 0), y, Rank(wr[1]), lv[l], Pages(nd), lv, lo, end)
      /\ Row(SubSeq(ur, 2, Len(ur)), SubSeq(wr, 2, Len(wr)), Rank(wr[1]), hi[r], lv[l], Pages(nd),
             lv, lo, end)
      /\ wr[1] \in Entry /\ y < Rank(wr[1]) /\ Rank(wr[1]) < hi[r]
  <2> DEFINE k == 1
  <2>1. k \in 1 .. Len(wr) /\ k + 1 = 2 /\ k - 1 = 0
    BY <1>5, <1>3
  <2> HIDE DEF k
  <2>2. /\ Row(SubSeq(ur, 1, k), SubSeq(wr, 1, k - 1), y, Rank(wr[k]), lv[l], Pages(nd), lv, lo, end)
        /\ Row(SubSeq(ur, k + 1, Len(ur)), SubSeq(wr, k + 1, Len(wr)), Rank(wr[k]), hi[r], lv[l],
               Pages(nd), lv, lo, end)
        /\ wr[k] \in Entry /\ y < Rank(wr[k]) /\ Rank(wr[k]) < hi[r]
    BY <2>1, <1>1, <1>2, RowCut
  <2> QED
    BY <2>1, <2>2 DEF k
<1>8. /\ Row(<<ur[1]>>, <<>>, y, Rank(wr[1]), lv[l], Pages(nd), lv, lo, end)
      /\ Row(Tail(ur), Tail(wr), Rank(wr[1]), hi[r], lv[l], Pages(nd), lv, lo, end)
  BY <1>5, <1>6, <1>7
<1>9. Rank(wr[1]) \in Int
  BY <1>7, Ranked
<1>10. Row(ul \o <<ur[1]>>, Append(wl, s) \o <<>>, lo[l], Rank(wr[1]), lv[l], Pages(nd), lv, lo, end)
  BY <1>1, <1>2, <1>8, <1>9, RowJoined DEF y
<1>11. ul \o <<ur[1]>> = Append(ul, ur[1]) /\ Append(wl, s) \o <<>> = Append(wl, s)
  <2>1. Append(wl, s) \in Seq(Entry)
    BY <1>1, <1>3
  <2> QED
    BY <2>1, <1>3, <1>5, Appended
<1>12. Row(Append(ul, ur[1]), Append(wl, s), lo[l], Rank(wr[1]), lv[l], Pages(nd), lv, lo, end)
  BY <1>10, <1>11
<1>13. lo[l] < Rank(wr[1])
  BY <1>1, <1>7, <1>9
<1>14. ASSUME NEW c, ChildOf(nd, c, l) \/ ChildOf(nd, c, r)
       PROVE  \/ \E i \in 1 .. Len(Append(ul, ur[1])) : Append(ul, ur[1])[i] = c
              \/ \E i \in 1 .. Len(Tail(ur)) : Tail(ur)[i] = c
  <2>0. /\ Len(Append(ul, ur[1])) = Len(ul) + 1 /\ Append(ul, ur[1])[Len(ul) + 1] = ur[1]
        /\ \A j \in 1 .. Len(ul) : Append(ul, ur[1])[j] = ul[j]
        /\ Len(ul) \in Nat
    BY <1>3, <1>5, Extended
  <2>1. CASE \E i \in 1 .. Len(ul) : ul[i] = c
    <3>1. PICK i \in 1 .. Len(ul) : ul[i] = c
      BY <2>1
    <3>2. i \in 1 .. Len(Append(ul, ur[1]))
      BY <2>0
    <3> QED
      BY <3>1, <3>2, <2>0
  <2>2. CASE \E i \in 1 .. Len(ur) : ur[i] = c
    <3>1. PICK i \in 1 .. Len(ur) : ur[i] = c
      BY <2>2
    <3>2. CASE i = 1
      <4>1. Len(ul) + 1 \in 1 .. Len(Append(ul, ur[1]))
        BY <2>0
      <4> QED
        BY <4>1, <3>1, <3>2, <2>0
    <3>3. CASE i # 1
      <4>1. /\ Len(Tail(ur)) = Len(ur) - 1
            /\ \A j \in 1 .. Len(ur) - 1 : Tail(ur)[j] = ur[j + 1]
        BY <1>3, <1>4
      <4>2. i - 1 \in 1 .. Len(ur) - 1 /\ (i - 1) + 1 = i
        BY <3>3, <1>3
      <4> QED
        BY <4>1, <4>2, <3>1
    <3> QED
      BY <3>2, <3>3
  <2> QED
    BY <2>1, <2>2, <1>14 DEF ChildOf, ul, ur
<1>17. /\ Head(nd[r].seps) \in Entry
      /\ lo[l] < Rank(Head(nd[r].seps)) /\ Rank(Head(nd[r].seps)) < hi[r]
      /\ Row(Append(nd[l].children, Head(nd[r].children)),
             Append(nd[l].seps, nd[p].seps[m]),
             lo[l], Rank(Head(nd[r].seps)), lv[l], Pages(nd), lv, lo, end)
      /\ Row(Tail(nd[r].children), Tail(nd[r].seps), Rank(Head(nd[r].seps)), hi[r],
             lv[r], Pages(nd), lv, lo, end)
      /\ \A c : ChildOf(nd, c, l) \/ ChildOf(nd, c, r) =>
           \/ \E i \in 1 .. Len(Append(nd[l].children, Head(nd[r].children))) :
                Append(nd[l].children, Head(nd[r].children))[i] = c
           \/ \E i \in 1 .. Len(Tail(nd[r].children)) : Tail(nd[r].children)[i] = c
  BY <1>1, <1>5, <1>7, <1>8, <1>12, <1>13, <1>14 DEF ul, wl, ur, wr, s
<1>18. PICK u1 : u1 = Append(nd[l].children, Head(nd[r].children))
  OBVIOUS
<1>19. PICK w1 : w1 = Append(nd[l].seps, nd[p].seps[m])
  OBVIOUS
<1>20. PICK u2 : u2 = Tail(nd[r].children)
  OBVIOUS
<1>21. PICK w2 : w2 = Tail(nd[r].seps)
  OBVIOUS
<1>22. Lent(nd, pend, lv, lo, hi, l, r, u1, w1, u2, w2, FirstSep(nd, r))
  BY <1>0, <1>17, <1>18, <1>19, <1>20, <1>21, Zenon DEF Lent, FirstSep
<1>23. GivenFirst(nd, p, m, l, r) = InternalNode(u1, w1) /\ WithoutFirst(nd, r) = InternalNode(u2, w2)
  BY <1>18, <1>19, <1>20, <1>21 DEF GivenFirst, WithoutFirst
<1> QED
  BY <1>22, <1>23

\* The last child of the left page goes to the right one.
LEMMA LastLent ==
  ASSUME NEW nd, NEW top, NEW pend, NEW lv, NEW lo, NEW hi, Tree(nd, top, pend, lv, lo, hi),
         EntriesBounded, NEW p, NEW m, NEW l, NEW r,
         Adjacent(nd, top, pend, lv, lo, hi, p, m, l, r),
         nd[l].kind = "internal", nd[r].kind = "internal", nd[l].seps # <<>>
  PROVE  \E u1, w1, u2, w2 :
           /\ Lent(nd, pend, lv, lo, hi, l, r, u1, w1, u2, w2, LastSep(nd, l))
           /\ WithoutLast(nd, l) = InternalNode(u1, w1)
           /\ GivenLast(nd, p, m, l, r) = InternalNode(u2, w2)
<1>0. PICK end : end = Ends(pend, hi)
  OBVIOUS
<1> DEFINE ul == nd[l].children
           wl == nd[l].seps
           ur == nd[r].children
           wr == nd[r].seps
           s == nd[p].seps[m]
           y == Rank(s)
           k == Len(wl)
<1>1. /\ l \in Pages(nd) /\ r \in Pages(nd) /\ l \in Page /\ r \in Page /\ lv[l] = lv[r]
      /\ lo[l] \in Int /\ hi[l] \in Int /\ lo[r] \in Int /\ hi[r] \in Int
      /\ lo[l] < hi[l] /\ hi[l] = y /\ lo[r] = y /\ y < hi[r] /\ s \in Entry /\ y \in Int
  BY DEF Adjacent
<1> HIDE DEF s, y
<1>2. /\ Row(ul, wl, lo[l], y, lv[l], Pages(nd), lv, lo, end)
      /\ Row(ur, wr, y, hi[r], lv[l], Pages(nd), lv, lo, end)
  BY <1>0, <1>1, Children DEF NodeOK
<1>4. wl # <<>>
  OBVIOUS
<1> HIDE DEF ul, wl, ur, wr
<1>3. /\ ul \in Seq(Page) /\ wl \in Seq(Entry) /\ ur \in Seq(Page) /\ wr \in Seq(Entry)
      /\ Len(ul) = k + 1 /\ Len(ur) = Len(wr) + 1 /\ Len(wr) \in Nat /\ k \in Nat
  BY <1>2 DEF Row
<1>5. k >= 1 /\ Last(wl) = wl[k] /\ Front(wl) = SubSeq(wl, 1, k - 1)
  BY <1>3, <1>4, Ends1
<1> HIDE DEF k
<1>15. ul # <<>>
  BY <1>3
<1>16. /\ Last(ul) = ul[k + 1] /\ Front(ul) = SubSeq(ul, 1, k)
       /\ SubSeq(ul, k + 1, k + 1) = <<ul[k + 1]>> /\ ul[k + 1] \in Page
  <2> DEFINE n == Len(ul)
  <2>1. /\ Last(ul) = ul[n] /\ Front(ul) = SubSeq(ul, 1, n - 1)
        /\ SubSeq(ul, n, n) = <<ul[n]>> /\ ul[n] \in Page
    BY <1>3, <1>15, Ends1
  <2>2. n = k + 1 /\ n - 1 = k
    BY <1>3
  <2> HIDE DEF n
  <2> QED
    BY <2>1, <2>2
<1>6. SubSeq(wl, k + 1, k) = <<>>
  <2>1. k \in 0 .. Len(wl)
    BY <1>3 DEF k
  <2> QED
    BY <2>1, <1>3, NoPart
<1>7. /\ Row(SubSeq(ul, 1, k), SubSeq(wl, 1, k - 1), lo[l], Rank(wl[k]), lv[l], Pages(nd), lv, lo, end)
      /\ Row(SubSeq(ul, k + 1, k + 1), SubSeq(wl, k + 1, k), Rank(wl[k]), y, lv[l], Pages(nd),
             lv, lo, end)
      /\ wl[k] \in Entry /\ lo[l] < Rank(wl[k]) /\ Rank(wl[k]) < y
  <2>1. k \in 1 .. Len(wl) /\ Len(ul) = k + 1 /\ Len(wl) = k
    BY <1>3, <1>5 DEF k
  <2>2. /\ Row(SubSeq(ul, 1, k), SubSeq(wl, 1, k - 1), lo[l], Rank(wl[k]), lv[l], Pages(nd), lv, lo, end)
        /\ Row(SubSeq(ul, k + 1, Len(ul)), SubSeq(wl, k + 1, Len(wl)), Rank(wl[k]), y, lv[l],
               Pages(nd), lv, lo, end)
        /\ wl[k] \in Entry /\ lo[l] < Rank(wl[k]) /\ Rank(wl[k]) < y
    BY <2>1, <1>1, <1>2, RowCut
  <2> QED
    BY <2>1, <2>2
<1> DEFINE d == ul[k + 1]
<1>8. /\ Row(<<d>>, <<>>, Rank(wl[k]), y, lv[l], Pages(nd), lv, lo, end)
      /\ Row(Front(ul), Front(wl), lo[l], Rank(wl[k]), lv[l], Pages(nd), lv, lo, end)
  BY <1>5, <1>6, <1>7, <1>16
<1>9. Rank(wl[k]) \in Int
  BY <1>7, Ranked
<1> HIDE DEF d
<1>10. Row(<<d>> \o ur, Append(<<>>, s) \o wr, Rank(wl[k]), hi[r], lv[l], Pages(nd), lv, lo, end)
  BY <1>1, <1>2, <1>8, <1>9, RowJoined DEF y
<1>11. Append(<<>>, s) = <<s>>
  OBVIOUS
<1>12. Row(<<d>> \o ur, <<s>> \o wr, Rank(wl[k]), hi[r], lv[l], Pages(nd), lv, lo, end)
  BY <1>10, <1>11
<1>13. Rank(wl[k]) < hi[r]
  BY <1>1, <1>7, <1>9
<1>14. ASSUME NEW c, ChildOf(nd, c, l) \/ ChildOf(nd, c, r)
       PROVE  \/ \E i \in 1 .. Len(Front(ul)) : Front(ul)[i] = c
              \/ \E i \in 1 .. Len(<<d>> \o ur) : (<<d>> \o ur)[i] = c
  <2>0. /\ Len(<<d>> \o ur) = 1 + Len(ur) /\ (<<d>> \o ur)[1] = d
        /\ \A j \in 2 .. Len(ur) + 1 : (<<d>> \o ur)[j] = ur[j - 1]
        /\ Len(ur) \in Nat
    <3>1. <<d>> \in Seq(Page) /\ Len(<<d>>) = 1 /\ <<d>>[1] = d
      BY <1>16 DEF d
    <3> DEFINE z == <<d>>
    <3> HIDE DEF z
    <3>2. z \in Seq(Page) /\ Len(z) = 1 /\ z[1] = d
      BY <3>1 DEF z
    <3>3. /\ Len(z \o ur) = Len(z) + Len(ur)
          /\ \A j \in 1 .. Len(z) : (z \o ur)[j] = z[j]
          /\ \A j \in Len(z) + 1 .. Len(z) + Len(ur) : (z \o ur)[j] = ur[j - Len(z)]
      BY <3>2, <1>3, Joined
    <3>4. Len(ur) \in Nat
      BY <1>3
    <3>5. /\ Len(z \o ur) = 1 + Len(ur) /\ (z \o ur)[1] = d
          /\ \A j \in 2 .. Len(ur) + 1 : (z \o ur)[j] = ur[j - 1]
      BY <3>2, <3>3, <3>4
    <3> QED
      BY <3>4, <3>5 DEF z
  <2> DEFINE v == <<d>> \o ur
             f == Front(ul)
  <2>3. Len(f) = k /\ \A j \in 1 .. k : f[j] = ul[j]
    <3>1. 1 \in 1 .. Len(ul) + 1 /\ k \in 0 .. Len(ul) /\ 1 <= k + 1 /\ k - 1 + 1 = k
      BY <1>3
    <3>2. Len(SubSeq(ul, 1, k)) = k - 1 + 1
          /\ \A j \in 1 .. k - 1 + 1 : SubSeq(ul, 1, k)[j] = ul[j + 1 - 1]
      BY <3>1, <1>3, Cut
    <3>3. Len(SubSeq(ul, 1, k)) = k /\ \A j \in 1 .. k : SubSeq(ul, 1, k)[j] = ul[j]
      BY <3>1, <3>2, <1>3
    <3> QED
      BY <3>3, <1>16
  <2>4. Len(v) = Len(ur) + 1 /\ v[1] = d /\ \A j \in 2 .. Len(ur) + 1 : v[j] = ur[j - 1]
    BY <2>0
  <2> HIDE DEF v, f
  <2>1. CASE \E i \in 1 .. Len(ul) : ul[i] = c
    <3>1. PICK i \in 1 .. Len(ul) : ul[i] = c
      BY <2>1
    <3>2. CASE i = k + 1
      <4>1. v[1] = c /\ 1 \in 1 .. Len(v)
        BY <3>1, <3>2, <2>4, <2>0 DEF d
      <4> QED
        BY <4>1 DEF v
    <3>3. CASE i # k + 1
      <4>1. i \in 1 .. k
        BY <3>3, <1>3
      <4>2. f[i] = c /\ i \in 1 .. Len(f)
        BY <4>1, <3>1, <2>3
      <4> QED
        BY <4>2 DEF f
    <3> QED
      BY <3>2, <3>3
  <2>2. CASE \E i \in 1 .. Len(ur) : ur[i] = c
    <3>1. PICK i \in 1 .. Len(ur) : ur[i] = c
      BY <2>2
    <3>2. i + 1 \in 2 .. Len(ur) + 1 /\ i + 1 \in 1 .. Len(v) /\ (i + 1) - 1 = i
      BY <2>0, <2>4
    <3>3. v[i + 1] = c
      BY <3>1, <3>2, <2>4
    <3> QED
      BY <3>2, <3>3 DEF v
  <2> QED
    BY <2>1, <2>2, <1>14 DEF ChildOf, ul, ur
<1>17. /\ Last(nd[l].seps) \in Entry
      /\ lo[l] < Rank(Last(nd[l].seps)) /\ Rank(Last(nd[l].seps)) < hi[r]
      /\ Row(Front(nd[l].children), Front(nd[l].seps),
             lo[l], Rank(Last(nd[l].seps)), lv[l], Pages(nd), lv, lo, end)
      /\ Row(<<Last(nd[l].children)>> \o nd[r].children, <<nd[p].seps[m]>> \o nd[r].seps,
             Rank(Last(nd[l].seps)), hi[r], lv[r], Pages(nd), lv, lo, end)
      /\ \A c : ChildOf(nd, c, l) \/ ChildOf(nd, c, r) =>
           \/ \E i \in 1 .. Len(Front(nd[l].children)) : Front(nd[l].children)[i] = c
           \/ \E i \in 1 .. Len(<<Last(nd[l].children)>> \o nd[r].children) :
                (<<Last(nd[l].children)>> \o nd[r].children)[i] = c
  BY <1>1, <1>5, <1>7, <1>8, <1>12, <1>13, <1>14, <1>16 DEF ul, wl, ur, wr, s, d

<1>18. PICK u1 : u1 = Front(nd[l].children)
  OBVIOUS
<1>19. PICK w1 : w1 = Front(nd[l].seps)
  OBVIOUS
<1>20. PICK u2 : u2 = <<Last(nd[l].children)>> \o nd[r].children
  OBVIOUS
<1>21. PICK w2 : w2 = <<nd[p].seps[m]>> \o nd[r].seps
  OBVIOUS
<1>22. Lent(nd, pend, lv, lo, hi, l, r, u1, w1, u2, w2, LastSep(nd, l))
  BY <1>0, <1>17, <1>18, <1>19, <1>20, <1>21, Zenon DEF Lent, LastSep
<1>23. WithoutLast(nd, l) = InternalNode(u1, w1) /\ GivenLast(nd, p, m, l, r) = InternalNode(u2, w2)
  BY <1>18, <1>19, <1>20, <1>21 DEF WithoutLast, GivenLast
<1> QED
  BY <1>22, <1>23
\* The right one of two neighbours is deleted.
Joint(nd, p, m, l, r, n) == Put(Put(Put(nd, l, n), p, remove_slot(nd[p], m)), r, Free)

LEMMA JointAt ==
  ASSUME NEW nd, NEW top, NEW pend, NEW lv, NEW lo, NEW hi, Tree(nd, top, pend, lv, lo, hi),
         EntriesBounded, NEW p \in Page, nd[p].kind = "internal",
         NEW m \in 1 .. Len(nd[p].seps), NEW l, Is(l, nd[p].children[m]),
         NEW r, Is(r, nd[p].children[m + 1]), pend[l] = NoPage, pend[r] = NoPage,
         NEW n \in PageRecords, NEW nd2, Is(nd2, Joint(nd, p, m, l, r, n)),
         NEW hi2, Is(hi2, Put(hi, l, hi[r]))
  PROVE  /\ Adjacent(nd, top, pend, lv, lo, hi, p, m, l, r)
         /\ nd2 \in [Page -> PageRecords] /\ nd2[l] = n /\ nd2[r] = Free
         /\ nd2[p] = InternalNode(RemoveAt(nd[p].children, m + 1), RemoveAt(nd[p].seps, m))
         /\ nd2[p].kind = "internal"
         /\ \A z \in Page : z # p /\ z # l /\ z # r => nd2[z] = nd[z]
         /\ hi2 = [hi EXCEPT ![l] = hi[r]] /\ hi2[l] = hi[r]
         /\ \A z \in Page : z # l => hi2[z] = hi[z]
<1>1. Adjacent(nd, top, pend, lv, lo, hi, p, m, l, r)
  BY Neighbours DEF Is
<1>2. /\ l \in Page /\ r \in Page /\ l # r /\ l # p /\ r # p
      /\ m \in 1 .. Len(nd[p].children) /\ m + 1 \in 1 .. Len(nd[p].children)
  BY <1>1 DEF Adjacent
<1>3. /\ nd \in [Page -> PageRecords] /\ hi \in [Page -> Int]
      /\ nd[p].children \in Seq(Page) /\ nd[p].seps \in Seq(Entry)
      /\ nd[p] = InternalNode(nd[p].children, nd[p].seps)
  <2>1. nd \in [Page -> PageRecords] /\ hi \in [Page -> Int]
    BY DEF Tree, Typed
  <2>2. /\ nd[p].children \in Seq(Page) /\ nd[p].seps \in Seq(Entry)
        /\ nd[p] = InternalNode(nd[p].children, nd[p].seps)
    BY Children
  <2> QED
    BY <2>1, <2>2
<1> DEFINE u == RemoveAt(nd[p].children, m + 1)
           w == RemoveAt(nd[p].seps, m)
           c == InternalNode(u, w)
<1>4. remove_slot(nd[p], m) = c
  BY <1>3, SlotRemoved
<1>5. u \in Seq(Page) /\ w \in Seq(Entry)
  <2> DEFINE g == m + 1
  <2>1. g \in 1 .. Len(nd[p].children)
    BY <1>2
  <2> HIDE DEF g
  <2>2. RemoveAt(nd[p].children, g) \in Seq(Page)
    BY <2>1, <1>3, PageRemoved
  <2>3. w \in Seq(Entry)
    BY <1>3, EntryRemoved
  <2> QED
    BY <2>2, <2>3 DEF g
<1> HIDE DEF u, w
<1>6. c \in PageRecords /\ c.kind = "internal"
  BY <1>5, NodeMade
<1> HIDE DEF c
<1>7. /\ nd2[l] = n /\ nd2[p] = c /\ nd2[r] = Free
      /\ \A z \in Page : z # p /\ z # l /\ z # r => nd2[z] = nd[z]
      /\ nd2 \in [Page -> PageRecords]
  <2> DEFINE f == Put(nd, l, n)
             g == Put(f, p, c)
  <2>1. nd2 = Put(g, r, Free)
    BY <1>4 DEF Joint, Is
  <2>2. Free \in PageRecords
    BY DEF PageRecords
  <2>3. f \in [Page -> PageRecords] /\ f[l] = n /\ \A z \in Page : z # l => f[z] = nd[z]
    BY <1>2, <1>3 DEF Put
  <2> HIDE DEF f
  <2>5. g \in [Page -> PageRecords] /\ g[p] = c /\ \A z \in Page : z # p => g[z] = f[z]
    BY <1>6, <2>3, <1>2 DEF Put
  <2> HIDE DEF g
  <2>6. nd2 \in [Page -> PageRecords] /\ nd2[r] = Free /\ \A z \in Page : z # r => nd2[z] = g[z]
    BY <2>1, <2>2, <2>5, <1>2 DEF Put
  <2> QED
    BY <2>3, <2>5, <2>6, <1>2
<1>8. /\ hi2 = [hi EXCEPT ![l] = hi[r]] /\ hi2[l] = hi[r]
      /\ \A z \in Page : z # l => hi2[z] = hi[z]
  BY <1>2, <1>3 DEF Put, Is
<1> QED
  BY <1>1, <1>6, <1>7, <1>8 DEF c, u, w

\* Two leaves become one.
LEMMA LeavesJoinedHere ==
  ASSUME NEW nd, NEW top, NEW pend, NEW lv, NEW lo, NEW hi, Tree(nd, top, pend, lv, lo, hi),
         EntriesBounded, NEW p \in Page, nd[p].kind = "internal",
         NEW m \in 1 .. Len(nd[p].seps), NEW l, Is(l, nd[p].children[m]),
         NEW r, Is(r, nd[p].children[m + 1]), pend[l] = NoPage, pend[r] = NoPage,
         nd[l].kind = "leaf",
         NEW nd2, Is(nd2, Joint(nd, p, m, l, r, MergedLeaf(nd[l], nd[r])))
  PROVE  Tree(nd2, top, pend, lv, lo, Put(hi, l, hi[r]))
<1> DEFINE hi2 == Put(hi, l, hi[r])
           u == nd[l].entries \o nd[r].entries
           next == nd[r].next
           n == LeafWith(u, next)
<1>1. Adjacent(nd, top, pend, lv, lo, hi, p, m, l, r)
  BY Neighbours DEF Is
<1>2. /\ l \in Pages(nd) /\ r \in Pages(nd) /\ l \in Page /\ r \in Page
      /\ l # r /\ l # p /\ r # p /\ lv[l] = lv[r]
      /\ lo[l] \in Int /\ hi[l] \in Int /\ lo[r] \in Int /\ hi[r] \in Int
      /\ lo[l] < hi[l] /\ hi[l] = lo[r] /\ lo[r] < hi[r] /\ hi[r] <= Ceiling
  BY <1>1 DEF Adjacent
<1>3. lv[l] = 0 /\ nd[r].kind = "leaf"
  BY <1>2, Lowest
<1>4. nd[l] \in LeafRecords /\ nd[r] \in LeafRecords /\ Filed(nd[l].entries, lo[l], hi[l])
  BY <1>2, <1>3, NextLeaf
<1>5. /\ Filed(nd[r].entries, lo[r], hi[r])
      /\ next = NoPage <=> hi[r] = Ceiling
      /\ next # NoPage => /\ next \in Pages(nd) /\ nd[next].kind = "leaf"
                          /\ lo[next] = hi[r]
  BY <1>2, <1>3, NextLeaf
<1>6. Filed(u, lo[l], hi[r])
  BY <1>2, <1>4, <1>5, FiledJoined
<1>7. next \in Page \cup {NoPage}
  BY <1>4, LeafFields
<1>8. MergedLeaf(nd[l], nd[r]) = n
  BY <1>4, LeavesMerged
<1> HIDE DEF u, next
<1>9. n \in LeafRecords /\ n.kind = "leaf" /\ n.entries = u /\ n.next = next
  <2>1. u \in Seq(Entry)
    BY <1>6 DEF Filed
  <2> QED
    BY <2>1, <1>7, LeafMade
<1>10. /\ n \in PageRecords /\ Is(nd2, Joint(nd, p, m, l, r, n))
       /\ Is(hi2, Put(hi, l, hi[r]))
  BY <1>8, <1>9 DEF PageRecords, Is
<1> HIDE DEF n, hi2
<1>11. /\ nd2 \in [Page -> PageRecords] /\ nd2[l] = n /\ nd2[r] = Free
       /\ nd2[p] = InternalNode(RemoveAt(nd[p].children, m + 1), RemoveAt(nd[p].seps, m))
       /\ \A z \in Page : z # p /\ z # l /\ z # r => nd2[z] = nd[z]
       /\ hi2 = [hi EXCEPT ![l] = hi[r]] /\ hi2[l] = hi[r]
       /\ \A z \in Page : z # l => hi2[z] = hi[z]
  BY <1>10, JointAt
<1>12. PageOK(nd2, pend, lv, lo, hi2, l)
  <2>1. nd2[l].kind = "leaf" /\ nd2[l].entries = u /\ nd2[l].next = next
    BY <1>9, <1>11
  <2>2. CASE hi[r] = Ceiling
    <3>1. LeafOK(nd2, lv, lo, hi2, l)
      BY ONLY <2>1, <2>2, <1>3, <1>5, <1>6, <1>11 DEF LeafOK
    <3> QED
      BY <3>1, <2>1 DEF PageOK
  <2>3. CASE hi[r] # Ceiling
    <3>1. next \in Pages(nd) /\ nd[next].kind = "leaf" /\ lo[next] = hi[r] /\ next # NoPage
      BY <2>3, <1>5
    <3>2. next \in Page /\ next # r /\ next # p
      BY <3>1, <1>2 DEF Pages
    <3>3. nd2[next].kind = "leaf"
      BY <3>1, <3>2, <2>1, <1>11
    <3>4. LeafOK(nd2, lv, lo, hi2, l)
      BY ONLY <2>1, <2>3, <3>1, <3>2, <3>3, <1>3, <1>6, <1>11 DEF LeafOK
    <3> QED
      BY <3>4, <2>1 DEF PageOK
  <2> QED
    BY <2>2, <2>3
<1>13. \A c : ChildOf(nd, c, l) \/ ChildOf(nd, c, r) => ChildOf(nd2, c, l)
  BY <1>3 DEF ChildOf
<1>14. nd2[l].kind = "leaf"
  BY SMTT(60), <1>9, <1>11
<1>15. MadeOne(nd, pend, lv, lo, hi, p, m, l, r, nd2, hi2)
  BY <1>11, <1>12, <1>13, <1>14 DEF MadeOne, Is
<1>16. Tree(nd2, top, pend, lv, lo, hi2)
  BY <1>15, Merged
<1> QED
  BY <1>16 DEF hi2

\* merge_leaf_pair: the entries of both are
\* in the left one, its parent loses the right one with its separator, and the
\* pages stay a tree.
THEOREM LeavesJoined ==
  ASSUME NEW nd, NEW top, NEW pend, NEW lv, NEW lo, NEW hi, Tree(nd, top, pend, lv, lo, hi),
         EntriesBounded, NEW p \in Page, nd[p].kind = "internal",
         NEW m \in 1 .. Len(nd[p].seps), NEW l, l = nd[p].children[m],
         NEW r, r = nd[p].children[m + 1], pend[l] = NoPage, pend[r] = NoPage,
         nd[l].kind = "leaf",
         NEW nd2, nd2 = Joint(nd, p, m, l, r, MergedLeaf(nd[l], nd[r]))
  PROVE  Tree(nd2, top, pend, lv, lo, Put(hi, l, hi[r]))
BY LeavesJoinedHere DEF Is

\* Two internal pages become one.
LEMMA NodesJoinedHere ==
  ASSUME NEW nd, NEW top, NEW pend, NEW lv, NEW lo, NEW hi, Tree(nd, top, pend, lv, lo, hi),
         EntriesBounded, NEW p \in Page, nd[p].kind = "internal",
         NEW m \in 1 .. Len(nd[p].seps), NEW l, Is(l, nd[p].children[m]),
         NEW r, Is(r, nd[p].children[m + 1]), pend[l] = NoPage, pend[r] = NoPage,
         nd[l].kind = "internal",
         NEW nd2, Is(nd2, Joint(nd, p, m, l, r, MergedNode(nd[l], nd[r], nd[p].seps[m])))
  PROVE  Tree(nd2, top, pend, lv, lo, Put(hi, l, hi[r]))
<1> DEFINE hi2 == Put(hi, l, hi[r])
           end == Ends(pend, hi)
           end2 == Ends(pend, hi2)
           s == nd[p].seps[m]
           ul == nd[l].children
           wl == nd[l].seps
           ur == nd[r].children
           wr == nd[r].seps
           u == ul \o ur
           w == Append(wl, s) \o wr
           n == InternalNode(u, w)
<1>1. Adjacent(nd, top, pend, lv, lo, hi, p, m, l, r)
  BY Neighbours DEF Is
<1>2. /\ l \in Pages(nd) /\ r \in Pages(nd) /\ l \in Page /\ r \in Page
      /\ l # r /\ l # p /\ r # p /\ lv[l] = lv[r] /\ lv[l] \in Nat
      /\ lo[l] \in Int /\ hi[l] \in Int /\ lo[r] \in Int /\ hi[r] \in Int
      /\ lo[l] < hi[l] /\ hi[l] = lo[r] /\ lo[r] < hi[r]
      /\ s \in Entry /\ Rank(s) = lo[r]
      /\ \A z \in Page : pend[z] # l /\ pend[z] # r
  BY <1>1 DEF Adjacent
<1>3. nd[r].kind = "internal"
  BY <1>2, Lowest
<1>4. MergedNode(nd[l], nd[r], nd[p].seps[m]) = n
  BY DEF MergedNode
<1>5. /\ Row(ul, wl, lo[l], lo[r], lv[l], Pages(nd), lv, lo, end)
      /\ Row(ur, wr, lo[r], hi[r], lv[l], Pages(nd), lv, lo, end)
  <2>1. NodeOK(nd, pend, lv, lo, hi, l) /\ NodeOK(nd, pend, lv, lo, hi, r)
    BY <1>2, <1>3, Children
  <2> QED
    BY <2>1, <1>2 DEF NodeOK
<1> HIDE DEF s, ul, wl, ur, wr, end
<1>6. Row(u, w, lo[l], hi[r], lv[l], Pages(nd), lv, lo, end)
  BY <1>2, <1>5, RowJoined
<1>7. /\ Len(ul) \in Nat /\ Len(ur) \in Nat /\ Len(u) = Len(ul) + Len(ur)
      /\ \A j \in 1 .. Len(ul) : u[j] = ul[j]
      /\ \A j \in Len(ul) + 1 .. Len(ul) + Len(ur) : u[j] = ur[j - Len(ul)]
  <2>1. ul \in Seq(Page) /\ ur \in Seq(Page)
    BY <1>5 DEF Row
  <2> QED
    BY <2>1, Joined
<1> HIDE DEF u, w
<1>9. n \in PageRecords /\ n.kind = "internal" /\ n.children = u /\ n.seps = w
  <2>1. u \in Seq(Page) /\ w \in Seq(Entry)
    BY <1>6 DEF Row
  <2> QED
    BY <2>1, NodeMade
<1>10. Is(nd2, Joint(nd, p, m, l, r, n)) /\ Is(hi2, Put(hi, l, hi[r]))
  BY <1>4 DEF Is
<1> HIDE DEF n, hi2, end2
<1>11. /\ nd2 \in [Page -> PageRecords] /\ nd2[l] = n /\ nd2[r] = Free
       /\ nd2[p] = InternalNode(RemoveAt(nd[p].children, m + 1), RemoveAt(nd[p].seps, m))
       /\ nd2[p].kind = "internal"
       /\ \A z \in Page : z # p /\ z # l /\ z # r => nd2[z] = nd[z]
       /\ hi2 = [hi EXCEPT ![l] = hi[r]] /\ hi2[l] = hi[r]
       /\ \A z \in Page : z # l => hi2[z] = hi[z]
  <2>1. n \in PageRecords
    BY <1>9
  <2> QED
    BY <2>1, <1>10, JointAt
<1>8. Pages(nd2) = Pages(nd) \ {r}
  <2>1. nd2[l].kind = "internal" /\ nd2[p].kind = "internal" /\ nd2[r].kind = "free"
    BY <1>9, <1>11 DEF Free
  <2>2. \A z \in Page : z # p /\ z # l /\ z # r => nd2[z] = nd[z]
    BY <1>11
  <2> QED
    BY ONLY <2>1, <2>2, <1>2, nd[p].kind = "internal" DEF Pages
<1>12. \A i \in 1 .. Len(u) : u[i] \in Pages(nd2) /\ end2[u[i]] = end[u[i]]
  <2> SUFFICES ASSUME NEW i \in 1 .. Len(u)
               PROVE  u[i] \in Pages(nd2) /\ end2[u[i]] = end[u[i]]
    OBVIOUS
  <2> DEFINE d == u[i]
  <2>0. d \in Pages(nd) /\ lv[d] + 1 = lv[l]
    BY <1>6 DEF Row
  <2> HIDE DEF d
  <2>1. d \in Page /\ d # l /\ d # r /\ lv[d] \in Nat
    BY <2>0, <1>2, SMTT(60) DEF Pages, Tree, Typed
  <2>2. end2[d] = (IF pend[d] = NoPage THEN hi2[d] ELSE hi2[pend[d]])
    BY <2>1, EndsAt DEF end2
  <2>3. end[d] = (IF pend[d] = NoPage THEN hi[d] ELSE hi[pend[d]])
    BY <2>1, EndsAt DEF end
  <2>4. pend[d] \in Page \cup {NoPage} /\ pend[d] # l
    BY <2>1, <1>2 DEF Tree, Typed
  <2>5. d \in Pages(nd2) /\ end2[d] = end[d]
    BY <2>0, <2>1, <2>2, <2>3, <2>4, <1>8, <1>11
  <2> QED
    BY <2>5 DEF d
<1>13. PageOK(nd2, pend, lv, lo, hi2, l)
  <2>1. Row(u, w, lo[l], hi[r], lv[l], Pages(nd2), lv, lo, end2)
    BY <1>6, <1>12 DEF Row
  <2> QED
    BY <2>1, <1>9, <1>11 DEF PageOK, NodeOK, end2
<1>14. \A c : ChildOf(nd, c, l) \/ ChildOf(nd, c, r) => ChildOf(nd2, c, l)
  <2> SUFFICES ASSUME NEW c, ChildOf(nd, c, l) \/ ChildOf(nd, c, r)
               PROVE  ChildOf(nd2, c, l)
    OBVIOUS
  <2>1. CASE \E i \in 1 .. Len(ul) : ul[i] = c
    <3>1. PICK i \in 1 .. Len(ul) : ul[i] = c
      BY <2>1
    <3>2. i \in 1 .. Len(u) /\ u[i] = c
      BY <3>1, <1>7
    <3> QED
      BY <3>2, <1>2, <1>9, <1>11 DEF ChildOf
  <2>2. CASE \E i \in 1 .. Len(ur) : ur[i] = c
    <3>1. PICK i \in 1 .. Len(ur) : ur[i] = c
      BY <2>2
    <3>2. /\ i + Len(ul) \in 1 .. Len(u) /\ i + Len(ul) \in Len(ul) + 1 .. Len(ul) + Len(ur)
          /\ (i + Len(ul)) - Len(ul) = i
      BY <1>7
    <3>3. u[i + Len(ul)] = c
      BY SMTT(60), <3>1, <3>2, <1>7
    <3> QED
      BY <3>2, <3>3, <1>2, <1>9, <1>11 DEF ChildOf
  <2> QED
    BY <2>1, <2>2 DEF ChildOf, ul, ur
<1>15. MadeOne(nd, pend, lv, lo, hi, p, m, l, r, nd2, hi2)
  BY <1>3, <1>11, <1>13, <1>14 DEF MadeOne, Is
<1>16. Tree(nd2, top, pend, lv, lo, hi2)
  BY <1>15, Merged
<1> QED
  BY <1>16 DEF hi2

\* merge_internal_right_into_left: the separator comes down between the children
\* of both, and the pages stay a tree.
THEOREM NodesJoined ==
  ASSUME NEW nd, NEW top, NEW pend, NEW lv, NEW lo, NEW hi, Tree(nd, top, pend, lv, lo, hi),
         EntriesBounded, NEW p \in Page, nd[p].kind = "internal",
         NEW m \in 1 .. Len(nd[p].seps), NEW l, l = nd[p].children[m],
         NEW r, r = nd[p].children[m + 1], pend[l] = NoPage, pend[r] = NoPage,
         nd[l].kind = "internal",
         NEW nd2, nd2 = Joint(nd, p, m, l, r, MergedNode(nd[l], nd[r], nd[p].seps[m]))
  PROVE  Tree(nd2, top, pend, lv, lo, Put(hi, l, hi[r]))
BY NodesJoinedHere DEF Is

=============================================================================
