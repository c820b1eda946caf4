---------------------------- MODULE IndexProofs ----------------------------
(***************************************************************************)
(* BTree implements Index: the tree is a set of entries to its callers.    *)
(*                                                                         *)
(* To the invariant of BTreeProofs is added what each call knows: which    *)
(* answer it will give once that is decided, and of a lookup that it has   *)
(* found all there was below the page it has come to.  Then each action is *)
(* one of Index or leaves what Index sees as it is.                        *)
(***************************************************************************)
EXTENDS BTreeProofs

-----------------------------------------------------------------------------
(* The contents of a tree.                                                 *)

In(s, x) == \E i \in 1 .. Len(s) : s[i] = x

Stored(nd, p, x) == nd[p].kind = "leaf" /\ In(nd[p].entries, x)

ContentsOf(nd) == UNION {LiveEntriesOf(nd[p]) : p \in {q \in Page : nd[q].kind = "leaf"}}

LEMMA NodeKind ==
  \A u, w : InternalNode(u, w).kind = "internal"
  BY DEF InternalNode

LEMMA ContentsNow ==
  Contents = ContentsOf(node) /\ Contents' = ContentsOf(node')
  BY DEF Contents, ContentsOf, IsLeaf

\* Without tombstones an entry is in the index if it is in some leaf.
LEMMA Entries ==
  ASSUME NEW nd, nd \in [Page -> PageRecords]
  PROVE  /\ \A x : x \in ContentsOf(nd) <=> \E p \in Page : Stored(nd, p, x)
         /\ ContentsOf(nd) \subseteq Entry
<1>1. ASSUME NEW p \in Page, nd[p].kind = "leaf"
      PROVE  /\ nd[p].entries \in Seq(Entry)
             /\ \A x : x \in LiveEntriesOf(nd[p]) <=> In(nd[p].entries, x)
  <2>1. nd[p] \in LeafRecords
    BY <1>1, Kinds
  <2>2. PICK leaf : leaf = nd[p]
    OBVIOUS
  <2>3. leaf.entries \in Seq(Entry) /\ LiveIndexes(leaf) = 1 .. Len(leaf.entries)
    BY <2>1, <2>2, LeafFields
  <2>4. LiveEntriesOf(leaf) = {leaf.entries[i] : i \in 1 .. Len(leaf.entries)}
    BY <2>3 DEF LiveEntriesOf
  <2>5. \A x : x \in LiveEntriesOf(leaf) <=> In(leaf.entries, x)
    BY <2>4 DEF In
  <2> QED
    BY <2>2, <2>3, <2>5
<1>2. \A x : x \in ContentsOf(nd) <=>
        \E p \in Page : nd[p].kind = "leaf" /\ x \in LiveEntriesOf(nd[p])
  BY DEF ContentsOf
<1>3. \A x : x \in ContentsOf(nd) <=> \E p \in Page : Stored(nd, p, x)
  BY <1>1, <1>2 DEF Stored
<1>4. ASSUME NEW x \in ContentsOf(nd) PROVE x \in Entry
  <2>1. PICK p \in Page : Stored(nd, p, x)
    BY <1>3
  <2>2. PICK s : s = nd[p].entries
    OBVIOUS
  <2>3. s \in Seq(Entry) /\ In(s, x)
    BY <1>1, <2>1, <2>2 DEF Stored
  <2> QED
    BY <2>3 DEF In
<1> QED
  BY <1>3, <1>4

LEMMA TreeTyped ==
  ASSUME NEW nd, NEW top, NEW pend, NEW lv, NEW lo, NEW hi, Tree(nd, top, pend, lv, lo, hi)
  PROVE  nd \in [Page -> PageRecords]
  BY DEF Tree, Typed

\* An entry is where the ranges say, or nowhere.
LEMMA EntryPlace ==
  ASSUME NEW nd, NEW top, NEW pend, NEW lv, NEW lo, NEW hi, Tree(nd, top, pend, lv, lo, hi),
         EntriesBounded, NEW p \in Page, nd[p].kind = "leaf",
         NEW e \in Entry, lo[p] <= Rank(e), Rank(e) < hi[p]
  PROVE  /\ e \in ContentsOf(nd) <=> In(nd[p].entries, e)
         /\ \A q \in Page : q # p => ~Stored(nd, q, e)
<1>1. ASSUME NEW q \in Page, Stored(nd, q, e) PROVE q = p
  <2>1. nd[q].kind = "leaf" /\ In(nd[q].entries, e)
    BY <1>1 DEF Stored
  <2>2. /\ q \in Pages(nd) /\ p \in Pages(nd) /\ lv[q] = 0 /\ lv[p] = 0
        /\ Filed(nd[q].entries, lo[q], hi[q])
    BY <2>1, NextLeaf
  <2>3. lo[q] <= Rank(e) /\ Rank(e) < hi[q]
    <3>1. PICK s : s = nd[q].entries
      OBVIOUS
    <3>2. In(s, e) /\ Filed(s, lo[q], hi[q])
      BY <2>1, <2>2, <3>1
    <3> QED
      BY <3>2 DEF In, Filed
  <2>4. Rank(e) \in Int
    BY Ranked
  <2> QED
    BY <2>2, <2>3, <2>4, SamePlace
<1>2. e \in ContentsOf(nd) <=> \E q \in Page : Stored(nd, q, e)
  BY TreeTyped, Entries
<1> QED
  BY <1>1, <1>2 DEF Stored

\* Every entry of a leaf is in its range, and is an entry of the index.
LEMMA StoredRange ==
  ASSUME NEW nd, NEW top, NEW pend, NEW lv, NEW lo, NEW hi, Tree(nd, top, pend, lv, lo, hi),
         EntriesBounded, NEW p \in Page, nd[p].kind = "leaf", NEW i \in 1 .. Len(nd[p].entries)
  PROVE  /\ nd[p].entries[i] \in Entry /\ nd[p].entries[i] \in ContentsOf(nd)
         /\ lo[p] <= Rank(nd[p].entries[i]) /\ Rank(nd[p].entries[i]) < hi[p]
<1>1. PICK s : s = nd[p].entries
  OBVIOUS
<1>2. Filed(s, lo[p], hi[p])
  BY <1>1, NextLeaf
<1>3. s[i] \in Entry /\ lo[p] <= Rank(s[i]) /\ Rank(s[i]) < hi[p]
  BY <1>1, <1>2 DEF Filed
<1>4. In(s, s[i])
  BY <1>1 DEF In
<1> QED
  BY <1>1, <1>3, <1>4, EntryPlace

LEMMA HasEntryIs ==
  ASSUME EntriesBounded, NEW leaf, NEW a, NEW b, Filed(leaf.entries, a, b), NEW e \in Entry
  PROVE  HasEntry(leaf, e) <=> In(leaf.entries, e)
<1>1. ASSUME HasEntry(leaf, e) PROVE In(leaf.entries, e)
  BY <1>1, EntryFound DEF In
<1>2. ASSUME ~HasEntry(leaf, e), In(leaf.entries, e) PROVE FALSE
  <2>1. PICK i \in 1 .. Len(leaf.entries) : leaf.entries[i] = e
    BY <1>2 DEF In
  <2>2. PICK k : k = find_insert_pos(leaf, e)
    OBVIOUS
  <2>3. k \in 1 .. Len(leaf.entries) + 1
        /\ (i < k => Rank(leaf.entries[i]) < Rank(e))
        /\ (k <= i => Rank(e) < Rank(leaf.entries[i]))
    BY <1>2, <2>1, <2>2, EntryMissing
  <2>4. leaf.entries \in Seq(Entry) /\ Rank(e) \in Int
    BY Ranked DEF Filed
  <2>5. i \in Int /\ k \in Int
    BY <2>1, <2>3, <2>4
  <2> QED
    BY <2>1, <2>3, <2>4, <2>5
<1> QED
  BY <1>1, <1>2

-----------------------------------------------------------------------------
(* How a step changes the contents.                                        *)

\* Outside of pages l and r there are the same leaves.
ElsewhereSame(nd, nd2, l, r) ==
  /\ nd \in [Page -> PageRecords] /\ nd2 \in [Page -> PageRecords]
  /\ l \in Page /\ r \in Page
  /\ \A z \in Page : z # l /\ z # r =>
       nd2[z] = nd[z] \/ (nd[z].kind # "leaf" /\ nd2[z].kind # "leaf")

AtPair(nd, l, r, x) == Stored(nd, l, x) \/ Stored(nd, r, x)

LEMMA PairEqual ==
  ASSUME NEW nd, NEW nd2, NEW l, NEW r, ElsewhereSame(nd, nd2, l, r),
         \A x : AtPair(nd2, l, r, x) <=> AtPair(nd, l, r, x)
  PROVE  ContentsOf(nd2) = ContentsOf(nd)
<1>2. \A x : (\E z \in Page : Stored(nd2, z, x)) <=> (\E z \in Page : Stored(nd, z, x))
  <2>1. \A x, z : z \in Page /\ z # l /\ z # r => (Stored(nd2, z, x) <=> Stored(nd, z, x))
    BY DEF ElsewhereSame, Stored
  <2>2. l \in Page /\ r \in Page
    BY DEF ElsewhereSame
  <2> QED
    BY <2>1, <2>2, Zenon DEF AtPair
<1>3. nd \in [Page -> PageRecords] /\ nd2 \in [Page -> PageRecords]
  BY DEF ElsewhereSame
<1>4. \A x : x \in ContentsOf(nd2) <=> x \in ContentsOf(nd)
  BY <1>2, <1>3, Entries
<1> QED
  BY <1>4

LEMMA PairGains ==
  ASSUME NEW nd, NEW nd2, NEW l, NEW r, ElsewhereSame(nd, nd2, l, r), NEW e,
         \A x : AtPair(nd2, l, r, x) <=> AtPair(nd, l, r, x) \/ x = e
  PROVE  ContentsOf(nd2) = ContentsOf(nd) \cup {e}
<1>2. \A x : (\E z \in Page : Stored(nd2, z, x))
             <=> (\E z \in Page : Stored(nd, z, x)) \/ x = e
  <2>1. \A x, z : z \in Page /\ z # l /\ z # r => (Stored(nd2, z, x) <=> Stored(nd, z, x))
    BY DEF ElsewhereSame, Stored
  <2>2. l \in Page /\ r \in Page
    BY DEF ElsewhereSame
  <2> QED
    BY <2>1, <2>2, Zenon DEF AtPair
<1>3. nd \in [Page -> PageRecords] /\ nd2 \in [Page -> PageRecords]
  BY DEF ElsewhereSame
<1>4. \A x : x \in ContentsOf(nd2) <=> x \in ContentsOf(nd) \/ x = e
  BY <1>2, <1>3, Entries
<1> QED
  BY <1>4

LEMMA PairLoses ==
  ASSUME NEW nd, NEW nd2, NEW l, NEW r, ElsewhereSame(nd, nd2, l, r), NEW e,
         \A x : AtPair(nd2, l, r, x) <=> AtPair(nd, l, r, x) /\ x # e,
         \A z \in Page : z # l /\ z # r => ~Stored(nd, z, e)
  PROVE  ContentsOf(nd2) = ContentsOf(nd) \ {e}
<1>2. \A x : (\E z \in Page : Stored(nd2, z, x))
             <=> (\E z \in Page : Stored(nd, z, x)) /\ x # e
  <2>1. \A x, z : z \in Page /\ z # l /\ z # r => (Stored(nd2, z, x) <=> Stored(nd, z, x))
    BY DEF ElsewhereSame, Stored
  <2>2. l \in Page /\ r \in Page
    BY DEF ElsewhereSame
  <2> QED
    BY <2>1, <2>2, Zenon DEF AtPair
<1>3. nd \in [Page -> PageRecords] /\ nd2 \in [Page -> PageRecords]
  BY DEF ElsewhereSame
<1>4. \A x : x \in ContentsOf(nd2) <=> x \in ContentsOf(nd) /\ x # e
  BY <1>2, <1>3, Entries
<1> QED
  BY <1>4

\* The leaves stay as they are.
LEMMA LeavesSame ==
  ASSUME NEW nd, NEW nd2, nd \in [Page -> PageRecords], nd2 \in [Page -> PageRecords],
         \A z \in Page : nd2[z] = nd[z] \/ (nd[z].kind # "leaf" /\ nd2[z].kind # "leaf")
  PROVE  ContentsOf(nd2) = ContentsOf(nd)
<1>1. \A x, z : z \in Page => (Stored(nd2, z, x) <=> Stored(nd, z, x))
  BY DEF Stored
<1>2. \A x : (\E z \in Page : Stored(nd2, z, x)) <=> (\E z \in Page : Stored(nd, z, x))
  BY <1>1, Zenon
<1>3. \A x : x \in ContentsOf(nd2) <=> x \in ContentsOf(nd)
  BY <1>2, Entries
<1> QED
  BY <1>3

\* What is in a sequence that has been changed.
LEMMA InInserted ==
  ASSUME NEW s \in Seq(Entry), NEW k \in 1 .. Len(s) + 1, NEW e \in Entry
  PROVE  \A x : In(InsertAt(s, k, e), x) <=> In(s, x) \/ x = e
<1>1. PICK v : v = InsertAt(s, k, e)
  OBVIOUS
<1>2. /\ Len(v) = Len(s) + 1 /\ v[k] = e /\ Len(s) \in Nat /\ k \in Int
      /\ \A j \in 1 .. k - 1 : v[j] = s[j]
      /\ \A j \in k + 1 .. Len(s) + 1 : v[j] = s[j - 1]
  BY <1>1, EntryInserted
<1>3. ASSUME NEW x, In(v, x) PROVE In(s, x) \/ x = e
  <2>1. PICK j \in 1 .. Len(v) : v[j] = x
    BY <1>3 DEF In
  <2>2. CASE j < k
    BY <1>2, <2>1, <2>2 DEF In
  <2>3. CASE j = k
    BY <1>2, <2>1, <2>3
  <2>4. CASE j > k
    <3>1. j \in k + 1 .. Len(s) + 1 /\ j - 1 \in 1 .. Len(s)
      BY <1>2, <2>1, <2>4
    <3> QED
      BY <3>1, <1>2, <2>1 DEF In
  <2> QED
    BY <1>2, <2>1, <2>2, <2>3, <2>4
<1>4. ASSUME NEW x, In(s, x) PROVE In(v, x)
  <2>1. PICK j \in 1 .. Len(s) : s[j] = x
    BY <1>4 DEF In
  <2>2. CASE j < k
    <3>1. j \in 1 .. k - 1 /\ j \in 1 .. Len(v)
      BY <1>2, <2>1, <2>2
    <3> QED
      BY <3>1, <1>2, <2>1 DEF In
  <2>3. CASE j >= k
    <3>1. j + 1 \in k + 1 .. Len(s) + 1 /\ (j + 1) - 1 = j /\ j + 1 \in 1 .. Len(v)
      BY <1>2, <2>1, <2>3
    <3>2. v[j + 1] = s[j]
      BY <3>1, <1>2
    <3> QED
      BY <3>1, <3>2, <2>1 DEF In
  <2> QED
    BY <1>2, <2>1, <2>2, <2>3
<1>5. In(v, e)
  BY <1>2 DEF In
<1> QED
  BY <1>1, <1>3, <1>4, <1>5

LEMMA InRemoved ==
  ASSUME EntriesBounded, NEW a, NEW b, NEW s, Filed(s, a, b), NEW k \in 1 .. Len(s)
  PROVE  \A x : In(RemoveAt(s, k), x) <=> In(s, x) /\ x # s[k]
<1>1. PICK v : v = RemoveAt(s, k)
  OBVIOUS
<1>2. /\ Len(v) = Len(s) - 1 /\ Len(s) \in Nat /\ k \in Int
      /\ \A j \in 1 .. k - 1 : v[j] = s[j]
      /\ \A j \in k .. Len(s) - 1 : v[j] = s[j + 1]
  <2>1. s \in Seq(Entry)
    BY DEF Filed
  <2> QED
    BY SMTT(60), <1>1, <2>1, EntryRemoved
<1>3. \A j \in 1 .. Len(s) : j # k => s[j] # s[k]
  <2> SUFFICES ASSUME NEW j \in 1 .. Len(s), j # k, s[j] = s[k] PROVE FALSE
    OBVIOUS
  <2>1. s \in Seq(Entry) /\ Rank(s[j]) \in Int
    BY FiledRanks DEF Filed
  <2>2. Rank(s[j]) < Rank(s[k]) \/ Rank(s[k]) < Rank(s[j])
    BY <1>2 DEF Filed
  <2> QED
    BY <2>1, <2>2
<1>4. ASSUME NEW x, In(v, x) PROVE In(s, x) /\ x # s[k]
  <2>1. PICK j \in 1 .. Len(v) : v[j] = x
    BY <1>4 DEF In
  <2>2. CASE j < k
    <3>1. j \in 1 .. k - 1 /\ j \in 1 .. Len(s) /\ j # k
      BY <1>2, <2>1, <2>2
    <3> QED
      BY <3>1, <1>2, <1>3, <2>1 DEF In
  <2>3. CASE j >= k
    <3>1. j \in k .. Len(s) - 1 /\ j + 1 \in 1 .. Len(s) /\ j + 1 # k
      BY <1>2, <2>1, <2>3
    <3>2. v[j] = s[j + 1] /\ s[j + 1] # s[k]
      BY <3>1, <1>2, <1>3
    <3> QED
      BY <3>1, <3>2, <2>1 DEF In
  <2> QED
    BY <1>2, <2>1, <2>2, <2>3
<1>5. ASSUME NEW x, In(s, x), x # s[k] PROVE In(v, x)
  <2>1. PICK j \in 1 .. Len(s) : s[j] = x
    BY <1>5 DEF In
  <2>2. CASE j < k
    <3>1. j \in 1 .. k - 1 /\ j \in 1 .. Len(v)
      BY <1>2, <2>1, <2>2
    <3> QED
      BY <3>1, <1>2, <2>1 DEF In
  <2>3. CASE j > k
    <3>1. j - 1 \in k .. Len(s) - 1 /\ (j - 1) + 1 = j /\ j - 1 \in 1 .. Len(v)
      BY <1>2, <2>1, <2>3
    <3>2. v[j - 1] = s[j]
      BY <3>1, <1>2
    <3> QED
      BY <3>1, <3>2, <2>1 DEF In
  <2>4. j # k
    BY <1>5, <2>1
  <2> QED
    BY <1>2, <2>1, <2>2, <2>3, <2>4
<1> QED
  BY <1>1, <1>4, <1>5

LEMMA InCut ==
  ASSUME NEW s \in Seq(Entry), NEW k \in 0 .. Len(s)
  PROVE  \A x : In(s, x) <=> In(SubSeq(s, 1, k), x) \/ In(SubSeq(s, k + 1, Len(s)), x)
<1>1. PICK u : u = SubSeq(s, 1, k)
  OBVIOUS
<1>2. PICK v : v = SubSeq(s, k + 1, Len(s))
  OBVIOUS
<1>3. /\ Len(s) \in Nat /\ k \in Int /\ k >= 0 /\ k <= Len(s)
      /\ Len(u) = k /\ \A j \in 1 .. k : u[j] = s[j]
      /\ Len(v) = Len(s) - k /\ \A j \in 1 .. Len(s) - k : v[j] = s[j + k]
  <2>1. Len(u) = k - 1 + 1 /\ \A j \in 1 .. k - 1 + 1 : u[j] = s[j + 1 - 1]
    BY <1>1, Cut
  <2>2. k + 1 \in 1 .. Len(s) + 1 /\ Len(s) \in 0 .. Len(s) /\ k + 1 <= Len(s) + 1
    OBVIOUS
  <2>3. Len(v) = Len(s) - (k + 1) + 1
        /\ \A j \in 1 .. Len(s) - (k + 1) + 1 : v[j] = s[j + (k + 1) - 1]
    BY <1>2, <2>2, Cut
  <2>4. \A j \in 1 .. Len(s) - k : v[j] = s[j + k]
    <3> SUFFICES ASSUME NEW j \in 1 .. Len(s) - k PROVE v[j] = s[j + k]
      OBVIOUS
    <3>1. j \in 1 .. Len(s) - (k + 1) + 1 /\ j + (k + 1) - 1 = j + k
      OBVIOUS
    <3> QED
      BY <3>1, <2>3
  <2>5. \A j \in 1 .. k : u[j] = s[j]
    <3> SUFFICES ASSUME NEW j \in 1 .. k PROVE u[j] = s[j]
      OBVIOUS
    <3>1. j \in 1 .. k - 1 + 1 /\ j + 1 - 1 = j
      OBVIOUS
    <3> QED
      BY <3>1, <2>1
  <2> QED
    BY <2>1, <2>3, <2>4, <2>5
<1>4. ASSUME NEW x, In(s, x) PROVE In(u, x) \/ In(v, x)
  <2>1. PICK j \in 1 .. Len(s) : s[j] = x
    BY <1>4 DEF In
  <2>2. CASE j <= k
    BY <1>3, <2>1, <2>2 DEF In
  <2>3. CASE j > k
    <3>1. j - k \in 1 .. Len(s) - k /\ (j - k) + k = j
      BY <1>3, <2>1, <2>3
    <3>2. v[j - k] = s[j]
      BY <3>1, <1>3
    <3> QED
      BY <3>1, <3>2, <1>3, <2>1 DEF In
  <2> QED
    BY <1>3, <2>1, <2>2, <2>3
<1>5. ASSUME NEW x, In(u, x) PROVE In(s, x)
  <2>1. PICK j \in 1 .. k : u[j] = x
    BY <1>3, <1>5 DEF In
  <2>2. j \in 1 .. Len(s) /\ s[j] = x
    BY <1>3, <2>1
  <2> QED
    BY <2>2 DEF In
<1>6. ASSUME NEW x, In(v, x) PROVE In(s, x)
  <2>1. PICK j \in 1 .. Len(s) - k : v[j] = x
    BY <1>3, <1>6 DEF In
  <2>2. j + k \in 1 .. Len(s) /\ s[j + k] = x
    BY <1>3, <2>1
  <2> QED
    BY <2>2 DEF In
<1> QED
  BY <1>1, <1>2, <1>4, <1>5, <1>6

LEMMA InJoined ==
  ASSUME NEW s \in Seq(Entry), NEW u \in Seq(Entry)
  PROVE  \A x : In(s \o u, x) <=> In(s, x) \/ In(u, x)
<1>1. PICK v : v = s \o u
  OBVIOUS
<1>2. /\ Len(s) \in Nat /\ Len(u) \in Nat /\ Len(v) = Len(s) + Len(u)
      /\ \A j \in 1 .. Len(s) : v[j] = s[j]
      /\ \A j \in Len(s) + 1 .. Len(s) + Len(u) : v[j] = u[j - Len(s)]
  BY <1>1, Joined
<1>3. ASSUME NEW x, In(v, x) PROVE In(s, x) \/ In(u, x)
  <2>1. PICK j \in 1 .. Len(v) : v[j] = x
    BY <1>3 DEF In
  <2>2. CASE j <= Len(s)
    BY <1>2, <2>1, <2>2 DEF In
  <2>3. CASE j > Len(s)
    <3>1. j \in Len(s) + 1 .. Len(s) + Len(u) /\ j - Len(s) \in 1 .. Len(u)
      BY <1>2, <2>1, <2>3
    <3> QED
      BY <3>1, <1>2, <2>1 DEF In
  <2> QED
    BY <1>2, <2>1, <2>2, <2>3
<1>4. ASSUME NEW x, In(s, x) PROVE In(v, x)
  <2>1. PICK j \in 1 .. Len(s) : s[j] = x
    BY <1>4 DEF In
  <2>2. j \in 1 .. Len(v) /\ v[j] = x
    BY <1>2, <2>1
  <2> QED
    BY <2>2 DEF In
<1>5. ASSUME NEW x, In(u, x) PROVE In(v, x)
  <2>1. PICK j \in 1 .. Len(u) : u[j] = x
    BY <1>5 DEF In
  <2>2. j + Len(s) \in Len(s) + 1 .. Len(s) + Len(u) /\ (j + Len(s)) - Len(s) = j
    BY <1>2, <2>1
  <2>3. v[j + Len(s)] = u[j] /\ j + Len(s) \in 1 .. Len(v)
    BY <2>2, <1>2
  <2> QED
    BY <2>1, <2>3 DEF In
<1> QED
  BY <1>1, <1>3, <1>4, <1>5

-----------------------------------------------------------------------------
(* What the updates do to the contents.                                    *)

LEMMA OneChanged ==
  ASSUME NEW nd, nd \in [Page -> PageRecords], NEW p \in Page, NEW n,
         NEW nd2, nd2 = Put(nd, p, n), nd2 \in [Page -> PageRecords]
  PROVE  ElsewhereSame(nd, nd2, p, p) /\ nd2[p] = n
  BY DEF ElsewhereSame, Put

\* insert into a leaf with room adds the entry, which was not there.
LEMMA GainsEntry ==
  ASSUME NEW nd, NEW top, NEW pend, NEW lv, NEW lo, NEW hi, Tree(nd, top, pend, lv, lo, hi),
         EntriesBounded, NEW p \in Page, nd[p].kind = "leaf",
         NEW e \in Entry, ~HasEntry(nd[p], e), lo[p] <= Rank(e), Rank(e) < hi[p],
         NEW nd2, nd2 = Put(nd, p, WithEntry(nd[p], e))
  PROVE  ContentsOf(nd2) = ContentsOf(nd) \cup {e} /\ e \notin ContentsOf(nd)
<1>1. PICK leaf : leaf = nd[p]
  OBVIOUS
<1>2. PICK k : k = find_insert_pos(leaf, e)
  OBVIOUS
<1>3. leaf \in LeafRecords /\ Filed(leaf.entries, lo[p], hi[p]) /\ leaf.kind = "leaf"
  BY <1>1, LeafRecord, NextLeaf
<1>4. leaf.entries \in Seq(Entry) /\ k \in 1 .. Len(leaf.entries) + 1
  BY <1>1, <1>2, <1>3, EntryMissing, LeafFields
<1>5. PICK n : n = WithEntry(leaf, e)
  OBVIOUS
<1>6. n.kind = "leaf" /\ n.entries = InsertAt(leaf.entries, k, e)
  BY <1>2, <1>3, <1>5, InsertedAt DEF WithEntry, LeafWith
<1>7. nd \in [Page -> PageRecords] /\ nd2 \in [Page -> PageRecords]
  <2>1. Tree(nd2, top, pend, lv, lo, hi)
    BY LeafGains
  <2> QED
    BY <2>1, TreeTyped
<1>8. nd2 = Put(nd, p, n)
  BY <1>1, <1>5
<1>9. ElsewhereSame(nd, nd2, p, p) /\ nd2[p] = n
  BY <1>7, <1>8, OneChanged
<1>10. \A x : In(n.entries, x) <=> In(leaf.entries, x) \/ x = e
  BY <1>4, <1>6, InInserted
<1>11. \A x : AtPair(nd2, p, p, x) <=> AtPair(nd, p, p, x) \/ x = e
  BY <1>1, <1>3, <1>6, <1>9, <1>10 DEF AtPair, Stored
<1>12. ~In(leaf.entries, e)
  BY <1>1, <1>3, HasEntryIs
<1> QED
  BY <1>1, <1>9, <1>11, <1>12, PairGains, EntryPlace

\* insert into a leaf that becomes full adds the entry: the split loses nothing.
LEMMA SplitGains ==
  ASSUME NEW nd, NEW top, NEW pend, NEW lv, NEW lo, NEW hi, Tree(nd, top, pend, lv, lo, hi),
         EntriesBounded, NEW p \in Page, nd[p].kind = "leaf",
         pend[p] = NoPage, \A r \in Page : pend[r] # p,
         NEW e \in Entry, ~HasEntry(nd[p], e), lo[p] <= Rank(e), Rank(e) < hi[p],
         size(nd[p]) + 1 = LeafMax, NEW q \in Page, nd[q] = Free,
         NEW full, full = WithEntry(nd[p], e),
         NEW nd2, nd2 = Put(Put(nd, p, LeftLeaf(full, q)), q, RightLeaf(full))
  PROVE  ContentsOf(nd2) = ContentsOf(nd) \cup {e} /\ e \notin ContentsOf(nd)
<1>1. PICK nd1 : nd1 = Put(nd, p, full)
  OBVIOUS
<1>2. /\ ContentsOf(nd1) = ContentsOf(nd) \cup {e} /\ e \notin ContentsOf(nd)
      /\ Tree(nd1, top, pend, lv, lo, hi) /\ full = LeafWith(full.entries, nd[p].next)
      /\ Filed(full.entries, lo[p], hi[p]) /\ Len(full.entries) = LeafMax
  BY <1>1, GainsEntry, LeafGains
<1>3. PICK v : v = full.entries
  OBVIOUS
<1>4. PICK k : k = SplitAt - 1
  OBVIOUS
<1>5. v \in Seq(Entry) /\ k \in 0 .. Len(v) /\ SplitAt \in 1 .. Len(v) + 1 /\ SplitAt = k + 1
  <2>1. v \in Seq(Entry) /\ Len(v) = LeafMax
    BY <1>2, <1>3 DEF Filed
  <2> QED
    BY <2>1, <1>4, SizeAssumption DEF SplitAt
<1>6. full \in LeafRecords /\ full.kind = "leaf"
  <2>1. nd1[p] = full /\ nd1 \in [Page -> PageRecords]
    BY <1>1, <1>2, TreeTyped DEF Put
  <2>2. full.kind = "leaf"
    BY <1>2 DEF LeafWith
  <2> QED
    BY <2>1, <2>2, Kinds
<1>7. PICK left : left = SubSeq(v, 1, k)
  OBVIOUS
<1>8. PICK right : right = SubSeq(v, k + 1, Len(v))
  OBVIOUS
<1>9. /\ LeftLeaf(full, q).kind = "leaf" /\ LeftLeaf(full, q).entries = left
      /\ RightLeaf(full).kind = "leaf" /\ RightLeaf(full).entries = right
  <2>1. KeptBySplit(full, SplitAt) = LeafWith(left, full.next)
        /\ MovedBySplit(full, SplitAt) = right
    BY <1>3, <1>4, <1>5, <1>6, <1>7, <1>8, LeafCut
  <2>2. \A m : [LeafWith(left, full.next) EXCEPT !.next = m] = LeafWith(left, m)
    BY DEF LeafWith
  <2>3. [EmptyLeaf(full.next) EXCEPT !.entries = right] = LeafWith(right, full.next)
    BY DEF LeafWith, EmptyLeaf
  <2> QED
    BY <2>1, <2>2, <2>3 DEF LeftLeaf, RightLeaf, LeafWith
<1>10. \A x : In(v, x) <=> In(left, x) \/ In(right, x)
  BY <1>5, <1>7, <1>8, InCut
<1>11. nd1 \in [Page -> PageRecords] /\ nd2 \in [Page -> PageRecords] /\ q # p
  <2>1. \E x : q # p /\ Tree(nd2, top, Put(pend, p, q), Put(lv, q, lv[p]), Put(lo, q, x),
                             Put(Put(hi, p, x), q, hi[p]))
    BY LeafHalved
  <2> QED
    BY <1>2, <2>1, TreeTyped
<1>12. PICK a : a = LeftLeaf(full, q)
  OBVIOUS
<1>13. PICK b : b = RightLeaf(full)
  OBVIOUS
<1>14. /\ nd2[p] = a /\ nd2[q] = b /\ nd1[p] = full /\ nd1[q] = Free
       /\ \A z \in Page : z # p /\ z # q => nd2[z] = nd1[z]
  <2>1. nd \in [Page -> PageRecords]
    BY TreeTyped
  <2>2. nd2 = Put(Put(nd, p, a), q, b)
    BY <1>12, <1>13
  <2> QED
    BY <2>1, <2>2, <1>1, <1>11 DEF Put
<1>15. ElsewhereSame(nd1, nd2, p, q)
  BY <1>11, <1>14 DEF ElsewhereSame
<1>16. \A x : AtPair(nd2, p, q, x) <=> AtPair(nd1, p, q, x)
  <2>1. Free.kind # "leaf"
    BY DEF Free
  <2>2. \A x : Stored(nd2, p, x) <=> In(left, x)
    BY <1>9, <1>12, <1>14 DEF Stored
  <2>3. \A x : Stored(nd2, q, x) <=> In(right, x)
    BY <1>9, <1>13, <1>14 DEF Stored
  <2>4. \A x : Stored(nd1, p, x) <=> In(v, x)
    BY <1>3, <1>6, <1>14 DEF Stored
  <2>5. \A x : ~Stored(nd1, q, x)
    BY <2>1, <1>14 DEF Stored
  <2> QED
    BY <2>2, <2>3, <2>4, <2>5, <1>10 DEF AtPair
<1>17. ContentsOf(nd2) = ContentsOf(nd1)
  BY <1>15, <1>16, PairEqual
<1> QED
  BY <1>2, <1>17

\* remove takes out the entry, which was there.
LEMMA LosesEntry ==
  ASSUME NEW nd, NEW top, NEW pend, NEW lv, NEW lo, NEW hi, Tree(nd, top, pend, lv, lo, hi),
         EntriesBounded, TombCap = 0, NEW p \in Page, nd[p].kind = "leaf",
         NEW e \in Entry, ~Absent(nd[p], e), lo[p] <= Rank(e), Rank(e) < hi[p],
         NEW nd2, nd2 = Put(nd, p, WithoutEntry(nd[p], e))
  PROVE  ContentsOf(nd2) = ContentsOf(nd) \ {e} /\ e \in ContentsOf(nd)
<1>1. PICK leaf : leaf = nd[p]
  OBVIOUS
<1>2. PICK k : k = find_insert_pos(leaf, e)
  OBVIOUS
<1>3. leaf \in LeafRecords /\ Filed(leaf.entries, lo[p], hi[p]) /\ leaf.kind = "leaf"
  BY <1>1, LeafRecord, NextLeaf
<1>4. PICK n : n = WithoutEntry(leaf, e)
  OBVIOUS
<1>5. /\ HasEntry(leaf, e) /\ n.kind = "leaf" /\ n.entries = RemoveAt(leaf.entries, k)
  BY <1>1, <1>2, <1>3, <1>4, PhysicalRemoval DEF LeafWith
<1>6. k \in 1 .. Len(leaf.entries) /\ leaf.entries[k] = e
  BY <1>2, <1>3, <1>5, EntryFound
<1>7. nd \in [Page -> PageRecords] /\ nd2 \in [Page -> PageRecords]
  <2>1. Tree(nd2, top, pend, lv, lo, hi)
    BY LeafLoses
  <2> QED
    BY <2>1, TreeTyped
<1>8. nd2 = Put(nd, p, n)
  BY <1>1, <1>4
<1>9. ElsewhereSame(nd, nd2, p, p) /\ nd2[p] = n
  BY <1>7, <1>8, OneChanged
<1>10. \A x : In(n.entries, x) <=> In(leaf.entries, x) /\ x # e
  BY <1>3, <1>5, <1>6, InRemoved
<1>11. \A x : AtPair(nd2, p, p, x) <=> AtPair(nd, p, p, x) /\ x # e
  BY <1>1, <1>3, <1>5, <1>9, <1>10 DEF AtPair, Stored
<1>12. In(leaf.entries, e)
  BY <1>6 DEF In
<1>13. e \in ContentsOf(nd) /\ \A z \in Page : z # p => ~Stored(nd, z, e)
  BY <1>1, <1>12, EntryPlace
<1> QED
  BY <1>9, <1>11, <1>13, PairLoses

\* A leaf without entries can go.
LEMMA EmptyLeafFreed ==
  ASSUME NEW nd, nd \in [Page -> PageRecords], NEW p \in Page, nd[p].kind = "leaf",
         size(nd[p]) = 0, NEW nd2, nd2 = Put(nd, p, Free)
  PROVE  nd2 \in [Page -> PageRecords] /\ ContentsOf(nd2) = ContentsOf(nd)
<1>1. nd2 \in [Page -> PageRecords] /\ Free.kind # "leaf"
  BY DEF Put, PageRecords, Free
<1>2. ElsewhereSame(nd, nd2, p, p) /\ nd2[p] = Free
  BY <1>1, OneChanged
<1>3. PICK leaf : leaf = nd[p]
  OBVIOUS
<1>4. leaf \in LeafRecords
  BY <1>3, Kinds
<1>5. Len(leaf.entries) = 0
  BY <1>3, <1>4, LeafFields
<1>6. \A x : ~In(leaf.entries, x)
  BY <1>5 DEF In
<1>7. \A x : AtPair(nd2, p, p, x) <=> AtPair(nd, p, p, x)
  BY <1>1, <1>2, <1>3, <1>6 DEF AtPair, Stored
<1> QED
  BY <1>1, <1>2, <1>7, PairEqual

\* Where there is no page there is no entry.
LEMMA NothingStored ==
  ASSUME NEW nd, nd \in [Page -> PageRecords], Pages(nd) = {}
  PROVE  ContentsOf(nd) = {}
<1>1. \A p \in Page : nd[p].kind # "leaf"
  BY DEF Pages
<1> QED
  BY <1>1, Entries DEF Stored

\* The first entry of a tree.
LEMMA FirstEntry ==
  ASSUME NEW nd, NEW pend, NEW lv, NEW lo, NEW hi, Tree(nd, NoPage, pend, lv, lo, hi),
         EntriesBounded, NEW p \in Page, NEW e \in Entry,
         NEW nd2, nd2 = Put(nd, p, insert_at(EmptyLeaf(INVALID_PAGE_ID), 1, e))
  PROVE  ContentsOf(nd) = {} /\ ContentsOf(nd2) = {e}
<1>1. nd \in [Page -> PageRecords] /\ Pages(nd) = {}
  BY TreeTyped DEF Tree, Rooted
<1>2. ContentsOf(nd) = {}
  BY <1>1, NothingStored
<1>3. nd2 \in [Page -> PageRecords]
  BY TreePlanted, TreeTyped
<1>4. PICK leaf : leaf = EmptyLeaf(INVALID_PAGE_ID)
  OBVIOUS
<1>5. PICK n : n = insert_at(leaf, 1, e)
  OBVIOUS
<1>6. leaf \in LeafRecords /\ leaf.entries = <<>>
  <2>1. leaf = LeafWith(<<>>, NoPage)
    BY <1>4 DEF EmptyLeaf, LeafWith, NoPage
  <2>2. <<>> \in Seq(Entry) /\ NoPage \in Page \cup {NoPage}
    OBVIOUS
  <2> QED
    BY <2>1, <2>2, LeafMade
<1>7. n.kind = "leaf" /\ n.entries = InsertAt(<<>>, 1, e)
  BY <1>5, <1>6, InsertedAt DEF LeafWith
<1>8. \A x : In(n.entries, x) <=> x = e
  <2>1. <<>> \in Seq(Entry) /\ 1 \in 1 .. Len(<<>>) + 1
    OBVIOUS
  <2>2. \A x : In(InsertAt(<<>>, 1, e), x) <=> In(<<>>, x) \/ x = e
    BY <2>1, InInserted
  <2>3. \A x : ~In(<<>>, x)
    BY DEF In
  <2> QED
    BY <2>2, <2>3, <1>7
<1>9. ElsewhereSame(nd, nd2, p, p) /\ nd2[p] = n
  BY <1>1, <1>3, <1>4, <1>5, OneChanged
<1>10. \A x : ~Stored(nd, p, x)
  BY <1>1 DEF Pages, Stored
<1>11. \A x : AtPair(nd2, p, p, x) <=> AtPair(nd, p, p, x) \/ x = e
  BY <1>7, <1>8, <1>9, <1>10 DEF AtPair, Stored
<1>12. ContentsOf(nd2) = ContentsOf(nd) \cup {e}
  BY <1>9, <1>11, PairGains
<1> QED
  BY <1>2, <1>12

\* Two leaves share their entries out anew, and the page above them changes.
LEMMA EvenedContents ==
  ASSUME NEW nd, nd \in [Page -> PageRecords], NEW p \in Page, NEW l \in Page, NEW r \in Page,
         l # r, l # p, r # p, nd[l] \in LeafRecords, nd[r] \in LeafRecords,
         nd[p].kind = "internal", NEW left, NEW right, NEW x, NEW y, NEW n, n.kind = "internal",
         \A e : In(left, e) \/ In(right, e) <=> In(nd[l].entries, e) \/ In(nd[r].entries, e),
         NEW nd2, nd2 = Put(Put(Put(nd, l, LeafWith(left, x)), r, LeafWith(right, y)), p, n),
         nd2 \in [Page -> PageRecords]
  PROVE  ContentsOf(nd2) = ContentsOf(nd)
<1>1. PICK a : a = LeafWith(left, x)
  OBVIOUS
<1>2. PICK b : b = LeafWith(right, y)
  OBVIOUS
<1>3. /\ nd2[l] = a /\ nd2[r] = b /\ nd2[p] = n
      /\ \A z \in Page : z # l /\ z # r /\ z # p => nd2[z] = nd[z]
  <2>1. nd2 = Put(Put(Put(nd, l, a), r, b), p, n)
    BY <1>1, <1>2
  <2> QED
    BY ONLY <2>1, nd \in [Page -> PageRecords], p \in Page, l \in Page, r \in Page, l # r, l # p,
            r # p DEF Put
<1>4. a.kind = "leaf" /\ a.entries = left /\ b.kind = "leaf" /\ b.entries = right
  BY <1>1, <1>2 DEF LeafWith
<1>5. ElsewhereSame(nd, nd2, l, r)
  BY <1>3 DEF ElsewhereSame
<1>6. nd[l].kind = "leaf" /\ nd[r].kind = "leaf"
  BY Kinds
<1>7. \A e : AtPair(nd2, l, r, e) <=> AtPair(nd, l, r, e)
  <2>1. \A e : AtPair(nd2, l, r, e) <=> In(left, e) \/ In(right, e)
    BY <1>3, <1>4 DEF AtPair, Stored
  <2>2. \A e : AtPair(nd, l, r, e) <=> In(nd[l].entries, e) \/ In(nd[r].entries, e)
    BY <1>6 DEF AtPair, Stored
  <2> QED
    BY <2>1, <2>2
<1> QED
  BY <1>5, <1>7, PairEqual

\* redistribute_leaf_pair loses no entry and adds none.
LEMMA CutContents ==
  ASSUME NEW nd, NEW l, NEW r, nd[l] \in LeafRecords, nd[r] \in LeafRecords,
         NEW k \in Nat, k < Len(nd[l].entries) + Len(nd[r].entries), k = CutAt(nd[l], nd[r])
  PROVE  \A e : In(EvenedLeft(nd, l, r), e) \/ In(EvenedRight(nd, l, r), e)
                <=> In(nd[l].entries, e) \/ In(nd[r].entries, e)
<1> DEFINE left == nd[l]
           right == nd[r]
<1>0. PICK both : both = left.entries \o right.entries
  OBVIOUS
<1>1. left.entries \in Seq(Entry) /\ right.entries \in Seq(Entry)
  BY LeafFields
<1>2. PICK s : s = left.entries
  OBVIOUS
<1>3. PICK u : u = right.entries
  OBVIOUS
<1>4. s \in Seq(Entry) /\ u \in Seq(Entry) /\ both = s \o u
  BY <1>0, <1>1, <1>2, <1>3
<1>5. both \in Seq(Entry) /\ Len(both) = Len(s) + Len(u)
  BY <1>4, Joined
<1>6. k \in 0 .. Len(both)
  <2>1. k < Len(s) + Len(u)
    BY <1>2, <1>3
  <2>2. PICK n : n = Len(both)
    OBVIOUS
  <2>3. n \in Nat /\ k < n
    BY <1>5, <2>1, <2>2
  <2>4. k \in 0 .. n
    BY ONLY <2>3, k \in Nat
  <2> QED
    BY <2>2, <2>4
<1>7. \A e : In(both, e) <=> In(s, e) \/ In(u, e)
  BY <1>4, InJoined
<1>8. \A e : In(both, e) <=> In(SubSeq(both, 1, k), e) \/ In(SubSeq(both, k + 1, Len(both)), e)
  BY <1>5, <1>6, InCut
<1>9. EvenedLeft(nd, l, r) = SubSeq(both, 1, k)
      /\ EvenedRight(nd, l, r) = SubSeq(both, k + 1, Len(both))
  BY <1>0 DEF EvenedLeft, EvenedRight, Both
<1> QED
  BY <1>2, <1>3, <1>7, <1>8, <1>9

\* merge_leaf_pair keeps the entries of both leaves.
LEMMA MergedEntries ==
  ASSUME NEW left \in LeafRecords, NEW right \in LeafRecords
  PROVE  /\ MergedLeaf(left, right).kind = "leaf"
         /\ \A e : In(MergedLeaf(left, right).entries, e)
                     <=> In(left.entries, e) \/ In(right.entries, e)
<1>1. PICK a : a = MergedLeaf(left, right)
  OBVIOUS
<1>2. PICK s : s = left.entries
  OBVIOUS
<1>3. PICK u : u = right.entries
  OBVIOUS
<1>4. s \in Seq(Entry) /\ u \in Seq(Entry)
  BY <1>2, <1>3, LeafFields
<1>5. a.kind = "leaf" /\ a.entries = s \o u
  <2>1. a = LeafWith(s \o u, right.next)
    BY <1>1, <1>2, <1>3, LeavesMerged
  <2> QED
    BY ONLY <2>1 DEF LeafWith
<1>6. \A e : In(a.entries, e) <=> In(s, e) \/ In(u, e)
  BY <1>4, <1>5, InJoined
<1> QED
  BY <1>1, <1>2, <1>3, <1>5, <1>6

\* Two leaves become one, and the page above them changes.
LEMMA JointContents ==
  ASSUME NEW nd, nd \in [Page -> PageRecords], NEW p \in Page, NEW l \in Page, NEW r \in Page,
         l # r, l # p, r # p, nd[l].kind = "leaf", nd[r].kind = "leaf", nd[p].kind = "internal",
         NEW nd2 \in [Page -> PageRecords], nd2[p].kind = "internal",
         nd2[l].kind = "leaf", nd2[r].kind # "leaf",
         \A e : In(nd2[l].entries, e) <=> In(nd[l].entries, e) \/ In(nd[r].entries, e),
         \A z \in Page : z # l /\ z # r /\ z # p => nd2[z] = nd[z]
  PROVE  ContentsOf(nd2) = ContentsOf(nd)
<1>8. ElsewhereSame(nd, nd2, l, r)
  BY DEF ElsewhereSame
<1>10. \A e : AtPair(nd2, l, r, e) <=> AtPair(nd, l, r, e)
  <2>1. \A e : AtPair(nd2, l, r, e) <=> In(nd2[l].entries, e)
    BY DEF AtPair, Stored
  <2>2. \A e : AtPair(nd, l, r, e) <=> In(nd[l].entries, e) \/ In(nd[r].entries, e)
    BY DEF AtPair, Stored
  <2> QED
    BY <2>1, <2>2
<1> QED
  BY <1>8, <1>10, PairEqual

-----------------------------------------------------------------------------
(* What a lookup finds.                                                    *)

\* The entries that a call asks for.
Sought(o) ==
  {e \in Entry : e[1] = o.entry[1] \/ (o.kind = "scan" /\ e[1] > o.entry[1])}

\* A lookup goes down to where the first entry that it asks for would be, or to
\* the end of the page before.
LEMMA ChildRanges ==
  ASSUME NEW nd, NEW top, NEW pend, NEW lv, NEW lo, NEW hi, Tree(nd, top, pend, lv, lo, hi),
         EntriesBounded, NEW p \in Page, nd[p].kind = "internal", NEW e \in LeastEntries,
         NEW c, c = value_at(nd[p], find_child_idx(nd[p], e[1]))
  PROVE  /\ c \in Pages(nd) /\ c \in Page
         /\ lo[p] <= Rank(e) => lo[c] <= Rank(e)
         /\ pend[c] = NoPage /\ Rank(e) <= hi[p] => Rank(e) <= hi[c]
<1>1. PICK i : i = find_child_idx(nd[p], e[1]) + 1
  OBVIOUS
<1>2. /\ Row(nd[p].children, nd[p].seps, lo[p], hi[p], lv[p], Pages(nd), lv, lo, Ends(pend, hi))
      /\ Len(nd[p].children) = Len(nd[p].seps) + 1 /\ Len(nd[p].seps) \in Nat
  BY Children DEF NodeOK
<1>3. e \in Entry
  BY DEF LeastEntries
<1>4. /\ find_child_idx(nd[p], e[1]) \in 0 .. Len(nd[p].seps)
      /\ lo[p] <= Rank(e) => From(nd[p].seps, lo[p], i) <= Rank(e)
      /\ Rank(e) <= hi[p] => Rank(e) <= To(nd[p].seps, hi[p], i)
  BY <1>1, <1>2, <1>3, ChildLookedUp
<1>5. i \in 1 .. Len(nd[p].children)
  BY <1>1, <1>2, <1>4
<1>6. c = nd[p].children[i]
  BY <1>1 DEF value_at
<1>7. /\ c \in Pages(nd) /\ lo[c] = From(nd[p].seps, lo[p], i)
      /\ Ends(pend, hi)[c] = To(nd[p].seps, hi[p], i)
  BY <1>2, <1>5, <1>6 DEF Row
<1>8. c \in Page
  BY <1>7 DEF Pages
<1>9. pend[c] = NoPage => Ends(pend, hi)[c] = hi[c]
  BY <1>8, EndsAt
<1> QED
  BY <1>4, <1>7, <1>8, <1>9

\* The entries with smaller keys come first.
LEMMA SmallerKeys ==
  ASSUME EntriesBounded, NEW s, NEW a, NEW b, Filed(s, a, b), NEW key \in Int
  PROVE  /\ Len(s) \in Nat /\ \A i \in 1 .. Len(s) : s[i] \in Entry /\ s[i][1] \in Int
         /\ \E k \in 0 .. Len(s) : {i \in 1 .. Len(s) : s[i][1] < key} = 1 .. k
         /\ \E k \in 0 .. Len(s) : {i \in 1 .. Len(s) : s[i][1] <= key} = 1 .. k
<1>1. Len(s) \in Nat /\ \A i \in 1 .. Len(s) : s[i] \in Entry /\ s[i][1] \in Int
  BY FiledRanks, OrderOfKeys DEF Filed
<1>2. PICK n \in Nat : n = Len(s)
  BY <1>1
<1>3. ASSUME NEW i \in 1 .. n, NEW j \in 1 .. i PROVE s[j][1] <= s[i][1] /\ j \in 1 .. n
  <2>1. j \in 1 .. n /\ (j = i \/ j < i)
    BY <1>2
  <2>2. CASE j = i
    BY <1>1, <1>2, <2>1, <2>2
  <2>3. CASE j < i
    <3>1. Rank(s[j]) < Rank(s[i]) /\ s[i] \in Entry /\ s[j] \in Entry
      BY <1>1, <1>2, <2>1, <2>3 DEF Filed
    <3> QED
      BY <2>1, <3>1, OrderOfKeys
  <2> QED
    BY <2>1, <2>2, <2>3
<1>4. \E k \in 0 .. n : {i \in 1 .. n : s[i][1] < key} = 1 .. k
  <2> DEFINE T == {i \in 1 .. n : s[i][1] < key}
  <2>1. T \in SUBSET (1 .. n)
    OBVIOUS
  <2>2. \A i \in T : \A j \in 1 .. i : j \in T
    BY <1>1, <1>2, <1>3
  <2> HIDE DEF T
  <2> QED
    BY <2>1, <2>2, Prefix DEF T
<1>5. \E k \in 0 .. n : {i \in 1 .. n : s[i][1] <= key} = 1 .. k
  <2> DEFINE T == {i \in 1 .. n : s[i][1] <= key}
  <2>1. T \in SUBSET (1 .. n)
    OBVIOUS
  <2>2. \A i \in T : \A j \in 1 .. i : j \in T
    BY <1>1, <1>2, <1>3
  <2> HIDE DEF T
  <2> QED
    BY <2>1, <2>2, Prefix DEF T
<1> QED
  BY <1>1, <1>2, <1>4, <1>5

\* find_pos, and the entries of a leaf that a lookup takes, as a part of the leaf.
LEMMA MatchingPart ==
  ASSUME EntriesBounded, NEW leaf \in LeafRecords, NEW a \in Int, NEW b,
         Filed(leaf.entries, a, b), NEW o, o.entry \in LeastEntries, o.kind \in Lookups,
         o.kind = "scan" /\ o.pc # "search" => Rank(o.entry) <= a
  PROVE  \E d \in 0 .. Len(leaf.entries) : \E c \in 1 .. d + 1 :
           /\ Matching(o, leaf) = SubSeq(leaf.entries, c, d)
           /\ \A i \in 1 .. Len(leaf.entries) :
                i \in c .. d <=> leaf.entries[i] \in Sought(o)
<1>1. PICK s : s = leaf.entries
  OBVIOUS
<1>2. PICK key : key = o.entry[1]
  OBVIOUS
<1>3. /\ Filed(s, a, b) /\ s \in Seq(Entry) /\ key \in Int /\ o.entry \in Entry
      /\ LiveIndexes(leaf) = 1 .. Len(s)
  BY <1>1, <1>2, LeafFields, OrderOfKeys DEF Filed, LeastEntries
<1>4. PICK n \in Nat : n = Len(s)
  BY <1>3
<1>5. \A i \in 1 .. n : s[i] \in Entry /\ s[i][1] \in Int
  BY <1>3, <1>4, SmallerKeys
<1>6. PICK k \in 0 .. n : {i \in 1 .. n : s[i][1] < key} = 1 .. k
  BY <1>3, <1>4, SmallerKeys, ZenonT(30)
<1>7. PICK d \in 0 .. n : {i \in 1 .. n : s[i][1] <= key} = 1 .. d
  BY <1>3, <1>4, SmallerKeys, ZenonT(30)
<1>8. \A i \in 1 .. n : (i <= k <=> s[i][1] < key) /\ (i <= d <=> s[i][1] <= key)
  <2>1. \A i \in 1 .. n : i \in 1 .. k <=> s[i][1] < key
    BY <1>6
  <2>2. \A i \in 1 .. n : i \in 1 .. d <=> s[i][1] <= key
    BY <1>7
  <2> QED
    BY <2>1, <2>2
<1>9. k <= d
  <2>1. CASE k = 0
    BY <2>1
  <2>2. CASE k # 0
    <3>1. k \in 1 .. n
      BY <2>2
    <3>2. PICK v : v = s[k][1]
      OBVIOUS
    <3>3. v \in Int /\ key \in Int /\ v < key
      BY <1>3, <1>5, <1>8, <3>1, <3>2
    <3>4. v <= key
      BY ONLY <3>3
    <3> QED
      BY <1>8, <3>1, <3>2, <3>4
  <2> QED
    BY <2>1, <2>2
<1>10. find_pos(leaf, key) = k + 1
  <2>1. find_pos(leaf, key) = lower_bound_by(leaf, {i \in DOMAIN s : s[i][1] < key})
    BY <1>1 DEF find_pos
  <2>2. DOMAIN s = 1 .. n
    BY <1>3, <1>4
  <2>3. lower_bound_by(leaf, 1 .. k) = k + 1
    BY <1>1, <1>4, LowerBoundFound
  <2> QED
    BY <2>1, <2>2, <2>3, <1>6
<1> DEFINE Taken(i) == /\ o.pc = "search" => i >= find_pos(leaf, o.entry[1])
                       /\ o.kind = "get" => leaf.entries[i][1] = o.entry[1]
<1>11. Matching(o, leaf) = ElementsAt(s, {i \in 1 .. n : Taken(i)})
  BY <1>1, <1>3, <1>4 DEF Matching, Pick
<1>12. \A i \in 1 .. n : Taken(i) <=> /\ o.pc = "search" => k < i
                                      /\ o.kind = "get" => s[i][1] = key
  <2>1. find_pos(leaf, o.entry[1]) = k + 1 /\ \A i \in 1 .. n : leaf.entries[i][1] = s[i][1]
    BY <1>1, <1>2, <1>10
  <2>2. \A i \in 1 .. n : i >= k + 1 <=> k < i
    OBVIOUS
  <2> SUFFICES ASSUME NEW i \in 1 .. n
               PROVE  Taken(i) <=> /\ o.pc = "search" => k < i
                                   /\ o.kind = "get" => s[i][1] = key
    OBVIOUS
  <2>3. PICK x : x = find_pos(leaf, o.entry[1])
    OBVIOUS
  <2>4. Taken(i) <=> /\ o.pc = "search" => i >= x
                     /\ o.kind = "get" => leaf.entries[i][1] = o.entry[1]
    BY <2>3
  <2> HIDE DEF Taken
  <2>5. i >= x <=> k < i
    BY <2>1, <2>2, <2>3
  <2>6. leaf.entries[i][1] = s[i][1] /\ o.entry[1] = key
    BY <1>2, <2>1
  <2> QED
    BY <2>4, <2>5, <2>6
<1>13. \A i \in 1 .. n : s[i] \in Sought(o) <=>
                           s[i][1] = key \/ (o.kind = "scan" /\ s[i][1] > key)
  BY <1>2, <1>5 DEF Sought
<1>14. \A i \in 1 .. n : Taken(i) <=> s[i] \in Sought(o)
  <2> HIDE DEF Taken
  <2> SUFFICES ASSUME NEW i \in 1 .. n PROVE Taken(i) <=> s[i] \in Sought(o)
    OBVIOUS
  <2>0. PICK v : v = s[i][1]
    OBVIOUS
  <2>4. /\ Taken(i) <=> (o.pc = "search" => k < i) /\ (o.kind = "get" => v = key)
        /\ s[i] \in Sought(o) <=> v = key \/ (o.kind = "scan" /\ v > key)
        /\ i <= k <=> v < key
        /\ v \in Int /\ key \in Int
    <3>1. Taken(i) <=> (o.pc = "search" => k < i) /\ (o.kind = "get" => v = key)
      BY <2>0, <1>12
    <3>2. s[i] \in Sought(o) <=> v = key \/ (o.kind = "scan" /\ v > key)
      BY <2>0, <1>13, Zenon
    <3>3. i <= k <=> v < key
      BY <2>0, <1>8, Zenon
    <3>4. v \in Int /\ key \in Int
      BY <2>0, <1>3, <1>5, Zenon
    <3> QED
      BY <3>1, <3>2, <3>3, <3>4, Zenon
  <2>5. k < i <=> v = key \/ v > key
    BY ONLY <2>4, i \in 1 .. n, k \in 0 .. n, n \in Nat
  <2>1. CASE o.kind = "get"
    <3>1. v = key => (o.pc = "search" => k < i)
      BY <2>5
    <3> QED
      BY <2>1, <2>4, <3>1
  <2>2. CASE o.kind = "scan" /\ o.pc = "search"
    BY <2>2, <2>4, <2>5
  <2>3. CASE o.kind = "scan" /\ o.pc # "search"
    <3> SUFFICES key <= s[i][1]
      <4>1. key <= v => v = key \/ v > key
        BY <2>4
      <4> QED
        BY <2>0, <2>3, <2>4, <4>1
    <3>1. Rank(o.entry) \in Int /\ Rank(s[i]) \in Int /\ a <= Rank(s[i])
      BY <1>3, <1>4, <1>5, Ranked DEF Filed
    <3>2. Rank(o.entry) <= Rank(s[i])
      BY <2>3, <3>1
    <3> QED
      BY <1>2, <1>3, <1>5, <3>2, OrderOfKeys
  <2> QED
    BY <2>1, <2>2, <2>3 DEF Lookups
<1> HIDE DEF Taken
<1>15. PICK x : x = Len(leaf.entries)
  OBVIOUS
<1>16. ASSUME NEW y \in 0 .. n, NEW c \in 1 .. y + 1,
              \A i \in 1 .. n : i \in c .. y <=> s[i] \in Sought(o)
       PROVE  /\ Matching(o, leaf) = SubSeq(s, c, y)
  <2>1. {i \in 1 .. n : Taken(i)} = c .. y
    BY <1>14, <1>16
  <2>2. ElementsAt(s, c .. y) = SubSeq(s, c, y)
    BY <1>3, <1>4, ElementsOfRow
  <2> QED
    BY <2>1, <2>2, <1>11
<1>17. \E y \in 0 .. n : \E c \in 1 .. y + 1 :
         \A i \in 1 .. n : i \in c .. y <=> s[i] \in Sought(o)
  <2>1. CASE o.kind = "get"
    <3>1. k + 1 \in 1 .. d + 1
      BY <1>9
    <3>2. \A i \in 1 .. n : i \in k + 1 .. d <=> s[i] \in Sought(o)
      BY <2>1, <1>3, <1>5, <1>8, <1>13
    <3> QED
      BY <3>1, <3>2
  <2>2. CASE o.kind = "scan"
    <3>1. k + 1 \in 1 .. n + 1 /\ n \in 0 .. n
      BY <1>4
    <3>2. \A i \in 1 .. n : i \in k + 1 .. n <=> s[i] \in Sought(o)
      BY <2>2, <1>3, <1>5, <1>8, <1>13
    <3> QED
      BY <3>1, <3>2
  <2> QED
    BY <2>1, <2>2 DEF Lookups
<1> QED
  BY <1>1, <1>4, <1>16, <1>17

\* They are the entries of the leaf that the call asks for.
LEMMA Matched ==
  ASSUME EntriesBounded, NEW leaf \in LeafRecords, NEW a \in Int, NEW b,
         Filed(leaf.entries, a, b), NEW o, o.entry \in LeastEntries, o.kind \in Lookups,
         o.kind = "scan" /\ o.pc # "search" => Rank(o.entry) <= a,
         NEW m, m = Matching(o, leaf)
  PROVE  /\ Filed(m, a, b)
         /\ \A x : In(m, x) <=> In(leaf.entries, x) /\ x \in Sought(o)
<1>1. PICK s : s = leaf.entries
  OBVIOUS
<1>2. Filed(s, a, b) /\ s \in Seq(Entry)
  BY <1>1 DEF Filed
<1>3. PICK n \in Nat : n = Len(s)
  BY <1>2
<1>4. PICK d \in 0 .. n : \E c \in 1 .. d + 1 :
        m = SubSeq(s, c, d) /\ \A i \in 1 .. n : i \in c .. d <=> s[i] \in Sought(o)
  BY <1>1, <1>3, MatchingPart
<1>5. PICK c \in 1 .. d + 1 :
        m = SubSeq(s, c, d) /\ \A i \in 1 .. n : i \in c .. d <=> s[i] \in Sought(o)
  BY <1>4
<1>6. m \in Seq(Entry) /\ Len(m) = d - c + 1 /\ \A j \in 1 .. d - c + 1 : m[j] = s[j + c - 1]
  <2>1. c \in 1 .. Len(s) + 1 /\ d \in 0 .. Len(s) /\ c <= d + 1
    BY <1>3
  <2> QED
    BY <1>2, <1>5, <2>1, Cut
<1>7. \A j \in 1 .. Len(m) : j + c - 1 \in 1 .. n /\ j + c - 1 \in c .. d /\ m[j] = s[j + c - 1]
  BY <1>6
<1>8. Filed(m, a, b)
  <2>1. \A j \in 1 .. Len(m) : a <= Rank(m[j]) /\ Rank(m[j]) < b
    BY <1>2, <1>3, <1>7 DEF Filed
  <2>2. ASSUME NEW i \in 1 .. Len(m), NEW j \in 1 .. Len(m), i < j
        PROVE  Rank(m[i]) < Rank(m[j])
    <3>1. i + c - 1 < j + c - 1 /\ i + c - 1 \in 1 .. n /\ j + c - 1 \in 1 .. n
      BY <1>6, <1>7, <2>2
    <3>2. Rank(s[i + c - 1]) < Rank(s[j + c - 1])
      BY <3>1, <1>2, <1>3 DEF Filed
    <3> QED
      BY <3>2, <1>7
  <2> QED
    BY <1>6, <2>1, <2>2 DEF Filed
<1>9. ASSUME NEW x, In(m, x) PROVE In(s, x) /\ x \in Sought(o)
  <2>1. PICK j \in 1 .. Len(m) : m[j] = x
    BY <1>9 DEF In
  <2> QED
    BY <2>1, <1>3, <1>5, <1>7 DEF In
<1>10. ASSUME NEW x, In(s, x), x \in Sought(o) PROVE In(m, x)
  <2>1. PICK i \in 1 .. n : s[i] = x
    BY <1>3, <1>10 DEF In
  <2>2. i \in c .. d
    BY <2>1, <1>5, <1>10
  <2>3. i - c + 1 \in 1 .. Len(m) /\ (i - c + 1) + c - 1 = i
    BY <2>2, <1>6
  <2>4. m[i - c + 1] = x
    BY <2>1, <2>3, <1>7
  <2> QED
    BY <2>3, <2>4 DEF In
<1> QED
  BY <1>1, <1>8, <1>9, <1>10

-----------------------------------------------------------------------------
(* What a call knows of the tree.                                          *)

\* The stages of a call whose effect is done, or is about to be.
Decided == {"split", "left", "right", "merge", "underflow", "shrink"}

Unanswered == <<"none", <<>>>>

Nothing == [always |-> {}, ever |-> {}]

\* When it is known what a call answers.
Answering(o) ==
  /\ o.pc = "idle" => o.entry = NoEntry
  /\ o.pc \in Decided => o.answer = Ok
  /\ o.pc = "return" => o.answer[1] # "none"
  /\ o.answer[1] = "values" => Increasing(o.answer[2])
  /\ o.pc \notin Decided \cup {"return"} => o.answer = Unanswered

\* A lookup has found what it asks for of the ranks below x.
Gathered(f, o, s, x) ==
  /\ Filed(f, Bottom, x)
  /\ \A e \in Entry : In(f, e) => e \in Sought(o) /\ e \in s.ever
  /\ \A e \in Sought(o) : e \in s.always /\ Rank(e) < x => In(f, e)

Watching(C, top, lo, hi, o, s) ==
  /\ o.pc \in {"header", "root"} \cup LookupStages
  /\ o.entry \in LeastEntries
  /\ s = [always |-> s.always, ever |-> s.ever]
  /\ s.always \subseteq C /\ C \subseteq s.ever
  /\ o.pc \in {"header", "root_id", "root", "search"} => o.found = <<>>
  /\ o.pc = "root_id" => o.kind = "get"
  /\ o.pc = "root" /\ o.kind = "scan" => o.header = "read"
  /\ o.header # "none" => o.root = top
  /\ o.pc \in {"root_id", "root"} => lo[o.root] = Bottom
  /\ o.pc = "search" =>
       /\ lo[o.read] <= Rank(o.entry)
       /\ o.kind = "scan" => Rank(o.entry) <= hi[o.read]
  /\ o.pc = "walk" =>
       /\ Gathered(o.found, o, s, lo[o.read])
       /\ o.kind = "scan" => Rank(o.entry) <= lo[o.read]
  /\ o.pc \in {"next_id", "next"} =>
       /\ Gathered(o.found, o, s, lo[o.target])
       /\ o.kind = "scan" => Rank(o.entry) <= lo[o.target]

Informed(C, top, lo, hi, o, s) ==
  /\ Answering(o)
  /\ o.kind \notin Lookups => s = Nothing
  /\ o.kind \in Lookups => Watching(C, top, lo, hi, o, s)

Known(pend, lv, lo, hi) ==
  /\ Sound(node, root, op, pend, lv, lo, hi)
  /\ \A t \in Thread : Informed(Contents, root, lo, hi, op[t], seen[t])

\* The inductive invariant: the trees are sound and the lookups have found all
\* there is on their way.
IndexInv == \E pend, lv, lo, hi : Known(pend, lv, lo, hi)

\* What a lookup that saw s sees when the index is then C.
Observed(s, C) == [always |-> s.always \cap C, ever |-> s.ever \cup C]

\* seen[u] after a step, if the index is then C and the call of u has gone from
\* kind k to kind k2.
Watched(C, k, k2, s) ==
  IF k2 \notin Lookups THEN Nothing
  ELSE IF k \in Lookups THEN Observed(s, C)
  ELSE [always |-> C, ever |-> C]

LEMMA SeenNow ==
  ASSUME Observe, NEW u \in Thread
  PROVE  seen'[u] = Watched(Contents', op[u].kind, op'[u].kind, seen[u])
  BY DEF Observe, Watched, Observed, LooksUp, Nothing

\* What a call is to Index.
CallOf(o, s) ==
  [kind |-> IF o.answer[1] = "none" THEN o.kind ELSE "done",
   entry |-> IF o.answer[1] = "none" THEN o.entry ELSE NoEntry,
   answer |-> <<o.answer[1], ToSet(o.answer[2])>>,
   always |-> s.always, ever |-> s.ever]

LEMMA CallsNow ==
  /\ Calls = [t \in Thread |-> CallOf(op[t], seen[t])]
  /\ Calls' = [t \in Thread |-> CallOf(op'[t], seen'[t])]
  BY DEF Calls, CallOf

\* A lookup goes on while others work elsewhere in the tree.
LEMMA WatchingOn ==
  ASSUME NEW C, NEW top, NEW lo, NEW hi, NEW o, NEW s, Watching(C, top, lo, hi, o, s),
         NEW nd, NEW lv, o.pc = "header" \/ Looking(nd, lv, o),
         NEW C2, NEW top2, NEW lo2, NEW hi2, \A p \in Pages(nd) : lo2[p] = lo[p],
         o.pc = "search" => hi2[o.read] = hi[o.read],
         top2 = top \/ o.header = "none"
  PROVE  Watching(C2, top2, lo2, hi2, o, Observed(s, C2))
<1>0. PICK s2 : s2 = Observed(s, C2)
  OBVIOUS
<1>1. /\ s2 = [always |-> s2.always, ever |-> s2.ever]
      /\ s2.always \subseteq C2 /\ C2 \subseteq s2.ever
      /\ s2.always \subseteq s.always /\ s.ever \subseteq s2.ever
  BY <1>0 DEF Observed, Watching
<1>2. \A f, x : Gathered(f, o, s, x) => Gathered(f, o, s2, x)
  BY <1>1 DEF Gathered
<1>3. /\ o.pc \in {"root_id", "root"} => lo2[o.root] = lo[o.root]
      /\ o.pc \in {"search", "walk"} => lo2[o.read] = lo[o.read]
      /\ o.pc \in {"next_id", "next"} => lo2[o.target] = lo[o.target]
  BY DEF Looking
<1>4. o.header # "none" => o.root = top2
  BY DEF Watching
<1>5. /\ o.pc \in {"header", "root"} \cup LookupStages /\ o.entry \in LeastEntries
      /\ o.pc \in {"header", "root_id", "root", "search"} => o.found = <<>>
      /\ o.pc = "root_id" => o.kind = "get"
      /\ o.pc = "root" /\ o.kind = "scan" => o.header = "read"
  BY DEF Watching
<1>6. o.pc \in {"root_id", "root"} => lo2[o.root] = Bottom
  BY <1>3 DEF Watching
<1>7. o.pc = "search" => /\ lo2[o.read] <= Rank(o.entry)
                         /\ o.kind = "scan" => Rank(o.entry) <= hi2[o.read]
  BY <1>3 DEF Watching
<1>8. o.pc = "walk" => /\ Gathered(o.found, o, s2, lo2[o.read])
                       /\ o.kind = "scan" => Rank(o.entry) <= lo2[o.read]
  BY <1>2, <1>3 DEF Watching
<1>9. o.pc \in {"next_id", "next"} => /\ Gathered(o.found, o, s2, lo2[o.target])
                                      /\ o.kind = "scan" => Rank(o.entry) <= lo2[o.target]
  BY <1>2, <1>3 DEF Watching
<1> QED
  BY <1>0, <1>1, <1>4, <1>5, <1>6, <1>7, <1>8, <1>9 DEF Watching

\* A lookup has no answer yet.
LEMMA LookupPending ==
  ASSUME NEW C, NEW top, NEW lo, NEW hi, NEW o, NEW s, Informed(C, top, lo, hi, o, s),
         o.kind \in Lookups
  PROVE  o.answer = Unanswered /\ o.answer[1] = "none"
<1>1. o.pc \in {"header", "root"} \cup LookupStages
  BY DEF Informed, Watching
<1>2. o.pc \notin Decided \cup {"return"}
  BY <1>1 DEF Decided, LookupStages
<1>3. o.answer = Unanswered
  BY <1>2 DEF Informed, Answering
<1> QED
  BY <1>3 DEF Unanswered

\* A call that is made, and one that is about to return, are to Index
LEMMA CallPending ==
  ASSUME NEW o, NEW s, o.answer[1] = "none"
  PROVE  CallOf(o, s) = [kind |-> o.kind, entry |-> o.entry,
                         answer |-> <<o.answer[1], ToSet(o.answer[2])>>,
                         always |-> s.always, ever |-> s.ever]
  BY DEF CallOf

LEMMA CallAnswered ==
  ASSUME NEW o, NEW s, o.answer[1] # "none"
  PROVE  CallOf(o, s) = [kind |-> "done", entry |-> NoEntry,
                         answer |-> <<o.answer[1], ToSet(o.answer[2])>>,
                         always |-> s.always, ever |-> s.ever]
  BY DEF CallOf

LEMMA IndexCalls ==
  /\ I!NoCall = [kind |-> "none", entry |-> NoEntry, answer |-> <<"none", {}>>,
                 always |-> {}, ever |-> {}]
  /\ \A k, e, z : I!Called(k, e, z) = [kind |-> k, entry |-> e, answer |-> <<"none", {}>>,
                                       always |-> z, ever |-> z]
  /\ \A a : I!Answered(a) = [kind |-> "done", entry |-> NoEntry, answer |-> a,
                             always |-> {}, ever |-> {}]
<1>1. I!NoCall = [kind |-> "none", entry |-> NoEntry, answer |-> <<"none", {}>>,
                  always |-> {}, ever |-> {}]
  BY DEF I!NoCall, NoEntry
<1>2. PICK n, z : n = NoEntry /\ z = <<"none", {}>>
  OBVIOUS
<1>3. I!NoCall = [kind |-> "none", entry |-> n, answer |-> z, always |-> {}, ever |-> {}]
  BY <1>1, <1>2
<1>4. ASSUME NEW k, NEW e, NEW y
      PROVE  I!Called(k, e, y) = [kind |-> k, entry |-> e, answer |-> z, always |-> y, ever |-> y]
  <2>1. PICK c, d : c = I!NoCall /\ d = I!Called(k, e, y)
    OBVIOUS
  <2>2. d = [c EXCEPT !.kind = k, !.entry = e, !.always = y, !.ever = y]
    BY <2>1 DEF I!Called
  <2>3. c = [kind |-> "none", entry |-> n, answer |-> z, always |-> {}, ever |-> {}]
    BY <1>3, <2>1
  <2>4. d = [kind |-> k, entry |-> e, answer |-> z, always |-> y, ever |-> y]
    BY ONLY <2>2, <2>3
  <2> QED
    BY <2>1, <2>4
<1>5. ASSUME NEW a
      PROVE  I!Answered(a) = [kind |-> "done", entry |-> n, answer |-> a,
                              always |-> {}, ever |-> {}]
  <2>1. PICK c, d : c = I!NoCall /\ d = I!Answered(a)
    OBVIOUS
  <2>2. d = [c EXCEPT !.kind = "done", !.answer = a]
    BY <2>1 DEF I!Answered
  <2>3. c = [kind |-> "none", entry |-> n, answer |-> z, always |-> {}, ever |-> {}]
    BY <1>3, <2>1
  <2>4. d = [kind |-> "done", entry |-> n, answer |-> a, always |-> {}, ever |-> {}]
    BY ONLY <2>2, <2>3
  <2> QED
    BY <2>1, <2>4
<1> QED
  BY <1>1, <1>2, <1>4, <1>5

\* A call that has no answer and has seen nothing yet.
LEMMA CallUnanswered ==
  ASSUME NEW o, NEW s, o.answer = Unanswered
  PROVE  CallOf(o, s) = [kind |-> o.kind, entry |-> o.entry, answer |-> <<"none", {}>>,
                         always |-> s.always, ever |-> s.ever]
<1>1. o.answer[1] = "none" /\ ToSet(o.answer[2]) = {}
  BY SetOfEmpty DEF Unanswered
<1> QED
  BY <1>1, CallPending

\* A call that others leave alone: if the index is as it was, the call has seen
\* what it had.
LEMMA OtherSeen ==
  ASSUME NEW C, NEW top, NEW lo, NEW hi, NEW o, NEW s, Informed(C, top, lo, hi, o, s)
  PROVE  Watched(C, o.kind, o.kind, s) = s
<1>1. CASE o.kind \in Lookups
  <2>1. s = [always |-> s.always, ever |-> s.ever] /\ s.always \subseteq C /\ C \subseteq s.ever
    BY <1>1 DEF Informed, Watching
  <2>2. s.always \cap C = s.always /\ s.ever \cup C = s.ever
    BY <2>1
  <2>3. Observed(s, C) = s
    BY <2>1, <2>2 DEF Observed
  <2> QED
    BY <1>1, <2>3 DEF Watched
<1>2. CASE o.kind \notin Lookups
  BY <1>2 DEF Watched, Informed
<1> QED
  BY <1>1, <1>2

\* What Index makes of call c when others make the index C.
Noticed(c, C) ==
  IF c.kind \in Lookups THEN [c EXCEPT !.always = @ \cap C, !.ever = @ \cup C] ELSE c

\* A call that is in the background of a step, to Index.
LEMMA OtherCall ==
  ASSUME NEW C, NEW top, NEW lo, NEW hi, NEW o, NEW s, Informed(C, top, lo, hi, o, s), NEW C2
  PROVE  CallOf(o, Watched(C2, o.kind, o.kind, s)) =
           Noticed(CallOf(o, s), C2)
<1>1. CASE o.kind \in Lookups
  <2>1. o.answer[1] = "none"
    BY <1>1, LookupPending
  <2>2. Watched(C2, o.kind, o.kind, s) = Observed(s, C2)
    BY <1>1 DEF Watched
  <2>3. PICK z : z = <<o.answer[1], ToSet(o.answer[2])>>
    OBVIOUS
  <2>4. PICK c, c2 : c = CallOf(o, s) /\ c2 = CallOf(o, Observed(s, C2))
    OBVIOUS
  <2>5. c = [kind |-> o.kind, entry |-> o.entry, answer |-> z, always |-> s.always, ever |-> s.ever]
    BY <2>1, <2>3, <2>4, CallPending
  <2>6. c2 = [kind |-> o.kind, entry |-> o.entry, answer |-> z,
              always |-> s.always \cap C2, ever |-> s.ever \cup C2]
    <3>1. c2 = [kind |-> o.kind, entry |-> o.entry, answer |-> z,
                always |-> Observed(s, C2).always, ever |-> Observed(s, C2).ever]
      BY <2>1, <2>3, <2>4, CallPending
    <3> QED
      BY ONLY <3>1 DEF Observed
  <2>7. c.kind \in Lookups
    BY <1>1, <2>5
  <2>8. PICK d : d = [c EXCEPT !.always = @ \cap C2, !.ever = @ \cup C2]
    OBVIOUS
  <2>9. d = [kind |-> o.kind, entry |-> o.entry, answer |-> z,
             always |-> s.always \cap C2, ever |-> s.ever \cup C2]
    BY ONLY <2>5, <2>8
  <2>10. c2 = d
    BY ONLY <2>6, <2>9
  <2>11. Noticed(c, C2) = d
    BY ONLY <2>7, <2>8 DEF Noticed
  <2> QED
    BY ONLY <2>2, <2>4, <2>10, <2>11
<1>2. CASE o.kind \notin Lookups
  <2>1. Watched(C2, o.kind, o.kind, s) = Nothing /\ s = Nothing
    BY <1>2 DEF Watched, Informed
  <2>2. CallOf(o, s).kind \notin Lookups
    <3>1. CallOf(o, s).kind \in {o.kind, "done"}
      BY CallPending, CallAnswered
    <3> QED
      BY <1>2, <3>1 DEF Lookups
  <2>3. Noticed(CallOf(o, s), C2) = CallOf(o, s)
    BY <2>2 DEF Noticed
  <2> QED
    BY <2>1, <2>3
<1> QED
  BY <1>1, <1>2

-----------------------------------------------------------------------------
(* A step, and what Index makes of it.                                     *)

\* The lookups of other threads are where they were: the step is a remove's, and
\* there are none, or it leaves the ranges of their pages and the root.
Undisturbing(t, lo, hi, lo2, hi2) ==
  \/ op[t].kind = "remove"
  \/ /\ Steady(t, lo, hi, lo2, hi2)
     /\ root' = root \/ \A u \in Thread \ {t} : op[u].header = "none"

\* Thread t goes on with o.
Goes(t, o, pend, lv, lo, hi, pend2, lv2, lo2, hi2) ==
  /\ Known(pend, lv, lo, hi)
  /\ Sound(node', root', op', pend2, lv2, lo2, hi2)
  /\ op' = Put(op, t, o)
  /\ Undisturbing(t, lo, hi, lo2, hi2)
  /\ Observe

Implemented == IndexInv' /\ [I!Next]_I!indexVars

LEMMA PutThread ==
  ASSUME NEW t \in Thread, NEW o, op = [u \in Thread |-> op[u]], op' = Put(op, t, o)
  PROVE  op'[t] = o /\ \A u \in Thread : u # t => op'[u] = op[u]
  BY DEF Put

LEMMA LookingNow ==
  ASSUME NEW nd, NEW top, NEW pend, NEW lv, NEW lo, NEW hi, NEW o,
         Stage(nd, top, pend, lv, lo, hi, o), o.kind \in Lookups,
         NEW C, NEW top2, NEW lo2, NEW hi2, NEW s, Watching(C, top2, lo2, hi2, o, s)
  PROVE  o.pc = "header" \/ Looking(nd, lv, o)
<1>1. o.pc \in {"header", "root"} \cup LookupStages
  BY DEF Watching
<1>2. o.kind \notin Updates
  BY DEF Updates, Lookups
<1>3. ~Descending(nd, top, lv, lo, hi, o)
  BY <1>2 DEF Descending
<1> QED
  BY <1>1, <1>3, StageOf

LEMMA OthersInformed ==
  ASSUME NEW t \in Thread, NEW o, NEW pend, NEW lv, NEW lo, NEW hi,
         NEW pend2, NEW lv2, NEW lo2, NEW hi2,
         Goes(t, o, pend, lv, lo, hi, pend2, lv2, lo2, hi2), NEW u \in Thread, u # t
  PROVE  Informed(Contents', root', lo2, hi2, op'[u], seen'[u])
<1>1. /\ Sound(node, root, op, pend, lv, lo, hi)
      /\ Informed(Contents, root, lo, hi, op[u], seen[u])
      /\ op' = Put(op, t, o) /\ Undisturbing(t, lo, hi, lo2, hi2) /\ Observe
  BY DEF Goes, Known
<1>2. op = [v \in Thread |-> op[v]] /\ Apart(op[t], op[u])
  BY <1>1 DEF Sound
<1>3. op'[u] = op[u]
  BY <1>1, <1>2, PutThread
<1>4. PICK p : p = op[u]
  OBVIOUS
<1>5. PICK s : s = seen[u]
  OBVIOUS
<1>6. seen'[u] = Watched(Contents', p.kind, p.kind, s)
  BY <1>1, <1>3, <1>4, <1>5, SeenNow
<1>7. Answering(p)
  BY <1>1, <1>4 DEF Informed
<1>8. CASE p.kind \notin Lookups
  <2>1. seen'[u] = Nothing
    BY <1>6, <1>8 DEF Watched
  <2> QED
    BY <1>3, <1>4, <1>7, <1>8, <2>1 DEF Informed
<1>9. CASE p.kind \in Lookups
  <2>1. Watching(Contents, root, lo, hi, p, s)
    BY <1>1, <1>4, <1>5, <1>9 DEF Informed
  <2>2. Stage(node, root, pend, lv, lo, hi, p)
    BY <1>1, <1>4, Now
  <2>3. p.pc = "header" \/ Looking(node, lv, p)
    BY <1>9, <2>1, <2>2, LookingNow
  <2>4. op[t].kind # "remove"
    BY <1>2, <1>4, <1>9 DEF Apart
  <2>5. Steady(t, lo, hi, lo2, hi2) /\ (root' = root \/ p.header = "none")
    BY <1>1, <1>4, <2>4 DEF Undisturbing
  <2>6. \A z \in Pages(node) : lo2[z] = lo[z]
    BY <2>5 DEF Steady
  <2>7. p.pc = "search" => hi2[p.read] = hi[p.read]
    <3> SUFFICES ASSUME p.pc = "search" PROVE hi2[p.read] = hi[p.read]
      OBVIOUS
    <3>1. p.read \in Pages(node)
      BY <2>3 DEF Looking
    <3>2. p.read \notin WrittenBy(op[t])
      BY <1>2, <1>4 DEF Apart
    <3> QED
      BY <2>5, <3>1, <3>2 DEF Steady
  <2>8. \A C2, top2 : top2 = root \/ p.header = "none" =>
                       Watching(C2, top2, lo2, hi2, p, Observed(s, C2))
    BY ONLY <2>1, <2>3, <2>6, <2>7, WatchingOn
  <2>9. Watching(Contents', root', lo2, hi2, p, Observed(s, Contents'))
    BY <2>5, <2>8
  <2>10. seen'[u] = Observed(s, Contents')
    BY <1>6, <1>9 DEF Watched
  <2> QED
    BY <1>3, <1>4, <1>7, <1>9, <2>9, <2>10 DEF Informed
<1> QED
  BY <1>8, <1>9

LEMMA IndexInvNow ==
  ASSUME NEW pend, NEW lv, NEW lo, NEW hi, Sound(node', root', op', pend, lv, lo, hi),
         \A u \in Thread : Informed(Contents', root', lo, hi, op'[u], seen'[u])
  PROVE  IndexInv'
<1>1. \E x1, x2, x3, x4 : /\ Sound(node', root', op', x1, x2, x3, x4)
        /\ \A u \in Thread : Informed(Contents', root', x3, x4, op'[u], seen'[u])
  OBVIOUS
<1> QED
  BY <1>1 DEF IndexInv, Known

LEMMA InformedStep ==
  ASSUME NEW t \in Thread, NEW o, NEW pend, NEW lv, NEW lo, NEW hi,
         NEW pend2, NEW lv2, NEW lo2, NEW hi2,
         Goes(t, o, pend, lv, lo, hi, pend2, lv2, lo2, hi2),
         Informed(Contents', root', lo2, hi2, o, seen'[t])
  PROVE  IndexInv'
<1>1. op'[t] = o
  BY PutThread DEF Goes, Known, Sound
<1>2. \A u \in Thread : Informed(Contents', root', lo2, hi2, op'[u], seen'[u])
  BY <1>1, OthersInformed
<1>3. Sound(node', root', op', pend2, lv2, lo2, hi2)
  BY DEF Goes
<1> QED
  BY <1>2, <1>3, IndexInvNow

\* Only the call of the thread that steps is another one.
LEMMA CallsPut ==
  ASSUME NEW t \in Thread, NEW o, NEW pend, NEW lv, NEW lo, NEW hi,
         NEW pend2, NEW lv2, NEW lo2, NEW hi2,
         Goes(t, o, pend, lv, lo, hi, pend2, lv2, lo2, hi2), Contents' = Contents
  PROVE  Calls' = [Calls EXCEPT ![t] = CallOf(o, seen'[t])]
<1>1. /\ \A u \in Thread : Informed(Contents, root, lo, hi, op[u], seen[u])
      /\ op' = Put(op, t, o) /\ Observe /\ op = [v \in Thread |-> op[v]]
  BY DEF Goes, Known, Sound
<1>2. op'[t] = o /\ \A u \in Thread : u # t => op'[u] = op[u]
  BY <1>1, PutThread
<1>3. ASSUME NEW u \in Thread, u # t PROVE seen'[u] = seen[u]
  <2>1. PICK p : p = op[u]
    OBVIOUS
  <2>2. PICK s : s = seen[u]
    OBVIOUS
  <2>3. seen'[u] = Watched(Contents, p.kind, p.kind, s)
    BY <1>1, <1>2, <1>3, <2>1, <2>2, SeenNow
  <2>4. Informed(Contents, root, lo, hi, p, s)
    BY <1>1, <2>1, <2>2
  <2> QED
    BY <2>2, <2>3, <2>4, OtherSeen
<1>4. \A u \in Thread : u # t => CallOf(op'[u], seen'[u]) = CallOf(op[u], seen[u])
  BY <1>2, <1>3
<1> QED
  BY <1>2, <1>4, CallsNow

LEMMA CallsStay ==
  ASSUME NEW t \in Thread, NEW o, NEW pend, NEW lv, NEW lo, NEW hi,
         NEW pend2, NEW lv2, NEW lo2, NEW hi2,
         Goes(t, o, pend, lv, lo, hi, pend2, lv2, lo2, hi2), Contents' = Contents,
         CallOf(o, seen'[t]) = CallOf(op[t], seen[t])
  PROVE  [I!Next]_I!indexVars
<1>1. Calls' = [Calls EXCEPT ![t] = CallOf(o, seen'[t])]
  BY CallsPut
<1>2. Calls' = Calls
  BY <1>1, CallsNow
<1> QED
  BY <1>2 DEF I!indexVars

\* A step that answers takes effect on the index.
LEMMA CallsGo ==
  ASSUME NEW t \in Thread, NEW o, NEW pend, NEW lv, NEW lo, NEW hi,
         NEW pend2, NEW lv2, NEW lo2, NEW hi2,
         Goes(t, o, pend, lv, lo, hi, pend2, lv2, lo2, hi2),
         NEW answer, CallOf(o, seen'[t]) = I!Answered(answer)
  PROVE  I!Effect(t, Contents', answer)
<1>1. /\ \A u \in Thread : Informed(Contents, root, lo, hi, op[u], seen[u])
      /\ op' = Put(op, t, o) /\ Observe /\ op = [v \in Thread |-> op[v]]
  BY DEF Goes, Known, Sound
<1>2. op'[t] = o /\ \A u \in Thread : u # t => op'[u] = op[u]
  BY <1>1, PutThread
<1>3. ASSUME NEW u \in Thread, u # t
      PROVE  CallOf(op'[u], seen'[u]) =
               IF Calls[u].kind \in I!Lookups
               THEN [Calls[u] EXCEPT !.always = @ \cap Contents', !.ever = @ \cup Contents']
               ELSE Calls[u]
  <2>1. PICK p : p = op[u]
    OBVIOUS
  <2>2. PICK s : s = seen[u]
    OBVIOUS
  <2>3. PICK s2 : s2 = seen'[u]
    OBVIOUS
  <2>4. s2 = Watched(Contents', p.kind, p.kind, s)
    BY <1>1, <1>2, <1>3, <2>1, <2>2, <2>3, SeenNow
  <2>5. Informed(Contents, root, lo, hi, p, s)
    BY <1>1, <2>1, <2>2
  <2>6. PICK c : c = CallOf(p, s)
    OBVIOUS
  <2>7. c = Calls[u]
    BY <2>1, <2>2, <2>6, CallsNow
  <2>8. I!Lookups = Lookups
    BY DEF I!Lookups, Lookups
  <2>9. CallOf(p, s2) = IF c.kind \in Lookups
                        THEN [c EXCEPT !.always = @ \cap Contents', !.ever = @ \cup Contents']
                        ELSE c
    <3>1. CallOf(p, s2) = Noticed(c, Contents')
      BY <2>4, <2>5, <2>6, OtherCall
    <3> QED
      BY ONLY <3>1 DEF Noticed
  <2> QED
    BY <1>2, <1>3, <2>1, <2>3, <2>7, <2>8, <2>9
<1>4. CallOf(op'[t], seen'[t]) = I!Answered(answer)
  BY <1>2
<1>5. Calls' = [u \in Thread |-> CallOf(op'[u], seen'[u])]
  BY CallsNow
<1>6. Calls' = [u \in Thread |->
        IF u = t THEN I!Answered(answer)
        ELSE IF Calls[u].kind \in I!Lookups
        THEN [Calls[u] EXCEPT !.always = @ \cap Contents', !.ever = @ \cup Contents']
        ELSE Calls[u]]
  BY <1>3, <1>4, <1>5
<1> QED
  BY <1>6 DEF I!Effect

LEMMA UpdateInformed ==
  ASSUME NEW C, NEW top, NEW lo, NEW hi, NEW o, Answering(o), o.kind \notin Lookups
  PROVE  Informed(C, top, lo, hi, o, Nothing)
  BY DEF Informed

\* Inside of a call that updates: nothing that Index would know of.
LEMMA SilentUpdate ==
  ASSUME NEW t \in Thread, NEW o, NEW pend, NEW lv, NEW lo, NEW hi,
         NEW pend2, NEW lv2, NEW lo2, NEW hi2,
         Goes(t, o, pend, lv, lo, hi, pend2, lv2, lo2, hi2), Contents' = Contents,
         op[t].kind \notin Lookups, o.kind \notin Lookups, Answering(o),
         o.answer = op[t].answer,
         o.answer[1] = "none" => o.kind = op[t].kind /\ o.entry = op[t].entry
  PROVE  Implemented
<1>1. Informed(Contents, root, lo, hi, op[t], seen[t]) /\ op'[t] = o /\ Observe
  BY PutThread DEF Goes, Known, Sound
<1>2. seen[t] = Nothing
  BY <1>1 DEF Informed
<1>3. seen'[t] = Nothing
  BY <1>1, SeenNow DEF Watched
<1>4. CallOf(o, seen'[t]) = CallOf(op[t], seen[t])
  BY <1>2, <1>3 DEF CallOf
<1>5. Informed(Contents', root', lo2, hi2, o, seen'[t])
  BY <1>3, UpdateInformed
<1> QED
  BY <1>4, <1>5, InformedStep, CallsStay DEF Implemented

\* What insert and remove answer.
Duplicate == <<"duplicate", <<>>>>
NotFound == <<"not_found", <<>>>>

\* The step at which an update takes effect, and answers.
LEMMA EffectOfUpdate ==
  ASSUME NEW t \in Thread, NEW o, NEW pend, NEW lv, NEW lo, NEW hi,
         NEW pend2, NEW lv2, NEW lo2, NEW hi2,
         Goes(t, o, pend, lv, lo, hi, pend2, lv2, lo2, hi2),
         op[t].kind \notin Lookups, o.kind \notin Lookups, Answering(o),
         op[t].answer = Unanswered, o.answer \in {Ok, Duplicate, NotFound}
  PROVE  /\ IndexInv'
         /\ I!Effect(t, Contents', <<o.answer[1], {}>>)
         /\ Calls[t].kind = op[t].kind /\ Calls[t].entry = op[t].entry
<1>1. Informed(Contents, root, lo, hi, op[t], seen[t]) /\ op'[t] = o /\ Observe
  BY PutThread DEF Goes, Known, Sound
<1>2. seen'[t] = Nothing
  BY <1>1, SeenNow DEF Watched
<1>3. o.answer[1] # "none" /\ ToSet(o.answer[2]) = {}
  BY SetOfEmpty DEF Ok, Duplicate, NotFound
<1>4. CallOf(o, seen'[t]) = I!Answered(<<o.answer[1], {}>>)
  <2>1. CallOf(o, Nothing) = [kind |-> "done", entry |-> NoEntry, answer |-> <<o.answer[1], {}>>,
                              always |-> Nothing.always, ever |-> Nothing.ever]
    BY <1>3, CallAnswered
  <2>2. Nothing.always = {} /\ Nothing.ever = {}
    BY DEF Nothing
  <2>3. CallOf(o, Nothing) = I!Answered(<<o.answer[1], {}>>)
    BY ONLY <2>1, <2>2, IndexCalls
  <2> QED
    BY <1>2, <2>3
<1>5. Informed(Contents', root', lo2, hi2, o, seen'[t])
  BY <1>2, UpdateInformed
<1>6. Calls[t].kind = op[t].kind /\ Calls[t].entry = op[t].entry
  BY CallsNow DEF CallOf, Unanswered
<1> QED
  BY <1>4, <1>5, <1>6, InformedStep, CallsGo

LEMMA InsertDone ==
  ASSUME NEW t \in Thread, NEW o, NEW pend, NEW lv, NEW lo, NEW hi,
         NEW pend2, NEW lv2, NEW lo2, NEW hi2,
         Goes(t, o, pend, lv, lo, hi, pend2, lv2, lo2, hi2),
         op[t].kind = "insert", o.kind \notin Lookups, Answering(o),
         op[t].answer = Unanswered, NEW e, e = op[t].entry,
         \/ e \in Contents /\ Contents' = Contents /\ o.answer = Duplicate
         \/ e \notin Contents /\ Contents' = Contents \cup {e} /\ o.answer = Ok
  PROVE  Implemented
<1>1. op[t].kind \notin Lookups /\ o.answer \in {Ok, Duplicate, NotFound}
  BY DEF Lookups
<1>2. /\ IndexInv' /\ I!Effect(t, Contents', <<o.answer[1], {}>>)
      /\ Calls[t].kind = op[t].kind /\ Calls[t].entry = op[t].entry
  BY <1>1, EffectOfUpdate
<1>3. Calls[t].kind = "insert" /\ Calls[t].entry = e
  BY <1>2
<1>4. I!Insert(t)
  <2>1. CASE e \in Contents /\ Contents' = Contents /\ o.answer = Duplicate
    <3>1. <<o.answer[1], {}>> = <<"duplicate", {}>>
      BY <2>1 DEF Duplicate
    <3> QED
      BY <1>2, <1>3, <2>1, <3>1 DEF I!Insert
  <2>2. CASE e \notin Contents /\ Contents' = Contents \cup {e} /\ o.answer = Ok
    <3>1. <<o.answer[1], {}>> = <<"ok", {}>>
      BY <2>2 DEF Ok
    <3> QED
      BY <1>2, <1>3, <2>2, <3>1 DEF I!Insert
  <2> QED
    BY <2>1, <2>2
<1> QED
  BY <1>2, <1>4 DEF Implemented, I!Next

LEMMA RemoveDone ==
  ASSUME NEW t \in Thread, NEW o, NEW pend, NEW lv, NEW lo, NEW hi,
         NEW pend2, NEW lv2, NEW lo2, NEW hi2,
         Goes(t, o, pend, lv, lo, hi, pend2, lv2, lo2, hi2),
         op[t].kind = "remove", o.kind \notin Lookups, Answering(o),
         op[t].answer = Unanswered, NEW e, e = op[t].entry,
         \/ e \notin Contents /\ Contents' = Contents /\ o.answer = NotFound
         \/ e \in Contents /\ Contents' = Contents \ {e} /\ o.answer = Ok
  PROVE  Implemented
<1>1. op[t].kind \notin Lookups /\ o.answer \in {Ok, Duplicate, NotFound}
  BY DEF Lookups
<1>2. /\ IndexInv' /\ I!Effect(t, Contents', <<o.answer[1], {}>>)
      /\ Calls[t].kind = op[t].kind /\ Calls[t].entry = op[t].entry
  BY <1>1, EffectOfUpdate
<1>3. Calls[t].kind = "remove" /\ Calls[t].entry = e
  BY <1>2
<1>4. I!Remove(t)
  <2>1. CASE e \notin Contents /\ Contents' = Contents /\ o.answer = NotFound
    <3>1. <<o.answer[1], {}>> = <<"not_found", {}>>
      BY <2>1 DEF NotFound
    <3> QED
      BY <1>2, <1>3, <2>1, <3>1 DEF I!Remove
  <2>2. CASE e \in Contents /\ Contents' = Contents \ {e} /\ o.answer = Ok
    <3>1. <<o.answer[1], {}>> = <<"ok", {}>>
      BY <2>2 DEF Ok
    <3> QED
      BY <1>2, <1>3, <2>2, <3>1 DEF I!Remove
  <2> QED
    BY <2>1, <2>2
<1> QED
  BY <1>2, <1>4 DEF Implemented, I!Next

\* A lookup that goes on.
LEMMA SilentLookup ==
  ASSUME NEW t \in Thread, NEW o, NEW pend, NEW lv, NEW lo, NEW hi,
         NEW pend2, NEW lv2, NEW lo2, NEW hi2,
         Goes(t, o, pend, lv, lo, hi, pend2, lv2, lo2, hi2), Contents' = Contents,
         op[t].kind \in Lookups, o.kind = op[t].kind, o.entry = op[t].entry,
         o.answer = op[t].answer,
         Watching(Contents, root', lo2, hi2, o, seen[t])
  PROVE  Implemented
<1>1. Informed(Contents, root, lo, hi, op[t], seen[t]) /\ op'[t] = o /\ Observe
  BY PutThread DEF Goes, Known, Sound
<1>2. seen'[t] = seen[t]
  <2>1. PICK p : p = op[t]
    OBVIOUS
  <2>2. PICK s : s = seen[t]
    OBVIOUS
  <2>3. seen'[t] = Watched(Contents, p.kind, p.kind, s)
    BY <1>1, <2>1, <2>2, SeenNow
  <2>4. Informed(Contents, root, lo, hi, p, s)
    BY <1>1, <2>1, <2>2
  <2> QED
    BY <2>2, <2>3, <2>4, OtherSeen
<1>3. CallOf(o, seen'[t]) = CallOf(op[t], seen[t])
  BY <1>2 DEF CallOf
<1>4. o.answer = Unanswered
  BY <1>1, LookupPending
<1>5. Answering(o)
  <2>1. o.pc \notin {"idle"} \cup Decided \cup {"return"}
    BY DEF Watching, LookupStages, Decided
  <2> QED
    BY <1>4, <2>1 DEF Answering, Unanswered
<1>6. Informed(Contents', root', lo2, hi2, o, seen'[t])
  BY <1>2, <1>5 DEF Informed
<1> QED
  BY <1>3, <1>6, InformedStep, CallsStay DEF Implemented

\* A lookup that answers with f.
LEMMA LookupDone ==
  ASSUME EntriesBounded, NEW t \in Thread, NEW o, NEW pend, NEW lv, NEW lo, NEW hi,
         NEW pend2, NEW lv2, NEW lo2, NEW hi2,
         Goes(t, o, pend, lv, lo, hi, pend2, lv2, lo2, hi2), Contents' = Contents,
         op[t].kind \in Lookups, NEW f, o = Returning(<<"values", f>>),
         NEW x, Filed(f, Bottom, x),
         \A e \in Entry : In(f, e) => e \in Sought(op[t]) /\ e \in seen[t].ever,
         \A e \in Sought(op[t]) : e \in seen[t].always => In(f, e)
  PROVE  Implemented
<1>1. Informed(Contents, root, lo, hi, op[t], seen[t]) /\ op'[t] = o /\ Observe
  BY PutThread DEF Goes, Known, Sound
<1>2. /\ o.kind = "none" /\ o.pc = "return" /\ o.answer = <<"values", f>> /\ o.entry = NoEntry
  BY DEF Returning, Idle
<1>3. seen'[t] = Nothing
  BY <1>1, <1>2, SeenNow DEF Watched, Lookups
<1>4. Increasing(f)
  <2>1. f \in Seq(Entry) /\ DOMAIN f = 1 .. Len(f)
        /\ \A i, j \in 1 .. Len(f) : i < j => Rank(f[i]) < Rank(f[j])
    BY DEF Filed
  <2>2. \A i \in 1 .. Len(f) : f[i] \in Entry
    BY <2>1
  <2> QED
    BY <2>1, <2>2, Ranked DEF Increasing
<1>5. Answering(o)
  BY <1>2, <1>4 DEF Answering, Decided
<1>6. Informed(Contents', root', lo2, hi2, o, seen'[t])
  BY <1>2, <1>3, <1>5, UpdateInformed DEF Lookups
<1>7. IndexInv'
  BY <1>6, InformedStep
<1>8. PICK found : found = ToSet(f)
  OBVIOUS
<1>9. CallOf(o, seen'[t]) = I!Answered(<<"values", found>>)
  <2>1. CallOf(o, Nothing) = [kind |-> "done", entry |-> NoEntry, answer |-> <<"values", found>>,
                              always |-> Nothing.always, ever |-> Nothing.ever]
    <3>1. o.answer[1] = "values" /\ o.answer[2] = f
      BY <1>2
    <3> QED
      BY <1>8, <3>1, CallAnswered
  <2>2. Nothing.always = {} /\ Nothing.ever = {}
    BY DEF Nothing
  <2>3. CallOf(o, Nothing) = I!Answered(<<"values", found>>)
    BY ONLY <2>1, <2>2, IndexCalls
  <2> QED
    BY <1>3, <2>3
<1>10. I!Effect(t, Contents', <<"values", found>>)
  BY <1>9, CallsGo
<1>11. \A e : e \in found <=> In(f, e)
  <2>1. DOMAIN f = 1 .. Len(f)
    BY DEF Filed
  <2> QED
    BY <1>8, <2>1 DEF ToSet, In
<1>12. found \subseteq Entry
  BY <1>8 DEF ToSet, Filed
<1>13. /\ Calls[t].kind = op[t].kind /\ Calls[t].entry = op[t].entry
       /\ Calls[t].always = seen[t].always /\ Calls[t].ever = seen[t].ever
  <2>1. op[t].answer[1] = "none"
    BY <1>1, LookupPending
  <2> QED
    BY <2>1, CallsNow DEF CallOf
<1>14. PICK asked : asked = I!AskedFor(Calls[t].kind, Calls[t].entry[1])
  OBVIOUS
<1>15. asked = Sought(op[t])
  BY <1>13, <1>14 DEF I!AskedFor, Sought
<1>16. found \in SUBSET (asked \cap Calls[t].ever)
  BY <1>11, <1>12, <1>13, <1>15
<1>17. asked \cap Calls[t].always \subseteq found
  BY <1>11, <1>13, <1>15
<1>18. Calls[t].kind \in I!Lookups
  BY <1>13 DEF I!Lookups, Lookups
<1>19. I!Effect(t, Contents, <<"values", found>>)
  BY <1>10
<1>20. I!Answer(t)
  BY <1>14, <1>16, <1>17, <1>18, <1>19 DEF I!Answer
<1> QED
  BY <1>7, <1>20 DEF Implemented, I!Next

-----------------------------------------------------------------------------
(* Steps that leave the contents, and the beginning and end of a call.     *)

LEMMA GoesOn ==
  ASSUME NEW pend, NEW lv, NEW lo, NEW hi, Known(pend, lv, lo, hi), NEW t \in Thread, NEW o,
         op' = Put(op, t, o), Sound(node', root', op', pend, lv, lo, hi),
         UNCHANGED <<root, node>>, Observe
  PROVE  Goes(t, o, pend, lv, lo, hi, pend, lv, lo, hi) /\ Contents' = Contents
  BY ContentsNow DEF Goes, Undisturbing, Steady

\* The program stops.
LEMMA StillImplemented ==
  ASSUME NEW pend, NEW lv, NEW lo, NEW hi, Known(pend, lv, lo, hi), NEW t \in Thread,
         UNCHANGED <<root, node, op>>, Observe
  PROVE  Implemented
<1>1. PICK o : o = op[t]
  OBVIOUS
<1>2. Sound(node, root, op, pend, lv, lo, hi) /\ op = [u \in Thread |-> op[u]]
      /\ Informed(Contents, root, lo, hi, o, seen[t])
  BY <1>1 DEF Known, Sound
<1>3. Sound(node', root', op', pend, lv, lo, hi)
  BY <1>2, Still
<1>4. op' = Put(op, t, o)
  BY <1>1, <1>2 DEF Put
<1>5. Goes(t, o, pend, lv, lo, hi, pend, lv, lo, hi) /\ Contents' = Contents
  BY <1>3, <1>4, GoesOn
<1>6. CASE o.kind \notin Lookups
  <2>1. Answering(o)
    BY <1>2 DEF Informed
  <2> QED
    BY <1>1, <1>5, <1>6, <2>1, SilentUpdate
<1>7. CASE o.kind \in Lookups
  <2>1. Watching(Contents, root', lo, hi, o, seen[t])
    BY <1>2, <1>7 DEF Informed
  <2> QED
    BY <1>1, <1>5, <1>7, <2>1, SilentLookup
<1> QED
  BY <1>6, <1>7

\* An update goes on and is not decided yet, or has been before.
LEMMA UpdateGoesOn ==
  ASSUME NEW pend, NEW lv, NEW lo, NEW hi, Known(pend, lv, lo, hi), NEW t \in Thread, NEW o,
         Goto(t, o), Sound(node', root', op', pend, lv, lo, hi), UNCHANGED <<root, node>>,
         Observe, op[t].kind \notin Lookups, op[t].pc # "return",
         o.kind = op[t].kind, o.entry = op[t].entry, o.answer = op[t].answer,
         o.pc \notin {"idle", "return"}, o.pc \in Decided <=> op[t].pc \in Decided
  PROVE  Implemented
<1>1. op' = Put(op, t, o)
  BY Gone
<1>2. Goes(t, o, pend, lv, lo, hi, pend, lv, lo, hi) /\ Contents' = Contents
  BY <1>1, GoesOn
<1>3. Answering(op[t])
  BY DEF Known, Informed
<1>4. Answering(o)
  BY <1>3 DEF Answering
<1> QED
  BY <1>2, <1>4, SilentUpdate

LEMMA AnsweringReturned ==
  ASSUME NEW a, NEW o, o = Returning(a), a \in {Ok, Duplicate, NotFound}
  PROVE  Answering(o) /\ o.answer = a /\ o.kind \notin Lookups
<1>1. o.pc = "return" /\ o.answer = a /\ o.kind = "none"
  BY DEF Returning, Idle
<1>2. a[1] # "none" /\ a[1] # "values"
  BY DEF Ok, Duplicate, NotFound
<1> QED
  BY <1>1, <1>2 DEF Answering, Decided, Lookups

\* A call that is decided returns.
LEMMA DecidedReturns ==
  ASSUME NEW t \in Thread, NEW o, NEW pend, NEW lv, NEW lo, NEW hi,
         NEW pend2, NEW lv2, NEW lo2, NEW hi2,
         Goes(t, o, pend, lv, lo, hi, pend2, lv2, lo2, hi2), Contents' = Contents,
         op[t].kind \notin Lookups, op[t].pc \in Decided, o = Returning(op[t].answer)
  PROVE  Implemented
<1>1. op[t].answer = Ok
  BY DEF Goes, Known, Informed, Answering
<1>2. Answering(o) /\ o.answer = Ok /\ o.kind \notin Lookups
  BY <1>1, AnsweringReturned
<1>3. o.answer[1] # "none"
  BY <1>2 DEF Ok
<1> QED
  BY <1>1, <1>2, <1>3, SilentUpdate

LEMMA CallImplemented ==
  ASSUME LookupsApart, NEW pend, NEW lv, NEW lo, NEW hi, Known(pend, lv, lo, hi),
         NEW t \in Thread, NEW kind, NEW e \in Entry, Call(t, kind, e), Observe,
         kind \in Updates \/ (kind \in Lookups /\ e \in LeastEntries)
  PROVE  Implemented
<1>1. PICK o : o = [Idle EXCEPT !.pc = "header", !.kind = kind, !.entry = e]
  OBVIOUS
<1>2. /\ o.pc = "header" /\ o.kind = kind /\ o.entry = e /\ o.answer = Unanswered
      /\ o.found = <<>> /\ o.header = "none"
  BY <1>1 DEF Idle, Unanswered
<1>3. op[t].pc = "idle" /\ Goto(t, o) /\ UNCHANGED <<root, node>>
  BY <1>1 DEF Call
<1>4. Sound(node, root, op, pend, lv, lo, hi) /\ Informed(Contents, root, lo, hi, op[t], seen[t])
  BY DEF Known
<1>5. Sound(node', root', op', pend, lv, lo, hi)
  BY <1>4, CallKept
<1>6. op' = Put(op, t, o)
  BY <1>3, Gone
<1>7. Goes(t, o, pend, lv, lo, hi, pend, lv, lo, hi) /\ Contents' = Contents
  BY <1>3, <1>5, <1>6, GoesOn
<1>8. op[t].kind = "none" /\ op[t].entry = NoEntry /\ op[t].answer = Unanswered
  <2>1. AtRest(op[t])
    BY <1>3, <1>4, Now, StageOf
  <2> QED
    BY <1>3, <1>4, <2>1 DEF AtRest, Informed, Answering, Decided
<1>9. seen[t] = Nothing
  BY <1>4, <1>8 DEF Informed, Lookups
<1>10. Calls[t] = I!NoCall
  <2>1. CallOf(op[t], seen[t]) = I!NoCall
    <3>1. Nothing.always = {} /\ Nothing.ever = {}
      BY DEF Nothing
    <3> QED
      BY <1>8, <1>9, <3>1, CallUnanswered, IndexCalls
  <2> QED
    BY <2>1, CallsNow
<1>11. Answering(o)
  BY <1>2 DEF Answering, Decided, Unanswered
<1>12. Calls' = [Calls EXCEPT ![t] = CallOf(o, seen'[t])]
  BY <1>7, CallsPut
<1>13. op'[t] = o /\ Observe
  BY <1>4, <1>6, PutThread DEF Sound
<1>14. CASE kind \in Updates
  <2>1. o.kind \notin Lookups
    BY <1>2, <1>14 DEF Updates, Lookups
  <2>2. seen'[t] = Nothing
    BY <1>13, <2>1, SeenNow DEF Watched
  <2>3. CallOf(o, seen'[t]) = I!Called(kind, e, {})
    <3>1. Nothing.always = {} /\ Nothing.ever = {}
      BY DEF Nothing
    <3> QED
      BY <1>2, <2>2, <3>1, CallUnanswered, IndexCalls
  <2>4. I!CallUpdate(t, kind, e)
    BY <1>7, <1>10, <1>12, <2>3 DEF I!CallUpdate
  <2>5. kind \in I!Updates
    BY <1>14 DEF I!Updates, Updates
  <2>6. Informed(Contents', root', lo, hi, o, seen'[t])
    BY <1>11, <2>1, <2>2, UpdateInformed
  <2> QED
    BY <1>7, <2>4, <2>5, <2>6, InformedStep DEF Implemented, I!Next
<1>15. CASE kind \in Lookups /\ e \in LeastEntries
  <2>1. op[t].kind \notin Lookups
    BY <1>8 DEF Lookups
  <2>2. PICK s : s = [always |-> Contents, ever |-> Contents]
    OBVIOUS
  <2>3. seen'[t] = s
    BY <1>2, <1>7, <1>13, <1>15, <2>1, <2>2, SeenNow DEF Watched
  <2>4. CallOf(o, s) = I!Called(kind, e, Contents)
    <3>1. s.always = Contents /\ s.ever = Contents
      BY <2>2
    <3> QED
      BY <1>2, <3>1, CallUnanswered, IndexCalls
  <2>5. I!CallLookup(t, kind, e)
    BY <1>7, <1>10, <1>12, <2>3, <2>4 DEF I!CallLookup
  <2>6. kind \in I!Lookups
    BY <1>15 DEF I!Lookups, Lookups
  <2>7. Watching(Contents, root', lo, hi, o, s)
    BY <1>2, <1>15, <2>2 DEF Watching, LookupStages
  <2>8. Informed(Contents', root', lo, hi, o, seen'[t])
    BY <1>2, <1>7, <1>11, <1>15, <2>3, <2>7 DEF Informed
  <2> QED
    BY <1>7, <1>15, <2>5, <2>6, <2>8, InformedStep DEF Implemented, I!Next
<1> QED
  BY <1>14, <1>15

LEMMA ReturnImplemented ==
  ASSUME NEW pend, NEW lv, NEW lo, NEW hi, Known(pend, lv, lo, hi),
         NEW t \in Thread, Return(t), Observe
  PROVE  Implemented
<1>1. PICK o : o = Idle
  OBVIOUS
<1>2. o.pc = "idle" /\ o.kind = "none" /\ o.entry = NoEntry /\ o.answer = Unanswered
  BY <1>1 DEF Idle, Unanswered
<1>3. op[t].pc = "return" /\ Goto(t, o) /\ UNCHANGED <<root, node>>
  BY <1>1 DEF Return
<1>4. Sound(node, root, op, pend, lv, lo, hi) /\ Informed(Contents, root, lo, hi, op[t], seen[t])
  BY DEF Known
<1>5. Sound(node', root', op', pend, lv, lo, hi)
  BY <1>4, ReturnKept
<1>6. op' = Put(op, t, o)
  BY <1>3, Gone
<1>7. Goes(t, o, pend, lv, lo, hi, pend, lv, lo, hi) /\ Contents' = Contents
  BY <1>3, <1>5, <1>6, GoesOn
<1>8. Calls[t].kind = "done"
  <2>1. op[t].answer[1] # "none"
    BY <1>3, <1>4 DEF Informed, Answering
  <2> QED
    BY <2>1, CallsNow DEF CallOf
<1>9. Calls' = [Calls EXCEPT ![t] = CallOf(o, seen'[t])]
  BY <1>7, CallsPut
<1>10. op'[t] = o
  BY <1>4, <1>6, PutThread DEF Sound
<1>11. seen'[t] = Nothing
  BY <1>2, <1>10, SeenNow DEF Watched, Lookups
<1>12. CallOf(o, seen'[t]) = I!NoCall
  <2>1. Nothing.always = {} /\ Nothing.ever = {}
    BY DEF Nothing
  <2> QED
    BY <1>2, <1>11, <2>1, CallUnanswered, IndexCalls
<1>13. I!Return(t)
  BY <1>7, <1>8, <1>9, <1>12 DEF I!Return
<1>14. Answering(o) /\ o.kind \notin Lookups
  BY <1>2 DEF Answering, Decided, Unanswered, Lookups
<1>15. Informed(Contents', root', lo, hi, o, seen'[t])
  BY <1>11, <1>14, UpdateInformed
<1> QED
  BY <1>7, <1>13, <1>15, InformedStep DEF Implemented, I!Next

-----------------------------------------------------------------------------
(* The way down of insert and remove.                                      *)

LEMMA KnownNow ==
  ASSUME NEW pend, NEW lv, NEW lo, NEW hi, Known(pend, lv, lo, hi), NEW t \in Thread,
         NEW o, o = op[t]
  PROVE  /\ Sound(node, root, op, pend, lv, lo, hi) /\ Tree(node, root, pend, lv, lo, hi)
         /\ IsCall(o) /\ Stage(node, root, pend, lv, lo, hi, o) /\ Answering(o)
         /\ o.kind \in Lookups => Watching(Contents, root, lo, hi, o, seen[t])
         /\ Informed(Contents, root, lo, hi, o, seen[t])
<1>1. Sound(node, root, op, pend, lv, lo, hi) /\ Informed(Contents, root, lo, hi, o, seen[t])
  BY DEF Known
<1> QED
  BY <1>1, Now DEF Informed

\* The stages that only updates are at.
LEMMA Updating ==
  ASSUME NEW nd, NEW top, NEW pend, NEW lv, NEW lo, NEW hi, NEW o,
         Stage(nd, top, pend, lv, lo, hi, o),
         o.pc \in {"header_w", "descend", "leaf", "root_w", "descend_w", "at_leaf"} \cup Decided
  PROVE  o.kind \in Updates /\ o.kind \notin Lookups /\ o.pc # "return"
<1>1. o.kind \in Updates
  <2>1. CASE o.pc = "header_w"
    BY <2>1, StageOf DEF AtHeader
  <2>2. CASE o.pc \in {"descend", "leaf"}
    BY <2>2, StageOf DEF Descending
  <2>3. CASE o.pc = "root_w"
    BY <2>3, StageOf DEF AtRootForWrite
  <2>4. CASE o.pc \in {"descend_w", "at_leaf"}
    BY <2>4, StageOf DEF DescendingForWrite
  <2>5. CASE o.pc = "split"
    BY <2>5, StageOf DEF Splitting, Updates
  <2>6. CASE o.pc = "underflow"
    BY <2>6, StageOf DEF Underflowing, Updates
  <2>7. CASE o.pc \in {"left", "right", "merge"}
    BY <2>7, StageOf DEF BesideSibling, Updates
  <2>8. CASE o.pc = "shrink"
    BY <2>8, StageOf DEF Shrinking, Updates
  <2> QED
    BY <2>1, <2>2, <2>3, <2>4, <2>5, <2>6, <2>7, <2>8 DEF Decided
<1> QED
  BY <1>1 DEF Updates, Lookups, Decided

LEMMA DescendImplemented ==
  ASSUME EntriesBounded, NEW pend, NEW lv, NEW lo, NEW hi, Known(pend, lv, lo, hi),
         NEW t \in Thread, Descend(t), Observe
  PROVE  Implemented
<1>1. PICK o : o = op[t]
  OBVIOUS
<1>2. o.pc = "descend" /\ UNCHANGED <<root, node>>
  BY <1>1 DEF Descend, Granted
<1>3. IsCall(o) /\ Sound(node, root, op, pend, lv, lo, hi) /\ o.kind \notin Lookups
  BY <1>1, <1>2, KnownNow, Updating
<1>4. Sound(node', root', op', pend, lv, lo, hi)
  BY <1>3, DescendKept
<1>5. PICK c : c = Wants(t).page
  OBVIOUS
<1>6. ASSUME NEW o2, Goto(t, o2), o2.kind = o.kind, o2.entry = o.entry, o2.answer = o.answer,
             o2.pc \in {"leaf", "descend"}
      PROVE  Implemented
  <2>1. o2.pc \notin {"idle", "return"} \cup Decided /\ o.pc \notin {"return"} \cup Decided
    BY <1>2, <1>6 DEF Decided
  <2> QED
    BY <1>1, <1>2, <1>3, <1>4, <1>6, <2>1, UpdateGoesOn
<1>7. CASE node[c].kind = "leaf"
  <2>1. PICK o2 : o2 = [o EXCEPT !.pc = "leaf", !.target = c]
    OBVIOUS
  <2>2. Goto(t, o2)
    BY <1>1, <1>5, <1>7, <2>1 DEF Descend
  <2>3. o2.kind = o.kind /\ o2.entry = o.entry /\ o2.answer = o.answer /\ o2.pc = "leaf"
    BY <1>3, <2>1 DEF IsCall
  <2> QED
    BY <1>6, <2>2, <2>3
<1>8. CASE node[c].kind # "leaf"
  <2>1. PICK o2 : o2 = [o EXCEPT !.read = c, !.header = "none"]
    OBVIOUS
  <2>2. Goto(t, o2)
    BY <1>1, <1>5, <1>8, <2>1 DEF Descend
  <2>3. o2.kind = o.kind /\ o2.entry = o.entry /\ o2.answer = o.answer /\ o2.pc = o.pc
    BY <1>3, <2>1 DEF IsCall
  <2> QED
    BY <1>2, <1>6, <2>2, <2>3
<1> QED
  BY <1>7, <1>8

\* Start again with write latches.
LEMMA RetryImplemented ==
  ASSUME NEW pend, NEW lv, NEW lo, NEW hi, Known(pend, lv, lo, hi),
         NEW t \in Thread, op[t].pc = "leaf", Retry(t), UNCHANGED <<root, node>>, Observe
  PROVE  Implemented
<1>1. PICK o : o = op[t]
  OBVIOUS
<1>2. /\ Sound(node, root, op, pend, lv, lo, hi) /\ o.kind \notin Lookups /\ Answering(o)
      /\ o.pc \notin {"return"} \cup Decided
  BY <1>1, KnownNow, Updating DEF Decided
<1>3. o.answer = Unanswered
  BY <1>2 DEF Answering
<1>4. PICK o2 : o2 = [Idle EXCEPT !.pc = "header_w", !.kind = o.kind, !.entry = o.entry]
  OBVIOUS
<1>5. o2.pc = "header_w" /\ o2.kind = o.kind /\ o2.entry = o.entry /\ o2.answer = o.answer
  BY <1>3, <1>4 DEF Idle, Unanswered
<1>6. Goto(t, o2)
  BY <1>1, <1>4 DEF Retry
<1>7. Sound(node', root', op', pend, lv, lo, hi)
  BY <1>2, RetryKept
<1>8. o2.pc \notin {"idle", "return"} \cup Decided
  BY <1>5 DEF Decided
<1> QED
  BY <1>1, <1>2, <1>5, <1>6, <1>7, <1>8, UpdateGoesOn

LEMMA LatchHeaderForWriteImplemented ==
  ASSUME NEW pend, NEW lv, NEW lo, NEW hi, Known(pend, lv, lo, hi),
         NEW t \in Thread, LatchHeaderForWrite(t), Observe
  PROVE  Implemented
<1>1. PICK o : o = op[t]
  OBVIOUS
<1>2. o.pc = "header_w"
  BY <1>1 DEF LatchHeaderForWrite, Granted
<1>3. IsCall(o) /\ Sound(node, root, op, pend, lv, lo, hi) /\ o.kind \notin Lookups
  BY <1>1, <1>2, KnownNow, Updating
<1>4. Sound(node', root', op', pend, lv, lo, hi)
  BY <1>3, LatchHeaderForWriteKept
<1>5. CASE Panic
  BY <1>5, StillImplemented DEF Panic
<1>6. CASE ~Panic
  <2>1. PICK o2 : o2 = [o EXCEPT !.pc = "root_w", !.root = root, !.header = "write"]
    OBVIOUS
  <2>2. Goto(t, o2) /\ UNCHANGED <<root, node>>
    BY <1>1, <1>6, <2>1 DEF LatchHeaderForWrite
  <2>3. o2.kind = o.kind /\ o2.entry = o.entry /\ o2.answer = o.answer /\ o2.pc = "root_w"
    BY <1>3, <2>1 DEF IsCall
  <2>4. o2.pc \notin {"idle", "return"} \cup Decided /\ o.pc \notin {"return"} \cup Decided
    BY <1>2, <2>3 DEF Decided
  <2> QED
    BY <1>1, <1>3, <1>4, <2>2, <2>3, <2>4, UpdateGoesOn
<1> QED
  BY <1>5, <1>6

LEMMA LatchRootForWriteImplemented ==
  ASSUME EntriesBounded, NEW pend, NEW lv, NEW lo, NEW hi, Known(pend, lv, lo, hi),
         NEW t \in Thread, LatchRootForWrite(t), Observe
  PROVE  Implemented
<1>1. PICK o : o = op[t]
  OBVIOUS
<1>2. o.pc = "root_w" /\ UNCHANGED <<root, node>>
  BY <1>1 DEF LatchRootForWrite, Granted
<1>3. IsCall(o) /\ Sound(node, root, op, pend, lv, lo, hi) /\ o.kind \notin Lookups
  BY <1>1, <1>2, KnownNow, Updating
<1>4. Sound(node', root', op', pend, lv, lo, hi)
  BY <1>3, LatchRootForWriteKept
<1>5. PICK x : x = Below(o.root)
  OBVIOUS
<1>6. PICK o2 : o2 = [o EXCEPT !.pc = x, !.writes = <<o.root>>]
  OBVIOUS
<1>7. Goto(t, o2)
  BY <1>1, <1>5, <1>6 DEF LatchRootForWrite
<1>8. o2.kind = o.kind /\ o2.entry = o.entry /\ o2.answer = o.answer /\ o2.pc = x
  BY <1>3, <1>6 DEF IsCall
<1>9. o2.pc \notin {"idle", "return"} \cup Decided /\ o.pc \notin {"return"} \cup Decided
  BY <1>2, <1>5, <1>8 DEF Decided, Below
<1> QED
  BY <1>1, <1>2, <1>3, <1>4, <1>7, <1>8, <1>9, UpdateGoesOn

LEMMA DescendForWriteImplemented ==
  ASSUME EntriesBounded, NEW pend, NEW lv, NEW lo, NEW hi, Known(pend, lv, lo, hi),
         NEW t \in Thread, DescendForWrite(t), Observe
  PROVE  Implemented
<1>1. PICK o : o = op[t]
  OBVIOUS
<1>2. o.pc = "descend_w" /\ UNCHANGED <<root, node>>
  BY <1>1 DEF DescendForWrite, Granted
<1>3. IsCall(o) /\ Sound(node, root, op, pend, lv, lo, hi) /\ o.kind \notin Lookups
  BY <1>1, <1>2, KnownNow, Updating
<1>4. Sound(node', root', op', pend, lv, lo, hi)
  BY <1>3, DescendForWriteKept
<1>5. PICK c : c = Wants(t).page
  OBVIOUS
<1>6. PICK x : x = Below(c)
  OBVIOUS
<1>7. ASSUME NEW o2, Goto(t, o2), o2.kind = o.kind, o2.entry = o.entry, o2.answer = o.answer,
             o2.pc = x
      PROVE  Implemented
  <2>1. o2.pc \notin {"idle", "return"} \cup Decided /\ o.pc \notin {"return"} \cup Decided
    BY <1>2, <1>6, <1>7 DEF Decided, Below
  <2> QED
    BY <1>1, <1>2, <1>3, <1>4, <1>7, <2>1, UpdateGoesOn
<1>8. CASE Safe(o.kind, node[c])
  <2>1. PICK o2 : o2 = [o EXCEPT !.pc = x, !.writes = <<c>>, !.header = "none"]
    OBVIOUS
  <2>2. Goto(t, o2)
    BY <1>1, <1>5, <1>6, <1>8, <2>1 DEF DescendForWrite
  <2>3. o2.kind = o.kind /\ o2.entry = o.entry /\ o2.answer = o.answer /\ o2.pc = x
    BY <1>3, <2>1 DEF IsCall
  <2> QED
    BY <1>7, <2>2, <2>3
<1>9. CASE ~Safe(o.kind, node[c])
  <2>1. PICK o2 : o2 = [o EXCEPT !.pc = x, !.writes = Append(@, c)]
    OBVIOUS
  <2>2. Goto(t, o2)
    BY <1>1, <1>5, <1>6, <1>9, <2>1 DEF DescendForWrite
  <2>3. o2.kind = o.kind /\ o2.entry = o.entry /\ o2.answer = o.answer /\ o2.pc = x
    <3>1. PICK w : w = Append(o.writes, c)
      OBVIOUS
    <3>2. o2 = [o EXCEPT !.pc = x, !.writes = w]
      BY <2>1, <3>1
    <3> QED
      BY <1>3, <3>2 DEF IsCall
  <2> QED
    BY <1>7, <2>2, <2>3
<1> QED
  BY <1>8, <1>9

-----------------------------------------------------------------------------
(* insert.                                                                 *)

LEMMA WillDo ==
  ASSUME NEW pend, NEW lv, NEW lo, NEW hi, Known(pend, lv, lo, hi), NEW t \in Thread, NEW o,
         Goto(t, o), NEW pend2, NEW lv2, NEW lo2, NEW hi2,
         Sound(node', root', op', pend2, lv2, lo2, hi2), Steady(t, lo, hi, lo2, hi2), Observe,
         root' = root \/ \A u \in Thread \ {t} : op[u].header = "none"
  PROVE  Goes(t, o, pend, lv, lo, hi, pend2, lv2, lo2, hi2)
  BY Gone DEF Goes, Undisturbing

\* The leaf that an update changes, and its entry.
LEMMA AtTheLeaf ==
  ASSUME EntriesBounded, NEW pend, NEW lv, NEW lo, NEW hi, Known(pend, lv, lo, hi),
         NEW t \in Thread, op[t].pc \in {"leaf", "at_leaf"}, NEW p, LeafHeld(pend, lo, hi, t, p),
         NEW e, e = op[t].entry
  PROVE  /\ Sound(node, root, op, pend, lv, lo, hi) /\ Tree(node, root, pend, lv, lo, hi)
         /\ node \in [Page -> PageRecords] /\ Contents = ContentsOf(node)
         /\ p \in Page /\ node[p].kind = "leaf" /\ node[p] \in LeafRecords
         /\ e \in Entry /\ lo[p] <= Rank(e) /\ Rank(e) < hi[p]
         /\ HasEntry(node[p], e) <=> e \in Contents
         /\ \A i : ~is_idx_tombstoned(node[p], i)
         /\ op[t].answer = Unanswered
<1>1. /\ Sound(node, root, op, pend, lv, lo, hi) /\ Tree(node, root, pend, lv, lo, hi)
      /\ Answering(op[t])
  BY KnownNow
<1>2. p \in Page /\ node[p].kind = "leaf" /\ e \in Entry /\ lo[p] <= Rank(e) /\ Rank(e) < hi[p]
  BY DEF LeafHeld, Within
<1>3. PICK leaf : leaf = node[p]
  OBVIOUS
<1>4. leaf \in LeafRecords /\ Filed(leaf.entries, lo[p], hi[p])
  BY <1>1, <1>2, <1>3, LeafRecord, NextLeaf
<1>5. HasEntry(leaf, e) <=> In(leaf.entries, e)
  BY <1>2, <1>4, HasEntryIs
<1>6. e \in ContentsOf(node) <=> In(node[p].entries, e)
  BY <1>1, <1>2, EntryPlace
<1>7. \A i : ~is_idx_tombstoned(leaf, i)
  BY <1>4, LeafFields
<1>8. op[t].answer = Unanswered
  BY <1>1 DEF Answering, Decided
<1> QED
  BY <1>1, <1>2, <1>3, <1>4, <1>5, <1>6, <1>7, <1>8, TreeTyped, ContentsNow

LEMMA SteadyStill ==
  ASSUME NEW t, NEW lo, NEW hi
  PROVE  Steady(t, lo, hi, lo, hi)
  BY DEF Steady

LEMMA InsertPresentImplemented ==
  ASSUME EntriesBounded, NEW pend, NEW lv, NEW lo, NEW hi, Known(pend, lv, lo, hi),
         NEW t \in Thread, op[t].pc \in {"leaf", "at_leaf"}, op[t].kind = "insert", NEW p,
         LeafHeld(pend, lo, hi, t, p), InsertPresent(t, p), Observe
  PROVE  Implemented
<1>1. PICK e : e = op[t].entry
  OBVIOUS
<1>2. /\ Sound(node, root, op, pend, lv, lo, hi) /\ \A i : ~is_idx_tombstoned(node[p], i)
      /\ HasEntry(node[p], e) <=> e \in Contents
      /\ op[t].answer = Unanswered
  BY <1>1, AtTheLeaf
<1>3. Finish(t, Duplicate) /\ UNCHANGED <<root, node>> /\ e \in Contents
  BY <1>1, <1>2 DEF InsertPresent, Duplicate
<1>4. Sound(node', root', op', pend, lv, lo, hi)
  BY <1>2, PresentKept
<1>5. PICK o : o = Returning(Duplicate)
  OBVIOUS
<1>6. Goto(t, o)
  BY <1>3, <1>5 DEF Finish, Returning
<1>7. Goes(t, o, pend, lv, lo, hi, pend, lv, lo, hi) /\ Contents' = Contents
  BY <1>3, <1>4, <1>6, Gone, GoesOn
<1>8. Answering(o) /\ o.answer = Duplicate /\ o.kind \notin Lookups
  BY <1>5, AnsweringReturned
<1> QED
  BY <1>1, <1>2, <1>3, <1>7, <1>8, InsertDone

LEMMA GainedImplemented ==
  ASSUME EntriesBounded, NEW pend, NEW lv, NEW lo, NEW hi, Known(pend, lv, lo, hi),
         NEW t \in Thread, op[t].pc \in {"leaf", "at_leaf"}, op[t].kind = "insert", NEW p,
         LeafHeld(pend, lo, hi, t, p), ~HasEntry(node[p], op[t].entry),
         node' = [node EXCEPT ![p] = WithEntry(node[p], op[t].entry)],
         Finish(t, Ok), UNCHANGED root, Observe
  PROVE  Implemented
<1>1. PICK e : e = op[t].entry
  OBVIOUS
<1>2. /\ Sound(node, root, op, pend, lv, lo, hi) /\ Tree(node, root, pend, lv, lo, hi)
      /\ Contents = ContentsOf(node) /\ p \in Page /\ node[p].kind = "leaf"
      /\ e \in Entry /\ lo[p] <= Rank(e) /\ Rank(e) < hi[p] /\ op[t].answer = Unanswered
  BY <1>1, AtTheLeaf
<1>3. Sound(node', root', op', pend, lv, lo, hi)
  BY <1>2, GainedKept
<1>4. PICK nd2 : nd2 = Put(node, p, WithEntry(node[p], e))
  OBVIOUS
<1>5. ContentsOf(nd2) = ContentsOf(node) \cup {e} /\ e \notin ContentsOf(node)
  BY <1>1, <1>2, <1>4, GainsEntry
<1>6. node' = nd2
  BY <1>1, <1>4 DEF Put
<1>7. Contents' = Contents \cup {e} /\ e \notin Contents
  BY <1>2, <1>5, <1>6, ContentsNow
<1>8. PICK o : o = Returning(Ok)
  OBVIOUS
<1>9. Goto(t, o)
  BY <1>8 DEF Finish, Returning
<1>10. Goes(t, o, pend, lv, lo, hi, pend, lv, lo, hi)
  BY <1>3, <1>9, WillDo, SteadyStill
<1>11. Answering(o) /\ o.answer = Ok /\ o.kind \notin Lookups
  BY <1>8, AnsweringReturned
<1> QED
  BY <1>1, <1>2, <1>7, <1>10, <1>11, InsertDone

LEMMA InsertOptimisticImplemented ==
  ASSUME EntriesBounded, NEW pend, NEW lv, NEW lo, NEW hi, Known(pend, lv, lo, hi),
         NEW t \in Thread, InsertOptimistic(t), Observe
  PROVE  Implemented
<1> DEFINE p == op[t].target
           e == op[t].entry
<1>1. Granted(t, "leaf") /\ op[t].pc = "leaf" /\ op[t].kind = "insert"
  BY DEF InsertOptimistic, Granted
<1>2. LeafHeld(pend, lo, hi, t, p)
  BY <1>1, LeafReached DEF Known
<1>3. CASE InsertPresent(t, p)
  BY <1>1, <1>2, <1>3, InsertPresentImplemented
<1>4. CASE /\ ~HasEntry(node[p], e)
           /\ node' = [node EXCEPT ![p] = WithEntry(node[p], e)]
           /\ Finish(t, Ok) /\ UNCHANGED <<root, panicked>>
  BY <1>1, <1>2, <1>4, GainedImplemented
<1>5. CASE Retry(t) /\ UNCHANGED <<root, node, panicked>>
  BY <1>1, <1>5, RetryImplemented
<1> QED
  BY <1>3, <1>4, <1>5 DEF InsertOptimistic

LEMMA InsertFirstImplemented ==
  ASSUME EntriesBounded, NEW pend, NEW lv, NEW lo, NEW hi, Known(pend, lv, lo, hi),
         NEW t \in Thread, InsertFirst(t), Observe
  PROVE  Implemented
<1>1. PICK e : e = op[t].entry
  OBVIOUS
<1>2. op[t].pc = "header_w" /\ root = NoPage /\ op[t].kind = "insert"
  BY DEF InsertFirst, Granted, NoPage
<1>3. /\ Sound(node, root, op, pend, lv, lo, hi) /\ Tree(node, NoPage, pend, lv, lo, hi)
      /\ Stage(node, root, pend, lv, lo, hi, op[t]) /\ Answering(op[t])
  BY <1>2, KnownNow
<1>4. e \in Entry /\ op[t].answer = Unanswered
  BY <1>1, <1>2, <1>3, StageOf DEF AtHeader, Answering, Decided
<1>5. \A u \in Thread \ {t} : op[u].header = "none"
  <2>1. Wants(t) = [page |-> Header, mode |-> "write"]
    BY <1>2, WantsAt
  <2>2. \A u \in Thread \ {t} : op[u].header # "write" /\ op[u].header # "read"
    BY <2>1, GrantedFor DEF InsertFirst
  <2>3. \A u \in Thread : op[u].header \in {"none", "read", "write"}
    BY <1>3, Now, HeaderModes
  <2> QED
    BY <2>2, <2>3
<1>6. PICK p \in Page :
        node' = [node EXCEPT ![p] = insert_at(EmptyLeaf(INVALID_PAGE_ID), 1, e)]
  BY <1>1 DEF InsertFirst
<1>7. PICK nd2 : nd2 = Put(node, p, insert_at(EmptyLeaf(INVALID_PAGE_ID), 1, e))
  OBVIOUS
<1>8. ContentsOf(node) = {} /\ ContentsOf(nd2) = {e}
  BY <1>3, <1>4, <1>7, FirstEntry
<1>9. node' = nd2
  BY <1>6, <1>7 DEF Put
<1>10. Contents' = Contents \cup {e} /\ e \notin Contents
  BY <1>8, <1>9, ContentsNow
<1>11. PICK o : o = Returning(Ok)
  OBVIOUS
<1>12. Goto(t, o)
  BY <1>11 DEF InsertFirst, Finish, Returning
<1>13. PICK pend2, lv2, lo2, hi2 :
         Sound(node', root', op', pend2, lv2, lo2, hi2) /\ Steady(t, lo, hi, lo2, hi2)
  BY <1>3, InsertFirstKept
<1>14. Goes(t, o, pend, lv, lo, hi, pend2, lv2, lo2, hi2)
  BY <1>5, <1>12, <1>13, WillDo
<1>15. Answering(o) /\ o.answer = Ok /\ o.kind \notin Lookups
  BY <1>11, AnsweringReturned
<1> QED
  BY <1>1, <1>2, <1>4, <1>10, <1>14, <1>15, InsertDone

LEMMA LeafSplitImplemented ==
  ASSUME EntriesBounded, NEW pend, NEW lv, NEW lo, NEW hi, Known(pend, lv, lo, hi),
         NEW t \in Thread, op[t].pc = "at_leaf", op[t].kind = "insert",
         NEW p, p = Last(op[t].writes), ~HasEntry(node[p], op[t].entry),
         size(node[p]) + 1 = LeafMax,
         NEW full, full = WithEntry(node[p], op[t].entry),
         NEW q \in Page, NewPage(q), UNCHANGED root,
         node' = [node EXCEPT ![p] = LeftLeaf(full, q), ![q] = RightLeaf(full)],
         Goto(t, [op[t] EXCEPT !.pc = "split", !.answer = Ok,
                               !.split = <<Separator(node'[q]), q>>]), Observe
  PROVE  Implemented
<1>1. PICK e : e = op[t].entry
  OBVIOUS
<1>2. Sound(node, root, op, pend, lv, lo, hi) /\ IsCall(op[t])
  BY KnownNow
<1>3. LeafHeld(pend, lo, hi, t, p)
  BY <1>2, AtLeaf
<1>4. /\ Tree(node, root, pend, lv, lo, hi)
      /\ Contents = ContentsOf(node) /\ p \in Page /\ node[p].kind = "leaf"
      /\ e \in Entry /\ lo[p] <= Rank(e) /\ Rank(e) < hi[p] /\ op[t].answer = Unanswered
  BY <1>1, <1>3, AtTheLeaf
<1>5. p \in WrittenBy(op[t])
  BY <1>2, AtLeaf
<1>6. pend[p] = NoPage /\ \A r \in Page : pend[r] # p
  BY <1>2, <1>4, <1>5, Whole, NotHalf
<1>7. node[q] = Free
  BY DEF NewPage, IsNew
<1>8. PICK nd2 : nd2 = Put(Put(node, p, LeftLeaf(full, q)), q, RightLeaf(full))
  OBVIOUS
<1>9. ContentsOf(nd2) = ContentsOf(node) \cup {e} /\ e \notin ContentsOf(node)
  <2>1. full = WithEntry(node[p], e) /\ ~HasEntry(node[p], e)
    BY <1>1
  <2> QED
    BY <1>4, <1>6, <1>7, <1>8, <2>1, SplitGains
<1>10. node' = nd2
  BY <1>8 DEF Put
<1>11. Contents' = Contents \cup {e} /\ e \notin Contents
  BY <1>4, <1>9, <1>10, ContentsNow
<1>12. PICK pend2, lv2, lo2, hi2 :
         Sound(node', root', op', pend2, lv2, lo2, hi2) /\ Steady(t, lo, hi, lo2, hi2)
  BY <1>2, LeafSplitKept
<1>13. PICK s : s = <<Separator(node'[q]), q>>
  OBVIOUS
<1>14. PICK o : o = [op[t] EXCEPT !.pc = "split", !.answer = Ok, !.split = s]
  OBVIOUS
<1>15. Goto(t, o)
  BY <1>13, <1>14
<1>16. Goes(t, o, pend, lv, lo, hi, pend2, lv2, lo2, hi2)
  BY <1>12, <1>15, WillDo
<1>17. o.pc = "split" /\ o.answer = Ok /\ o.kind = "insert"
  BY <1>2, <1>14 DEF IsCall
<1>18. Answering(o) /\ o.kind \notin Lookups
  BY ONLY <1>17 DEF Answering, Ok, Decided, Lookups
<1> QED
  BY <1>1, <1>4, <1>11, <1>16, <1>17, <1>18, InsertDone

LEMMA InsertAtLeafImplemented ==
  ASSUME EntriesBounded, NEW pend, NEW lv, NEW lo, NEW hi, Known(pend, lv, lo, hi),
         NEW t \in Thread, InsertAtLeaf(t), Observe
  PROVE  Implemented
<1> DEFINE p == Last(op[t].writes)
           e == op[t].entry
           full == WithEntry(node[p], e)
<1>1. op[t].pc = "at_leaf" /\ op[t].kind = "insert"
  BY DEF InsertAtLeaf
<1>2. LeafHeld(pend, lo, hi, t, p)
  BY <1>1, AtLeaf DEF Known
<1>3. CASE InsertPresent(t, p)
  BY <1>1, <1>2, <1>3, InsertPresentImplemented
<1>4. CASE Panic
  BY <1>4, StillImplemented DEF Panic
<1>5. CASE /\ ~HasEntry(node[p], e)
           /\ node' = [node EXCEPT ![p] = full]
           /\ Finish(t, Ok) /\ UNCHANGED <<root, panicked>>
  BY <1>1, <1>2, <1>5, GainedImplemented
<1>6. CASE /\ ~HasEntry(node[p], e)
           /\ size(node[p]) + 1 = LeafMax
           /\ \E q \in Page :
                /\ NewPage(q)
                /\ node' = [node EXCEPT ![p] = LeftLeaf(full, q), ![q] = RightLeaf(full)]
                /\ Goto(t, [op[t] EXCEPT !.pc = "split", !.answer = Ok,
                                         !.split = <<Separator(node'[q]), q>>])
           /\ UNCHANGED <<root, panicked>>
  <2>1. PICK q \in Page :
          /\ NewPage(q)
          /\ node' = [node EXCEPT ![p] = LeftLeaf(full, q), ![q] = RightLeaf(full)]
          /\ Goto(t, [op[t] EXCEPT !.pc = "split", !.answer = Ok,
                                   !.split = <<Separator(node'[q]), q>>])
    BY <1>6, ZenonT(30)
  <2>2. p = Last(op[t].writes) /\ full = WithEntry(node[p], op[t].entry)
        /\ ~HasEntry(node[p], op[t].entry) /\ size(node[p]) + 1 = LeafMax /\ UNCHANGED root
    BY <1>6, SMTT(30)
  <2> HIDE DEF p, e, full
  <2> QED
    BY <1>1, <2>1, <2>2, LeafSplitImplemented
<1>7. \/ InsertPresent(t, p)
      \/ ~HasEntry(node[p], e) /\ size(node[p]) >= LeafMax /\ Panic
      \/ /\ ~HasEntry(node[p], e)
         /\ size(node[p]) + 1 < LeafMax
         /\ node' = [node EXCEPT ![p] = full]
         /\ Finish(t, Ok)
         /\ UNCHANGED <<root, panicked>>
      \/ /\ ~HasEntry(node[p], e)
         /\ size(node[p]) + 1 = LeafMax
         /\ \E q \in Page :
              /\ NewPage(q)
              /\ node' = [node EXCEPT ![p] = LeftLeaf(full, q), ![q] = RightLeaf(full)]
              /\ Goto(t, [op[t] EXCEPT !.pc = "split", !.answer = Ok,
                                       !.split = <<Separator(node'[q]), q>>])
         /\ UNCHANGED <<root, panicked>>
  BY DEF InsertAtLeaf, LeftLeaf, RightLeaf
<1> QED
  BY <1>3, <1>4, <1>5, <1>6, <1>7, ZenonT(30)

LEMMA SplitRootImplemented ==
  ASSUME EntriesBounded, NEW pend, NEW lv, NEW lo, NEW hi, Known(pend, lv, lo, hi),
         NEW t \in Thread, SplitRoot(t), Observe
  PROVE  Implemented
<1>1. PICK w : w = op[t].writes
  OBVIOUS
<1>2. PICK left : left = Last(w)
  OBVIOUS
<1>3. op[t].pc = "split" /\ Len(w) = 1
  BY <1>1 DEF SplitRoot
<1>4. Sound(node, root, op, pend, lv, lo, hi) /\ Tree(node, root, pend, lv, lo, hi)
  BY KnownNow
<1>5. CASE left # op[t].root
  BY <1>1, <1>2, <1>5, StillImplemented DEF SplitRoot, Panic
<1>6. CASE left = op[t].root
  <2>1. /\ OnPath(node, root, lv, op[t], w) /\ w \in Seq(Page) /\ w # <<>>
        /\ op[t].kind = "insert"
    BY <1>1, <1>3, <1>4, AtSplit
  <2>2. node \in [Page -> PageRecords] /\ lv \in [Page -> Nat]
    BY <1>4 DEF Tree, Typed
  <2>3. op[t].header = "write"
    <3>1. w[1] = left /\ left \in Page
      BY <1>2, <1>3, <2>1, LastAndFront
    <3>2. ~(lv[left] < lv[op[t].root])
      BY <1>6, <2>2, <3>1
    <3> QED
      BY <2>1, <3>1, <3>2 DEF OnPath
  <2>4. \A u \in Thread \ {t} : op[u].header = "none"
    BY <1>4, <2>3 DEF Sound, Apart
  <2>5. PICK p \in Page :
          /\ NewPage(p)
          /\ node' = [node EXCEPT ![p] = InternalNode(<<left, op[t].split[2]>>,
                                                      <<op[t].split[1]>>)]
    BY <1>1, <1>2, <1>6 DEF SplitRoot
  <2>6. PICK pend2, lv2, lo2, hi2 :
          Sound(node', root', op', pend2, lv2, lo2, hi2) /\ Steady(t, lo, hi, lo2, hi2)
    BY <1>4, SplitRootKept
  <2>7. node' \in [Page -> PageRecords]
    <3>1. Tree(node', root', pend2, lv2, lo2, hi2)
      BY <2>6 DEF Sound
    <3> QED
      BY <3>1 DEF Tree, Typed
  <2>8. node[p].kind # "leaf" /\ node'[p].kind # "leaf" /\ \A z \in Page : z # p => node'[z] = node[z]
    BY <2>2, <2>5, NodeKind DEF NewPage, IsNew, Free
  <2>9. Contents' = Contents
    BY <2>2, <2>7, <2>8, LeavesSame, ContentsNow
  <2>10. PICK o : o = Returning(op[t].answer)
    OBVIOUS
  <2>11. Goto(t, o)
    BY <1>1, <1>2, <1>6, <2>10 DEF SplitRoot, Finish, Returning
  <2>12. Goes(t, o, pend, lv, lo, hi, pend2, lv2, lo2, hi2)
    BY <2>4, <2>6, <2>11, WillDo
  <2> QED
    BY <1>3, <2>1, <2>9, <2>10, <2>12, DecidedReturns DEF Decided, Lookups
<1> QED
  BY <1>5, <1>6

LEMMA InsertIntoParentImplemented ==
  ASSUME EntriesBounded, NEW pend, NEW lv, NEW lo, NEW hi, Known(pend, lv, lo, hi),
         NEW t \in Thread, InsertIntoParent(t), Observe
  PROVE  Implemented
<1>1. PICK w : w = op[t].writes
  OBVIOUS
<1>2. PICK l, p : l = Last(w) /\ p = Last(Front(w))
  OBVIOUS
<1>3. PICK s, q : s = op[t].split[1] /\ q = op[t].split[2]
  OBVIOUS
<1>4. /\ op[t].pc = "split" /\ Len(w) > 1 /\ UNCHANGED root /\ Finish(t, op[t].answer)
      /\ node' = [node EXCEPT ![p] = insert_after(@, l, s, q)]
  BY <1>1, <1>2, <1>3 DEF InsertIntoParent
<1>5. Sound(node, root, op, pend, lv, lo, hi) /\ Tree(node, root, pend, lv, lo, hi)
  BY KnownNow
<1>6. /\ Path(node, lv, w) /\ op[t].kind = "insert" /\ l \in ToSet(w)
      /\ pend[l] = q /\ q \in Page /\ s \in Entry /\ Rank(s) = lo[q]
      /\ \A z \in ToSet(w) : z # l => pend[z] = NoPage
  BY <1>1, <1>2, <1>3, <1>4, <1>5, AtSplit
<1>7. /\ ChildOf(node, l, p) /\ p \in Page /\ l \in Page /\ node[p].kind = "internal"
      /\ p \in ToSet(Front(w)) /\ ToSet(w) = ToSet(Front(w)) \cup {l} /\ l # p
  BY <1>2, <1>4, <1>5, <1>6, Above
<1>8. PICK n : n = insert_after(node[p], l, s, q)
  OBVIOUS
<1>9. n.kind = "internal"
  <2>1. \E u \in Seq(Page), v \in Seq(Entry) : n = InternalNode(u, v)
    BY <1>5, <1>6, <1>7, <1>8, ParentGains
  <2> QED
    BY <2>1, NodeKind
<1>10. PICK pend2, lv2, lo2, hi2 :
         Sound(node', root', op', pend2, lv2, lo2, hi2) /\ Steady(t, lo, hi, lo2, hi2)
  BY <1>5, InsertIntoParentKept
<1>11. node \in [Page -> PageRecords] /\ node' \in [Page -> PageRecords]
  BY <1>5, <1>10 DEF Sound, Tree, Typed
<1>12. node'[p].kind # "leaf" /\ \A z \in Page : z # p => node'[z] = node[z]
  BY <1>4, <1>7, <1>8, <1>9, <1>11
<1>13. Contents' = Contents
  BY <1>7, <1>11, <1>12, LeavesSame, ContentsNow
<1>14. PICK o : o = Returning(op[t].answer)
  OBVIOUS
<1>15. Goto(t, o)
  BY <1>4, <1>14 DEF Finish, Returning
<1>16. Goes(t, o, pend, lv, lo, hi, pend2, lv2, lo2, hi2)
  BY <1>4, <1>10, <1>15, WillDo
<1> QED
  BY <1>4, <1>6, <1>13, <1>14, <1>16, DecidedReturns DEF Decided, Lookups

LEMMA SplitParentImplemented ==
  ASSUME EntriesBounded, NEW pend, NEW lv, NEW lo, NEW hi, Known(pend, lv, lo, hi),
         NEW t \in Thread, SplitParent(t), Observe
  PROVE  Implemented
<1>1. PICK w : w = op[t].writes
  OBVIOUS
<1>2. PICK l, p : l = Last(w) /\ p = Last(Front(w))
  OBVIOUS
<1>3. PICK s, q : s = op[t].split[1] /\ q = op[t].split[2]
  OBVIOUS
<1>4. PICK a, b : a = LeftOfSplit(node[p], l, s, q) /\ b = RightOfSplit(node[p], l, s, q)
  OBVIOUS
<1>5. PICK promoted : promoted = PromotedBySplit(node[p], l, s, q)
  OBVIOUS
<1>6. /\ op[t].pc = "split" /\ Len(w) > 1 /\ UNCHANGED root
      /\ \E z \in Page :
           /\ NewPage(z) /\ node' = [node EXCEPT ![p] = a, ![z] = b]
           /\ Goto(t, [op[t] EXCEPT !.writes = Front(@), !.split = <<promoted, z>>])
  BY <1>1, <1>2, <1>3, <1>4, <1>5 DEF SplitParent
<1>7. PICK z \in Page :
        /\ NewPage(z) /\ node' = [node EXCEPT ![p] = a, ![z] = b]
        /\ Goto(t, [op[t] EXCEPT !.writes = Front(@), !.split = <<promoted, z>>])
  BY <1>6
<1>8. /\ Sound(node, root, op, pend, lv, lo, hi) /\ Tree(node, root, pend, lv, lo, hi)
      /\ IsCall(op[t]) /\ Answering(op[t])
  BY KnownNow
<1>9. Path(node, lv, w) /\ op[t].kind = "insert"
  BY <1>1, <1>6, <1>8, AtSplit
<1>10. p \in Page /\ node[p].kind = "internal"
  BY <1>2, <1>6, <1>8, <1>9, Above
<1>11. a.kind = "internal" /\ b.kind = "internal"
  BY <1>4, NodeKind DEF LeftOfSplit, RightOfSplit
<1>12. PICK pend2, lv2, lo2, hi2 :
         Sound(node', root', op', pend2, lv2, lo2, hi2) /\ Steady(t, lo, hi, lo2, hi2)
  BY <1>8, SplitParentKept
<1>13. node \in [Page -> PageRecords] /\ node' \in [Page -> PageRecords]
  BY <1>8, <1>12 DEF Sound, Tree, Typed
<1>14. node[z].kind # "leaf"
  BY <1>7 DEF NewPage, IsNew, Free
<1>15. \A y \in Page : node'[y] = node[y] \/ (node[y].kind # "leaf" /\ node'[y].kind # "leaf")
  BY <1>7, <1>10, <1>11, <1>13, <1>14
<1>16. Contents' = Contents
  BY <1>13, <1>15, LeavesSame, ContentsNow
<1>17. PICK v, x : v = Front(w) /\ x = <<promoted, z>>
  OBVIOUS
<1>18. PICK o : o = [op[t] EXCEPT !.writes = v, !.split = x]
  OBVIOUS
<1>19. Goto(t, o)
  BY <1>1, <1>7, <1>17, <1>18
<1>20. Goes(t, o, pend, lv, lo, hi, pend2, lv2, lo2, hi2)
  BY <1>6, <1>12, <1>19, WillDo
<1>21. o.pc = "split" /\ o.answer = op[t].answer /\ o.kind = "insert" /\ o.entry = op[t].entry
  BY <1>6, <1>8, <1>9, <1>18 DEF IsCall
<1>22. Answering(o)
  BY <1>6, <1>8, <1>21 DEF Answering, Decided
<1> QED
  BY <1>9, <1>16, <1>20, <1>21, <1>22, SilentUpdate DEF Lookups

-----------------------------------------------------------------------------
(* remove.                                                                 *)

LEMMA RemoveWillDo ==
  ASSUME NEW pend, NEW lv, NEW lo, NEW hi, Known(pend, lv, lo, hi), NEW t \in Thread, NEW o,
         Goto(t, o), op[t].kind = "remove", NEW pend2, NEW lv2, NEW lo2, NEW hi2,
         Sound(node', root', op', pend2, lv2, lo2, hi2), Observe
  PROVE  Goes(t, o, pend, lv, lo, hi, pend2, lv2, lo2, hi2)
  BY Gone DEF Goes, Undisturbing

LEMMA AbsentImplemented ==
  ASSUME EntriesBounded, NEW pend, NEW lv, NEW lo, NEW hi, Known(pend, lv, lo, hi),
         NEW t \in Thread, op[t].pc \in {"leaf", "at_leaf"}, op[t].kind = "remove", NEW p,
         LeafHeld(pend, lo, hi, t, p), Absent(node[p], op[t].entry),
         Finish(t, NotFound), UNCHANGED <<root, node>>, Observe
  PROVE  Implemented
<1>1. PICK e : e = op[t].entry
  OBVIOUS
<1>2. /\ Sound(node, root, op, pend, lv, lo, hi) /\ \A i : ~is_idx_tombstoned(node[p], i)
      /\ HasEntry(node[p], e) <=> e \in Contents
      /\ op[t].answer = Unanswered
  BY <1>1, AtTheLeaf
<1>3. e \notin Contents
  BY <1>1, <1>2 DEF Absent
<1>4. Sound(node', root', op', pend, lv, lo, hi)
  <2>1. op[t].pc # "split"
    OBVIOUS
  <2> QED
    BY <1>2, <2>1, JustReturned
<1>5. PICK o : o = Returning(NotFound)
  OBVIOUS
<1>6. Goto(t, o)
  BY <1>5 DEF Finish, Returning
<1>7. Goes(t, o, pend, lv, lo, hi, pend, lv, lo, hi) /\ Contents' = Contents
  BY <1>4, <1>6, Gone, GoesOn
<1>8. Answering(o) /\ o.answer = NotFound /\ o.kind \notin Lookups
  BY <1>5, AnsweringReturned
<1> QED
  BY <1>1, <1>2, <1>3, <1>7, <1>8, RemoveDone

\* The pages after a remove has taken its entry out of leaf p.
After(t, p) == [node EXCEPT ![p] = WithoutEntry(node[p], op[t].entry)]

\* The page without the entry.
LEMMA LostAs ==
  ASSUME EntriesBounded, NoTombstones, NEW pend, NEW lv, NEW lo, NEW hi,
         Known(pend, lv, lo, hi), NEW t \in Thread, op[t].pc \in {"leaf", "at_leaf"}, NEW p,
         LeafHeld(pend, lo, hi, t, p), ~Absent(node[p], op[t].entry)
  PROVE  /\ ContentsOf(After(t, p)) = Contents \ {op[t].entry} /\ op[t].entry \in Contents
         /\ After(t, p) \in [Page -> PageRecords] /\ After(t, p)[p].kind = "leaf"
         /\ \A z \in Page : z # p => After(t, p)[z] = node[z]
<1>0. PICK e : e = op[t].entry
  OBVIOUS
<1>1. /\ Tree(node, root, pend, lv, lo, hi) /\ node \in [Page -> PageRecords]
      /\ Contents = ContentsOf(node) /\ p \in Page /\ node[p].kind = "leaf"
      /\ e \in Entry /\ lo[p] <= Rank(e) /\ Rank(e) < hi[p] /\ ~Absent(node[p], e)
  BY <1>0, AtTheLeaf
<1>2. PICK n, after : n = WithoutEntry(node[p], e) /\ after = Put(node, p, n)
  OBVIOUS
<1>3. After(t, p) = after
  BY <1>0, <1>2 DEF Put, After
<1>7. EntriesBounded /\ TombCap = 0
  BY DEF NoTombstones
<1>4. ContentsOf(after) = ContentsOf(node) \ {e} /\ e \in ContentsOf(node)
  <2>1. after = Put(node, p, WithoutEntry(node[p], e))
    BY <1>2
  <2> QED
    BY ONLY <1>1, <1>7, <2>1, LosesEntry
<1>5. n.kind = "leaf" /\ Tree(after, root, pend, lv, lo, hi)
  <2>1. /\ WithoutEntry(node[p], e).kind = "leaf"
        /\ Tree(Put(node, p, WithoutEntry(node[p], e)), root, pend, lv, lo, hi)
    BY ONLY <1>1, <1>7, LeafLoses
  <2> QED
    BY <1>2, <2>1
<1>6. after[p] = n /\ \A z \in Page : z # p => after[z] = node[z]
  BY <1>1, <1>2 DEF Put
<1> QED
  BY <1>0, <1>1, <1>3, <1>4, <1>5, <1>6, TreeTyped

LEMMA LostImplemented ==
  ASSUME EntriesBounded, NoTombstones, NEW pend, NEW lv, NEW lo, NEW hi,
         Known(pend, lv, lo, hi), NEW t \in Thread, op[t].pc \in {"leaf", "at_leaf"},
         op[t].kind = "remove", NEW p, LeafHeld(pend, lo, hi, t, p),
         ~Absent(node[p], op[t].entry),
         node' = [node EXCEPT ![p] = WithoutEntry(node[p], op[t].entry)],
         Finish(t, Ok), UNCHANGED root, Observe
  PROVE  Implemented
<1>1. PICK e : e = op[t].entry
  OBVIOUS
<1>2. Sound(node, root, op, pend, lv, lo, hi) /\ op[t].answer = Unanswered
  BY AtTheLeaf
<1>3. Contents' = Contents \ {e} /\ e \in Contents
  <2>1. node' = After(t, p)
    BY DEF After
  <2>2. ContentsOf(After(t, p)) = Contents \ {op[t].entry} /\ op[t].entry \in Contents
    BY LostAs
  <2> QED
    BY <1>1, <2>1, <2>2, ContentsNow
<1>4. Sound(node', root', op', pend, lv, lo, hi)
  BY <1>2, LostKept
<1>5. PICK o : o = Returning(Ok)
  OBVIOUS
<1>6. Goto(t, o)
  BY <1>5 DEF Finish, Returning
<1>7. Goes(t, o, pend, lv, lo, hi, pend, lv, lo, hi)
  BY <1>4, <1>6, RemoveWillDo
<1>8. Answering(o) /\ o.answer = Ok /\ o.kind \notin Lookups
  BY <1>5, AnsweringReturned
<1> QED
  BY <1>1, <1>2, <1>3, <1>7, <1>8, RemoveDone

LEMMA RemoveOptimisticImplemented ==
  ASSUME EntriesBounded, NoTombstones, NEW pend, NEW lv, NEW lo, NEW hi,
         Known(pend, lv, lo, hi), NEW t \in Thread, RemoveOptimistic(t), Observe
  PROVE  Implemented
<1> DEFINE p == op[t].target
           e == op[t].entry
<1>1. Granted(t, "leaf") /\ op[t].pc = "leaf" /\ op[t].kind = "remove"
  BY DEF RemoveOptimistic, Granted
<1>2. LeafHeld(pend, lo, hi, t, p)
  BY <1>1, LeafReached DEF Known
<1>3. CASE Absent(node[p], e) /\ Finish(t, NotFound) /\ UNCHANGED <<root, node, panicked>>
  BY <1>1, <1>2, <1>3, AbsentImplemented
<1>4. CASE /\ ~Absent(node[p], e)
           /\ node' = [node EXCEPT ![p] = WithoutEntry(node[p], e)]
           /\ Finish(t, Ok) /\ UNCHANGED <<root, panicked>>
  BY <1>1, <1>2, <1>4, LostImplemented
<1>5. CASE Retry(t) /\ UNCHANGED <<root, node, panicked>>
  BY <1>1, <1>5, RetryImplemented
<1>6. ~DeletePanics(node[p], e)
  BY NeverEvicts
<1> QED
  BY <1>3, <1>4, <1>5, <1>6 DEF RemoveOptimistic, NotFound

\* The last entry goes, and the tree with it.
LEMMA EmptiedImplemented ==
  ASSUME EntriesBounded, NoTombstones, NEW pend, NEW lv, NEW lo, NEW hi,
         Known(pend, lv, lo, hi), NEW t \in Thread, op[t].pc = "at_leaf", op[t].kind = "remove",
         NEW w, w = op[t].writes, Front(w) = <<>>, NEW p, p = Last(w),
         ~is_delete_safe(node[p]), ~Absent(node[p], op[t].entry),
         NEW after, after = [node EXCEPT ![p] = WithoutEntry(node[p], op[t].entry)],
         size(after[p]) = 0, root' = INVALID_PAGE_ID, Deleting(t, p, after, Returned(Ok)), Observe
  PROVE  Implemented
<1>1. PICK e : e = op[t].entry
  OBVIOUS
<1>2. Sound(node, root, op, pend, lv, lo, hi)
  BY KnownNow
<1>3. /\ LeafHeld(pend, lo, hi, t, p) /\ OnPath(node, root, lv, op[t], w)
      /\ w \in Seq(Page) /\ w # <<>> /\ WrittenBy(op[t]) = ToSet(w) /\ p \in ToSet(w)
  BY <1>2, AtLeaf
<1>4. op[t].answer = Unanswered /\ p \in Page
  BY <1>3, AtTheLeaf
<1>5. /\ ContentsOf(after) = Contents \ {e} /\ e \in Contents
      /\ after \in [Page -> PageRecords] /\ after[p].kind = "leaf"
      /\ \A z \in Page : z # p => after[z] = node[z]
  <2>1. after = After(t, p)
    BY DEF After
  <2>2. /\ ContentsOf(After(t, p)) = Contents \ {op[t].entry} /\ op[t].entry \in Contents
        /\ After(t, p) \in [Page -> PageRecords] /\ After(t, p)[p].kind = "leaf"
        /\ \A z \in Page : z # p => After(t, p)[z] = node[z]
    BY <1>3, LostAs
  <2> QED
    BY <1>1, <2>1, <2>2
<1>6. op[t].header = "write" /\ p = root
  <2>1. Len(w) = 1 /\ w[1] = p
    BY <1>3, LastAndFront
  <2>2. DescendingForWrite(node, root, lv, lo, hi, op[t])
    BY <1>2, AtLeaf
  <2> QED
    BY <1>3, <2>1, <2>2 DEF DescendingForWrite, OnPath
<1>7. ~PinnedByOther(t, p)
  <2>1. Alone(op, t, p)
    BY <1>2, <1>3, Held
  <2> QED
    BY <1>2, <1>4, <1>6, <2>1, Unpinned
<1>8. PICK nd2 : nd2 = Put(after, p, Free)
  OBVIOUS
<1>9. PICK o : o = Returning(Ok)
  OBVIOUS
<1>10. node' = nd2 /\ Goto(t, o)
  BY <1>7, <1>8, <1>9 DEF Deleting, Returned, Returning, Put
<1>11. ContentsOf(nd2) = ContentsOf(after)
  <2>1. p \in Page /\ after[p].kind = "leaf" /\ after \in [Page -> PageRecords]
    BY <1>4, <1>5
  <2>2. size(after[p]) = 0
    OBVIOUS
  <2> QED
    BY ONLY <1>8, <2>1, <2>2, EmptyLeafFreed
<1>12. Contents' = Contents \ {e} /\ e \in Contents
  BY <1>5, <1>10, <1>11, ContentsNow
<1>13. Sound(node', root', op', pend, lv, lo, hi)
  <2>1. after = [z \in Page |-> after[z]]
    BY <1>5
  <2>2. /\ op[t].pc = "at_leaf" /\ op[t].kind = "remove" /\ w = op[t].writes /\ Front(w) = <<>>
        /\ p = Last(w) /\ ~is_delete_safe(node[p]) /\ root' = INVALID_PAGE_ID
        /\ Deleting(t, p, after, Returned(Ok))
    OBVIOUS
  <2>3. \A z \in Page : z # p => after[z] = node[z]
    BY <1>5
  <2> QED
    BY ONLY <1>2, <2>1, <2>2, <2>3, EmptiedKept, EntriesBounded, t \in Thread
<1>14. Goes(t, o, pend, lv, lo, hi, pend, lv, lo, hi)
  BY <1>10, <1>13, RemoveWillDo
<1>15. Answering(o) /\ o.answer = Ok /\ o.kind \notin Lookups
  BY <1>9, AnsweringReturned
<1> QED
  BY <1>1, <1>4, <1>12, <1>14, <1>15, RemoveDone

LEMMA DeficientImplemented ==
  ASSUME EntriesBounded, NoTombstones, NEW pend, NEW lv, NEW lo, NEW hi,
         Known(pend, lv, lo, hi), NEW t \in Thread, op[t].pc = "at_leaf", op[t].kind = "remove",
         NEW w, w = op[t].writes, Front(w) # <<>>, NEW p, p = Last(w),
         ~Absent(node[p], op[t].entry), num_children(node[Last(Front(w))]) > 1,
         node' = [node EXCEPT ![p] = WithoutEntry(node[p], op[t].entry)], UNCHANGED root,
         Goto(t, [op[t] EXCEPT !.pc = FirstSide(p, Last(Front(w))),
                               !.answer = Ok, !.page = p, !.writes = Front(w)]), Observe
  PROVE  Implemented
<1>1. PICK e : e = op[t].entry
  OBVIOUS
<1>2. Sound(node, root, op, pend, lv, lo, hi) /\ IsCall(op[t])
  BY KnownNow
<1>3. LeafHeld(pend, lo, hi, t, p)
  BY <1>2, AtLeaf
<1>4. op[t].answer = Unanswered
  BY <1>3, AtTheLeaf
<1>5. Contents' = Contents \ {e} /\ e \in Contents
  <2>1. node' = After(t, p)
    BY DEF After
  <2>2. ContentsOf(After(t, p)) = Contents \ {op[t].entry} /\ op[t].entry \in Contents
    BY <1>3, LostAs
  <2> QED
    BY <1>1, <2>1, <2>2, ContentsNow
<1>6. Sound(node', root', op', pend, lv, lo, hi)
  BY <1>2, DeficientKept
<1>7. PICK x, v : x = FirstSide(p, Last(Front(w))) /\ v = Front(w)
  OBVIOUS
<1>8. PICK o : o = [op[t] EXCEPT !.pc = x, !.answer = Ok, !.page = p, !.writes = v]
  OBVIOUS
<1>9. Goto(t, o)
  BY <1>7, <1>8
<1>10. o.pc = x /\ o.answer = Ok /\ o.kind = "remove"
  BY <1>2, <1>8 DEF IsCall
<1>11. Answering(o) /\ o.kind \notin Lookups
  <2>1. x \in {"left", "right"}
    BY <1>7 DEF FirstSide
  <2> QED
    BY <1>10, <2>1 DEF Answering, Ok, Decided, Lookups
<1>12. Goes(t, o, pend, lv, lo, hi, pend, lv, lo, hi)
  BY <1>6, <1>9, RemoveWillDo
<1> QED
  BY <1>1, <1>4, <1>5, <1>10, <1>11, <1>12, RemoveDone

LEMMA RemoveAtLeafImplemented ==
  ASSUME EntriesBounded, NoTombstones, NEW pend, NEW lv, NEW lo, NEW hi,
         Known(pend, lv, lo, hi), NEW t \in Thread, RemoveAtLeaf(t), Observe
  PROVE  Implemented
<1> DEFINE o == op[t]
           e == op[t].entry
<1>1. PICK w : w = o.writes
  OBVIOUS
<1>2. PICK p : p = Last(w)
  OBVIOUS
<1>3. o.pc = "at_leaf" /\ o.kind = "remove"
  BY DEF RemoveAtLeaf
<1>4. LeafHeld(pend, lo, hi, t, p)
  BY <1>1, <1>2, <1>3, AtLeaf DEF Known
<1>5. PICK after : after = [node EXCEPT ![p] = WithoutEntry(node[p], e)]
  OBVIOUS
<1>6. ~DeletePanics(node[p], e)
  BY NeverEvicts
<1>7. CASE Absent(node[p], e) /\ Finish(t, NotFound) /\ UNCHANGED <<root, node, panicked>>
  BY <1>3, <1>4, <1>7, AbsentImplemented
<1>8. CASE ~Absent(node[p], e) /\ node' = after /\ Finish(t, Ok) /\ UNCHANGED <<root, panicked>>
  <2>1. node' = [node EXCEPT ![p] = WithoutEntry(node[p], e)]
    BY <1>5, <1>8
  <2> QED
    BY <1>3, <1>4, <1>8, <2>1, LostImplemented
<1>9. CASE /\ ~Absent(node[p], e) /\ ~is_delete_safe(node[p]) /\ Front(w) = <<>>
           /\ size(after[p]) = 0
           /\ root' = INVALID_PAGE_ID /\ Deleting(t, p, after, Returned(Ok))
  BY <1>1, <1>2, <1>3, <1>5, <1>9, EmptiedImplemented
<1>10. CASE /\ ~Absent(node[p], e) /\ Front(w) # <<>> /\ num_children(node[Last(Front(w))]) > 1
            /\ node' = after /\ UNCHANGED root
            /\ Goto(t, [op[t] EXCEPT !.pc = FirstSide(p, Last(Front(w))),
                                     !.answer = Ok, !.page = p, !.writes = Front(w)])
  <2>1. node' = [node EXCEPT ![p] = WithoutEntry(node[p], op[t].entry)]
    BY <1>5, <1>10
  <2> QED
    BY <1>1, <1>2, <1>3, <1>10, <2>1, DeficientImplemented
<1>11. CASE Panic
  BY <1>11, StillImplemented DEF Panic
<1>12. \/ Absent(node[p], e) /\ Finish(t, NotFound) /\ UNCHANGED <<root, node, panicked>>
       \/ ~Absent(node[p], e) /\ node' = after /\ Finish(t, Ok) /\ UNCHANGED <<root, panicked>>
       \/ /\ ~Absent(node[p], e) /\ ~is_delete_safe(node[p]) /\ Front(w) = <<>>
          /\ size(after[p]) = 0
          /\ root' = INVALID_PAGE_ID /\ Deleting(t, p, after, Returned(Ok))
       \/ /\ ~Absent(node[p], e) /\ Front(w) # <<>> /\ num_children(node[Last(Front(w))]) > 1
          /\ node' = after /\ UNCHANGED <<root, panicked>>
          /\ Goto(t, [op[t] EXCEPT !.pc = FirstSide(p, Last(Front(w))),
                                   !.answer = Ok, !.page = p, !.writes = Front(w)])
       \/ Panic
  BY <1>1, <1>2, <1>5, <1>6 DEF RemoveAtLeaf, NotFound
<1> QED
  BY <1>7, <1>8, <1>9, <1>10, <1>11, <1>12

-----------------------------------------------------------------------------
(* remove, once it is done: the rest is rebalancing.                       *)

\* What a decided remove does next, the index being what it was.
LEMMA RemoveReturns ==
  ASSUME NEW pend, NEW lv, NEW lo, NEW hi, Known(pend, lv, lo, hi), NEW t \in Thread,
         op[t].pc \in Decided, op[t].kind = "remove", Goto(t, Returning(op[t].answer)),
         NEW pend2, NEW lv2, NEW lo2, NEW hi2, Sound(node', root', op', pend2, lv2, lo2, hi2),
         Contents' = Contents, Observe
  PROVE  Implemented
<1>1. PICK o : o = Returning(op[t].answer)
  OBVIOUS
<1>2. Goes(t, o, pend, lv, lo, hi, pend2, lv2, lo2, hi2)
  BY <1>1, RemoveWillDo
<1> QED
  BY <1>1, <1>2, DecidedReturns DEF Lookups

LEMMA RemoveGoesOn ==
  ASSUME NEW pend, NEW lv, NEW lo, NEW hi, Known(pend, lv, lo, hi), NEW t \in Thread, NEW o,
         op[t].pc \in Decided, op[t].kind = "remove", Goto(t, o), o.pc \in Decided,
         o.kind = "remove", o.answer = op[t].answer, o.entry = op[t].entry,
         NEW pend2, NEW lv2, NEW lo2, NEW hi2, Sound(node', root', op', pend2, lv2, lo2, hi2),
         Contents' = Contents, Observe
  PROVE  Implemented
<1>1. Goes(t, o, pend, lv, lo, hi, pend2, lv2, lo2, hi2)
  BY RemoveWillDo
<1>2. Answering(op[t])
  BY KnownNow
<1>3. Answering(o)
  BY <1>2 DEF Answering, Decided
<1> QED
  BY <1>1, <1>3, SilentUpdate DEF Lookups

\* It is the other sibling's turn, or both are merged.
LEMMA TurnImplemented ==
  ASSUME EntriesBounded, NEW pend, NEW lv, NEW lo, NEW hi, Known(pend, lv, lo, hi),
         NEW t \in Thread, op[t].pc \in {"left", "right"}, NEW pc \in {"right", "merge"},
         pc = "right" => HasRight(t),
         Goto(t, [op[t] EXCEPT !.pc = pc]), UNCHANGED <<root, node>>, Observe
  PROVE  Implemented
<1>1. Sound(node, root, op, pend, lv, lo, hi) /\ IsCall(op[t])
  BY KnownNow
<1>2. op[t].kind = "remove"
  BY <1>1, AtSibling
<1>3. Sound(node', root', op', pend, lv, lo, hi)
  BY <1>1, TurnKept
<1>4. PICK o : o = [op[t] EXCEPT !.pc = pc]
  OBVIOUS
<1>5. Goto(t, o)
  BY <1>4
<1>6. o.pc = pc /\ o.kind = op[t].kind /\ o.answer = op[t].answer /\ o.entry = op[t].entry
  BY <1>1, <1>4 DEF IsCall
<1>7. op[t].pc \in Decided /\ o.pc \in Decided /\ Contents' = Contents
  BY <1>6, ContentsNow DEF Decided
<1> QED
  BY <1>2, <1>3, <1>5, <1>6, <1>7, RemoveGoesOn

LEMMA EvenedSame ==
  ASSUME EntriesBounded, NEW pend, NEW lv, NEW lo, NEW hi,
         Sound(node, root, op, pend, lv, lo, hi), NEW p \in Page, node[p].kind = "internal",
         NEW m, NEW l \in Page, NEW r \in Page, Adjacent(node, root, pend, lv, lo, hi, p, m, l, r),
         node[l].kind = "leaf", node[r].kind = "leaf", Redistribute(node[l], node[r]),
         node' = Redistributed(p, l, r, m), node' \in [Page -> PageRecords]
  PROVE  Contents' = Contents
<1>1. /\ Tree(node, root, pend, lv, lo, hi) /\ node \in [Page -> PageRecords]
      /\ node[l] \in LeafRecords /\ node[r] \in LeafRecords
  <2>1. Tree(node, root, pend, lv, lo, hi)
    BY DEF Sound
  <2> QED
    BY <2>1, LeafRecord, TreeTyped
<1>2. PICK left : left = EvenedLeft(node, l, r)
  OBVIOUS
<1>3. PICK right : right = EvenedRight(node, l, r)
  OBVIOUS
<1>4. PICK sep : sep = EvenedSep(node, l, r)
  OBVIOUS
<1>5. l # r /\ l # p /\ r # p
  BY DEF Adjacent
<1>6. node[p] = InternalNode(node[p].children, node[p].seps)
  BY ONLY <1>1, Children, EntriesBounded, p \in Page, node[p].kind = "internal"
<1>7. PICK c : c = InternalNode(node[p].children, Put(node[p].seps, m, sep))
  OBVIOUS
<1>8. PICK x, y : x = node[l].next /\ y = node[r].next
  OBVIOUS
<1>9. PICK nd2 : nd2 = Put(Put(Put(node, l, LeafWith(left, x)), r, LeafWith(right, y)), p, c)
  OBVIOUS
<1>10. node' = nd2
  <2>1. Redistributed(p, l, r, m) =
          Put(Put(Put(node, l, LeafWith(left, node[l].next)), r, LeafWith(right, node[r].next)),
              p, InternalNode(node[p].children, Put(node[p].seps, m, sep)))
    BY <1>1, <1>2, <1>3, <1>4, <1>5, <1>6, EvenedAs
  <2> QED
    BY <2>1, <1>7, <1>8, <1>9
<1>11. PICK k : k = CutAt(node[l], node[r])
  OBVIOUS
<1>13. k \in Nat /\ k < Len(node[l].entries) + Len(node[r].entries)
  BY <1>1, <1>11, CutBetween
<1>16. \A e : In(left, e) \/ In(right, e) <=> In(node[l].entries, e) \/ In(node[r].entries, e)
  BY <1>1, <1>2, <1>3, <1>11, <1>13, CutContents
<1>17. c.kind = "internal"
  BY <1>7, NodeKind
<1>18. nd2 \in [Page -> PageRecords]
  BY <1>10
<1>19. ContentsOf(nd2) = ContentsOf(node)
  BY <1>1, <1>5, <1>9, <1>16, <1>17, <1>18, EvenedContents
<1> QED
  BY <1>10, <1>19, ContentsNow

LEMMA LeafSiblingImplemented ==
  ASSUME EntriesBounded, NEW pend, NEW lv, NEW lo, NEW hi, Known(pend, lv, lo, hi),
         NEW t \in Thread, NEW pc \in {"left", "right"}, Granted(t, pc), IsLeaf(op[t].page),
         NEW d \in {-1, 1}, pc = "left" <=> d = -1,
         NEW otherwise \in {"right", "merge"}, otherwise = "right" => HasRight(t),
         TryLeafSibling(t, d, otherwise), Observe
  PROVE  Implemented
<1>1. PICK p : p = Parent(t)
  OBVIOUS
<1>2. PICK s : s = Sibling(t, d)
  OBVIOUS
<1>3. PICK l : l = IF d < 0 THEN s ELSE op[t].page
  OBVIOUS
<1>4. PICK r : r = IF d < 0 THEN op[t].page ELSE s
  OBVIOUS
<1>5. PICK m : m = IdxInParent(t) + (IF d < 0 THEN 0 ELSE 1)
  OBVIOUS
<1>6. op[t].pc = pc /\ Sound(node, root, op, pend, lv, lo, hi)
  BY DEF Granted, Known
<1>7. d = -1 => IdxInParent(t) > 0
  BY <1>6, AtSibling
<1>8. d = 1 => IdxInParent(t) + 1 < num_children(node[p])
  BY <1>1, <1>6, AtSibling
<1>9. Wants(t) = [page |-> s, mode |-> "write"]
  BY <1>2, <1>6, WantsAt
<1>10. /\ p \in Page /\ node[p].kind = "internal" /\ l \in Page /\ r \in Page
       /\ Adjacent(node, root, pend, lv, lo, hi, p, m, l, r)
       /\ node[l].kind = "leaf" /\ node[r].kind = "leaf"
  BY <1>1, <1>2, <1>3, <1>4, <1>5, <1>6, <1>7, <1>8, <1>9, PairHeld
<1>11. CASE Goto(t, [op[t] EXCEPT !.pc = otherwise]) /\ UNCHANGED <<root, node, panicked>>
  BY <1>6, <1>11, TurnImplemented
<1>12. CASE Panic
  BY <1>12, StillImplemented DEF Panic
<1>13. CASE /\ Redistribute(node[l], node[r]) /\ node' = Redistributed(p, l, r, m)
            /\ Finish(t, op[t].answer) /\ UNCHANGED <<root, panicked>>
  <2>1. PICK lo2, hi2 : Sound(node', root', op', pend, lv, lo2, hi2)
    BY <1>6, LeafSiblingKept
  <2>2. node' \in [Page -> PageRecords]
    <3>1. Tree(node', root', pend, lv, lo2, hi2)
      BY <2>1 DEF Sound
    <3> QED
      BY <3>1 DEF Tree, Typed
  <2>3. Contents' = Contents
    BY <1>6, <1>10, <1>13, <2>2, EvenedSame
  <2>4. op[t].kind = "remove" /\ op[t].pc \in Decided
    BY <1>6, AtSibling DEF Decided
  <2>5. Goto(t, Returning(op[t].answer))
    BY <1>13 DEF Finish, Returning
  <2> QED
    BY <2>1, <2>3, <2>4, <2>5, RemoveReturns
<1> QED
  BY <1>1, <1>2, <1>3, <1>4, <1>5, <1>11, <1>12, <1>13 DEF TryLeafSibling

LEMMA LeafLeftImplemented ==
  ASSUME EntriesBounded, NEW pend, NEW lv, NEW lo, NEW hi, Known(pend, lv, lo, hi),
         NEW t \in Thread, LeafLeft(t), Observe
  PROVE  Implemented
<1>1. Granted(t, "left") /\ IsLeaf(op[t].page) /\ TryLeafSibling(t, -1, AfterLeft(t))
  BY DEF LeafLeft
<1>2. PICK otherwise : otherwise = AfterLeft(t)
  OBVIOUS
<1>3. otherwise \in {"right", "merge"} /\ (otherwise = "right" => HasRight(t))
  BY <1>2 DEF AfterLeft
<1>4. PICK d : d = -1
  OBVIOUS
<1>5. d \in {-1, 1} /\ ("left" = "left" <=> d = -1)
  BY <1>4
<1> QED
  BY <1>1, <1>2, <1>3, <1>4, <1>5, LeafSiblingImplemented

LEMMA LeafRightImplemented ==
  ASSUME EntriesBounded, NEW pend, NEW lv, NEW lo, NEW hi, Known(pend, lv, lo, hi),
         NEW t \in Thread, LeafRight(t), Observe
  PROVE  Implemented
<1>1. Granted(t, "right") /\ IsLeaf(op[t].page) /\ TryLeafSibling(t, 1, "merge")
  BY DEF LeafRight
<1>2. PICK d : d = 1
  OBVIOUS
<1>3. d \in {-1, 1} /\ ("right" = "left" <=> d = -1)
  BY <1>2
<1>4. PICK otherwise : otherwise = "merge"
  OBVIOUS
<1> QED
  BY <1>1, <1>2, <1>3, <1>4, LeafSiblingImplemented

\* Three pages that are not leaves, before and after.
LEMMA NodesBordered ==
  ASSUME node \in [Page -> PageRecords], node' \in [Page -> PageRecords],
         NEW p \in Page, NEW l \in Page, NEW r \in Page, l # r, l # p, r # p,
         node[p].kind = "internal", node[l].kind = "internal", node[r].kind = "internal",
         NEW m, NEW a, NEW b, NEW sep, a.kind = "internal", b.kind = "internal",
         node' = Bordered(p, l, r, m, a, b, sep)
  PROVE  Contents' = Contents
<1>1. PICK c : c = InternalNode(node[p].children, Put(node[p].seps, m, sep))
  OBVIOUS
<1>2. c.kind = "internal"
  BY <1>1, NodeKind
<1>3. PICK nd2 : nd2 = Put(Put(Put(node, l, a), r, b), p, c)
  OBVIOUS
<1>4. nd2[l] = a /\ nd2[r] = b /\ nd2[p] = c
      /\ \A z \in Page : z # l /\ z # r /\ z # p => nd2[z] = node[z]
  BY <1>3 DEF Put
<1>5. node' = nd2
  BY <1>1, <1>3 DEF Bordered
<1>6. \A z \in Page : nd2[z] = node[z] \/ (node[z].kind # "leaf" /\ nd2[z].kind # "leaf")
  BY <1>2, <1>4
<1>7. ContentsOf(nd2) = ContentsOf(node)
  BY <1>5, <1>6, LeavesSame
<1> QED
  BY <1>5, <1>7, ContentsNow

LEMMA NodeSiblingImplemented ==
  ASSUME EntriesBounded, NEW pend, NEW lv, NEW lo, NEW hi, Known(pend, lv, lo, hi),
         NEW t \in Thread, NEW pc \in {"left", "right"}, Granted(t, pc), ~IsLeaf(op[t].page),
         NEW d \in {-1, 1}, pc = "left" <=> d = -1,
         NEW otherwise \in {"right", "merge"}, otherwise = "right" => HasRight(t),
         TryNodeSibling(t, d, otherwise), Observe
  PROVE  Implemented
<1>1. PICK p : p = Parent(t)
  OBVIOUS
<1>2. PICK s : s = Sibling(t, d)
  OBVIOUS
<1>3. PICK l : l = IF d < 0 THEN s ELSE op[t].page
  OBVIOUS
<1>4. PICK r : r = IF d < 0 THEN op[t].page ELSE s
  OBVIOUS
<1>5. PICK m : m = IdxInParent(t) + (IF d < 0 THEN 0 ELSE 1)
  OBVIOUS
<1>6. op[t].pc = pc /\ Sound(node, root, op, pend, lv, lo, hi)
  BY DEF Granted, Known
<1>7. d = -1 => IdxInParent(t) > 0
  BY <1>6, AtSibling
<1>8. d = 1 => IdxInParent(t) + 1 < num_children(node[p])
  BY <1>1, <1>6, AtSibling
<1>9. Wants(t) = [page |-> s, mode |-> "write"]
  BY <1>2, <1>6, WantsAt
<1>10. /\ p \in Page /\ node[p].kind = "internal" /\ l \in Page /\ r \in Page
       /\ Adjacent(node, root, pend, lv, lo, hi, p, m, l, r)
       /\ node[l].kind = "internal" /\ node[r].kind = "internal"
  BY <1>1, <1>2, <1>3, <1>4, <1>5, <1>6, <1>7, <1>8, <1>9, PairHeld
<1>11. l # r /\ l # p /\ r # p
  BY <1>10 DEF Adjacent
<1>12. node \in [Page -> PageRecords] /\ Tree(node, root, pend, lv, lo, hi)
  <2>1. Tree(node, root, pend, lv, lo, hi)
    BY <1>6 DEF Sound
  <2> QED
    BY <2>1, TreeTyped
<1>13. node[p] = InternalNode(node[p].children, node[p].seps)
  BY ONLY <1>10, <1>12, Children, EntriesBounded
<1>14. CASE Goto(t, [op[t] EXCEPT !.pc = otherwise]) /\ UNCHANGED <<root, node>>
  BY <1>6, <1>14, TurnImplemented
<1>15. ASSUME NEW a, NEW b, NEW sep, a.kind = "internal", b.kind = "internal",
              node' = Bordered(p, l, r, m, a, b, sep), Finish(t, op[t].answer)
       PROVE  Implemented
  <2>1. PICK lo2, hi2 : Sound(node', root', op', pend, lv, lo2, hi2)
    BY <1>6, NodeSiblingKept
  <2>2. node' \in [Page -> PageRecords]
    <3>1. Tree(node', root', pend, lv, lo2, hi2)
      BY <2>1 DEF Sound
    <3> QED
      BY <3>1 DEF Tree, Typed
  <2>3. Contents' = Contents
    BY <1>10, <1>11, <1>12, <1>15, <2>2, NodesBordered
  <2>4. op[t].kind = "remove" /\ op[t].pc \in Decided
    BY <1>6, AtSibling DEF Decided
  <2>5. Goto(t, Returning(op[t].answer))
    BY <1>15 DEF Finish, Returning
  <2> QED
    BY <2>1, <2>3, <2>4, <2>5, RemoveReturns
<1>16. CASE node' = BorrowFromRight(p, l, r, m) /\ Finish(t, op[t].answer)
  <2>1. BorrowFromRight(p, l, r, m) =
           Bordered(p, l, r, m, GivenFirst(node, p, m, l, r), WithoutFirst(node, r),
                    FirstSep(node, r))
    BY <1>10, <1>11, <1>12, <1>13, FirstLentAs
  <2>2. GivenFirst(node, p, m, l, r).kind = "internal" /\ WithoutFirst(node, r).kind = "internal"
    BY NodeKind DEF GivenFirst, WithoutFirst
  <2> QED
    BY <1>15, <1>16, <2>1, <2>2
<1>17. CASE node' = BorrowFromLeft(p, l, r, m) /\ Finish(t, op[t].answer)
  <2>1. BorrowFromLeft(p, l, r, m) =
           Bordered(p, l, r, m, WithoutLast(node, l), GivenLast(node, p, m, l, r),
                    LastSep(node, l))
    BY <1>10, <1>11, <1>12, <1>13, LastLentAs
  <2>2. WithoutLast(node, l).kind = "internal" /\ GivenLast(node, p, m, l, r).kind = "internal"
    BY NodeKind DEF GivenLast, WithoutLast
  <2> QED
    BY <1>15, <1>17, <2>1, <2>2
<1> QED
  BY <1>1, <1>2, <1>3, <1>4, <1>5, <1>14, <1>16, <1>17 DEF TryNodeSibling

LEMMA NodeLeftImplemented ==
  ASSUME EntriesBounded, NEW pend, NEW lv, NEW lo, NEW hi, Known(pend, lv, lo, hi),
         NEW t \in Thread, NodeLeft(t), Observe
  PROVE  Implemented
<1>1. Granted(t, "left") /\ ~IsLeaf(op[t].page) /\ TryNodeSibling(t, -1, AfterLeft(t))
  BY DEF NodeLeft
<1>2. PICK otherwise : otherwise = AfterLeft(t)
  OBVIOUS
<1>3. otherwise \in {"right", "merge"} /\ (otherwise = "right" => HasRight(t))
  BY <1>2 DEF AfterLeft
<1>4. PICK d : d = -1
  OBVIOUS
<1>5. d \in {-1, 1} /\ ("left" = "left" <=> d = -1)
  BY <1>4
<1> QED
  BY <1>1, <1>2, <1>3, <1>4, <1>5, NodeSiblingImplemented

LEMMA NodeRightImplemented ==
  ASSUME EntriesBounded, NEW pend, NEW lv, NEW lo, NEW hi, Known(pend, lv, lo, hi),
         NEW t \in Thread, NodeRight(t), Observe
  PROVE  Implemented
<1>1. Granted(t, "right") /\ ~IsLeaf(op[t].page) /\ TryNodeSibling(t, 1, "merge")
  BY DEF NodeRight
<1>2. PICK d : d = 1
  OBVIOUS
<1>3. d \in {-1, 1} /\ ("right" = "left" <=> d = -1)
  BY <1>2
<1>4. PICK otherwise : otherwise = "merge"
  OBVIOUS
<1> QED
  BY <1>1, <1>2, <1>3, <1>4, NodeSiblingImplemented

-----------------------------------------------------------------------------
(* remove: merging, and what it leaves above.                              *)

\* What a merge writes before it deletes the right page, and where the call goes.
MergedPages(p, m, l, n) == [node EXCEPT ![l] = n, ![p] = remove_slot(node[p], m)]
AfterMerge(t) == [op[t] EXCEPT !.pc = "underflow", !.page = INVALID_PAGE_ID]

LEMMA MergedOn ==
  ASSUME NEW pend, NEW lv, NEW lo, NEW hi, Known(pend, lv, lo, hi), NEW t \in Thread,
         op[t].pc = "merge", op[t].kind = "remove",
         Goto(t, AfterMerge(t)),
         NEW hi2, Sound(node', root', op', pend, lv, lo, hi2), Contents' = Contents, Observe
  PROVE  Implemented
<1>1. IsCall(op[t])
  BY KnownNow
<1>2. PICK o : o = AfterMerge(t)
  OBVIOUS
<1>3. Goto(t, o)
  BY <1>2
<1>4. /\ o.pc = "underflow" /\ o.kind = op[t].kind /\ o.answer = op[t].answer
      /\ o.entry = op[t].entry
  BY <1>1, <1>2 DEF IsCall, AfterMerge
<1>5. op[t].pc \in Decided /\ o.pc \in Decided
  BY <1>4 DEF Decided
<1> QED
  BY <1>3, <1>4, <1>5, RemoveGoesOn

\* The right page is not pinned by any other thread: it is deleted.
LEMMA MergedAway ==
  ASSUME EntriesBounded, NEW pend, NEW lv, NEW lo, NEW hi,
         Sound(node, root, op, pend, lv, lo, hi), NEW t \in Thread, op[t].pc = "merge",
         NEW s, NEW p, p = Parent(t), NEW m, NEW l, NEW r,
         Pair(pend, lv, lo, hi, t, s, p, m, l, r), NEW n,
         Deleting(t, r, MergedPages(p, m, l, n), AfterMerge(t)),
         node' \in [Page -> PageRecords]
  PROVE  /\ op[t].kind = "remove" /\ l # r /\ l # p /\ r # p
         /\ node' = Joint(node, p, m, l, r, n) /\ node'[l] = n /\ node'[r] = Free
         /\ \A z \in Page : z # l /\ z # r /\ z # p => node'[z] = node[z]
         /\ Goto(t, AfterMerge(t))
<1>0. PICK nd0 : nd0 = MergedPages(p, m, l, n)
  OBVIOUS
<1>1. PICK w : w = op[t].writes
  OBVIOUS
<1>2. Merging(lv, t, w, p, l, r)
  BY <1>1, MergingOn
<1>3. op[t].kind = "remove" /\ l # r /\ l # p /\ r # p /\ ~PinnedByOther(t, r)
  BY <1>2 DEF Merging
<1>4. PICK o : o = AfterMerge(t)
  OBVIOUS
<1>5. node' = Put(nd0, r, Free) /\ Goto(t, o)
  BY <1>0, <1>3, <1>4 DEF Deleting, Put
<1>6. PICK c : c = remove_slot(node[p], m)
  OBVIOUS
<1>7. nd0 = Put(Put(node, l, n), p, c)
  BY <1>0, <1>6 DEF MergedPages, Put
<1>8. node' = Put(Put(Put(node, l, n), p, c), r, Free)
  BY <1>5, <1>7
<1>9. Tree(node, root, pend, lv, lo, hi) /\ p \in Page /\ l \in Page /\ r \in Page
  BY Now DEF Pair
<1>10. node \in [Page -> PageRecords]
  BY <1>9, TreeTyped
<1>11. PICK nd2 : nd2 = Put(Put(Put(node, l, n), p, c), r, Free)
  OBVIOUS
<1>12. /\ nd2[l] = n /\ nd2[r] = Free
       /\ \A z \in Page : z # l /\ z # r /\ z # p => nd2[z] = node[z]
  BY ONLY <1>3, <1>9, <1>10, <1>11 DEF Put
<1>13. node' = Joint(node, p, m, l, r, n)
  BY <1>6, <1>8 DEF Joint
<1> QED
  BY <1>3, <1>4, <1>5, <1>8, <1>11, <1>12, <1>13

\* The parent stays an internal page.
LEMMA ParentStays ==
  ASSUME EntriesBounded, NEW pend, NEW lv, NEW lo, NEW hi,
         Tree(node, root, pend, lv, lo, hi), NEW t \in Thread, NEW s, NEW p, NEW m, NEW l, NEW r,
         Pair(pend, lv, lo, hi, t, s, p, m, l, r), NEW n \in PageRecords, n.kind # "free",
         node' = Joint(node, p, m, l, r, n)
  PROVE  node'[p].kind = "internal"
<1>1. PICK nd2 : nd2 = Joint(node, p, m, l, r, n)
  OBVIOUS
<1>2. PICK hi2 : hi2 = Put(hi, l, hi[r])
  OBVIOUS
<1>3. JointFrom(nd2, hi, hi2, p, l, r)
  BY <1>1, <1>2, JointMade
<1>4. node' = nd2
  BY <1>1
<1> QED
  BY <1>3, <1>4 DEF JointFrom

LEMMA MergeLeafImplemented ==
  ASSUME EntriesBounded, NEW pend, NEW lv, NEW lo, NEW hi, Known(pend, lv, lo, hi),
         NEW t \in Thread, MergeLeaf(t), Observe
  PROVE  Implemented
<1>1. PICK p : p = Parent(t)
  OBVIOUS
<1>2. PICK idx : idx = IdxInParent(t)
  OBVIOUS
<1>3. PICK l : l = IF idx > 0 THEN Sibling(t, -1) ELSE op[t].page
  OBVIOUS
<1>4. PICK r : r = IF idx > 0 THEN op[t].page ELSE Sibling(t, 1)
  OBVIOUS
<1>5. PICK m : m = IF idx > 0 THEN idx ELSE 1
  OBVIOUS
<1>6. Granted(t, "merge") /\ IsLeaf(op[t].page)
  BY DEF MergeLeaf
<1>7. Sound(node, root, op, pend, lv, lo, hi) /\ Tree(node, root, pend, lv, lo, hi)
  BY KnownNow
<1>8. PICK s : Pair(pend, lv, lo, hi, t, s, p, m, l, r)
  BY <1>1, <1>2, <1>3, <1>4, <1>5, <1>6, <1>7, MergePair
<1>9. op[t].pc = "merge" /\ node[l].kind = "leaf" /\ node[r].kind = "leaf"
  BY <1>1, <1>2, <1>3, <1>4, <1>5, <1>6, <1>7, MergePair
<1>10. CASE Panic
  BY <1>10, StillImplemented DEF Panic
<1>11. PICK n : n = MergedLeaf(node[l], node[r])
  OBVIOUS
<1>12. p \in Page /\ l \in Page /\ r \in Page /\ l # p /\ node[p].kind = "internal"
  BY <1>8 DEF Pair, Adjacent
<1>13. /\ node \in [Page -> PageRecords]
       /\ node[l] \in LeafRecords /\ node[r] \in LeafRecords
  BY <1>7, <1>9, <1>12, LeafRecord, TreeTyped
<1>14. CASE /\ Deleting(t, r, [node EXCEPT ![l] = MergedLeaf(@, node[r]),
                                           ![p] = remove_slot(@, m)],
                        [op[t] EXCEPT !.pc = "underflow", !.page = INVALID_PAGE_ID])
            /\ UNCHANGED <<root, panicked>>
  <2>1. PICK nd0 : nd0 = MergedPages(p, m, l, n)
    OBVIOUS
  <2>2. [node EXCEPT ![l] = MergedLeaf(@, node[r]), ![p] = remove_slot(@, m)] = nd0
    BY <1>11, <1>12, <1>13, <2>1 DEF MergedPages
  <2>3. Deleting(t, r, MergedPages(p, m, l, n), AfterMerge(t))
    BY <1>14, <2>1, <2>2 DEF AfterMerge
  <2>4. PICK hi2 : Sound(node', root', op', pend, lv, lo, hi2)
    BY <1>7, MergeLeafKept
  <2>5. node' \in [Page -> PageRecords]
    <3>1. Tree(node', root', pend, lv, lo, hi2)
      BY <2>4 DEF Sound
    <3> QED
      BY <3>1 DEF Tree, Typed
  <2>6. /\ op[t].kind = "remove" /\ l # r /\ l # p /\ r # p
        /\ node' = Joint(node, p, m, l, r, n) /\ node'[l] = n /\ node'[r] = Free
        /\ \A z \in Page : z # l /\ z # r /\ z # p => node'[z] = node[z]
        /\ Goto(t, AfterMerge(t))
    BY <1>1, <1>7, <1>8, <1>9, <2>1, <2>3, <2>5, MergedAway
  <2>7. n \in PageRecords /\ n.kind # "free"
    BY <1>11, <1>13, MergedMade
  <2>8. node'[p].kind = "internal"
    BY <1>7, <1>8, <2>6, <2>7, ParentStays
  <2>9. PICK nd2 : nd2 = node'
    OBVIOUS
  <2>10. n.kind = "leaf" /\ \A e : In(n.entries, e) <=> In(node[l].entries, e) \/ In(node[r].entries, e)
    BY <1>11, <1>13, MergedEntries
  <2>11. /\ nd2 \in [Page -> PageRecords] /\ nd2[p].kind = "internal"
         /\ nd2[l].kind = "leaf" /\ nd2[r].kind # "leaf"
         /\ \A e : In(nd2[l].entries, e) <=> In(node[l].entries, e) \/ In(node[r].entries, e)
         /\ \A z \in Page : z # l /\ z # r /\ z # p => nd2[z] = node[z]
    BY <2>5, <2>6, <2>8, <2>9, <2>10 DEF Free
  <2>12. ContentsOf(nd2) = ContentsOf(node)
    <3>1. node[l].kind = "leaf" /\ node[r].kind = "leaf"
      BY <1>13, LeafFields
    <3>2. l # r /\ l # p /\ r # p
      BY <2>6
    <3> QED
      BY ONLY <1>12, <1>13, <2>11, <3>1, <3>2, JointContents
  <2>13. Contents' = Contents
    BY <2>9, <2>12, ContentsNow
  <2> QED
    BY <1>9, <2>4, <2>6, <2>13, MergedOn
<1> QED
  BY <1>1, <1>2, <1>3, <1>4, <1>5, <1>10, <1>14 DEF MergeLeaf

LEMMA MergeNodeImplemented ==
  ASSUME EntriesBounded, NEW pend, NEW lv, NEW lo, NEW hi, Known(pend, lv, lo, hi),
         NEW t \in Thread, MergeNode(t), Observe
  PROVE  Implemented
<1>1. PICK p : p = Parent(t)
  OBVIOUS
<1>2. PICK idx : idx = IdxInParent(t)
  OBVIOUS
<1>3. PICK l : l = IF idx > 0 THEN Sibling(t, -1) ELSE op[t].page
  OBVIOUS
<1>4. PICK r : r = IF idx > 0 THEN op[t].page ELSE Sibling(t, 1)
  OBVIOUS
<1>5. PICK m : m = IF idx > 0 THEN idx ELSE 1
  OBVIOUS
<1>6. Granted(t, "merge") /\ ~IsLeaf(op[t].page)
  BY DEF MergeNode
<1>7. Sound(node, root, op, pend, lv, lo, hi) /\ Tree(node, root, pend, lv, lo, hi)
  BY KnownNow
<1>8. PICK s : Pair(pend, lv, lo, hi, t, s, p, m, l, r)
  BY <1>1, <1>2, <1>3, <1>4, <1>5, <1>6, <1>7, MergePair
<1>9. op[t].pc = "merge" /\ node[l].kind = "internal" /\ node[r].kind = "internal"
  BY <1>1, <1>2, <1>3, <1>4, <1>5, <1>6, <1>7, MergePair
<1>10. CASE Panic
  BY <1>10, StillImplemented DEF Panic
<1>11. PICK sep : sep = node[p].seps[m]
  OBVIOUS
<1>12. PICK n : n = MergedNode(node[l], node[r], sep)
  OBVIOUS
<1>13. /\ p \in Page /\ l \in Page /\ r \in Page /\ l # p /\ node[p].kind = "internal"
       /\ node[p].seps[m] \in Entry
  BY <1>8 DEF Pair, Adjacent
<1>14. node \in [Page -> PageRecords]
  BY <1>7, TreeTyped
<1>15. CASE /\ Deleting(t, r, [node EXCEPT ![l] = MergedNode(@, node[r], sep),
                                           ![p] = remove_slot(@, m)],
                        [op[t] EXCEPT !.pc = "underflow", !.page = INVALID_PAGE_ID])
            /\ UNCHANGED <<root, panicked>>
  <2>1. PICK nd0 : nd0 = MergedPages(p, m, l, n)
    OBVIOUS
  <2>2. [node EXCEPT ![l] = MergedNode(@, node[r], sep), ![p] = remove_slot(@, m)] = nd0
    BY <1>12, <1>13, <1>14, <2>1 DEF MergedPages
  <2>3. Deleting(t, r, MergedPages(p, m, l, n), AfterMerge(t))
    BY <1>15, <2>1, <2>2 DEF AfterMerge
  <2>4. PICK hi2 : Sound(node', root', op', pend, lv, lo, hi2)
    BY <1>7, MergeNodeKept
  <2>5. node' \in [Page -> PageRecords]
    <3>1. Tree(node', root', pend, lv, lo, hi2)
      BY <2>4 DEF Sound
    <3> QED
      BY <3>1 DEF Tree, Typed
  <2>6. /\ op[t].kind = "remove" /\ node' = Joint(node, p, m, l, r, n)
        /\ node'[l] = n /\ node'[r] = Free
        /\ \A z \in Page : z # l /\ z # r /\ z # p => node'[z] = node[z]
        /\ Goto(t, AfterMerge(t))
    BY <1>1, <1>7, <1>8, <1>9, <2>1, <2>3, <2>5, MergedAway
  <2>7. n.kind = "internal"
    BY <1>12, NodeKind DEF MergedNode
  <2>8. n \in PageRecords
    BY <1>13, <2>5, <2>6
  <2>9. node'[p].kind = "internal"
    BY <1>7, <1>8, <2>6, <2>7, <2>8, ParentStays
  <2>10. PICK nd2 : nd2 = node'
    OBVIOUS
  <2>11. \A z \in Page : nd2[z] = node[z] \/ (node[z].kind # "leaf" /\ nd2[z].kind # "leaf")
    BY <1>9, <1>13, <2>6, <2>7, <2>9, <2>10 DEF Free
  <2>12. ContentsOf(nd2) = ContentsOf(node)
    BY <1>14, <2>5, <2>10, <2>11, LeavesSame
  <2>13. Contents' = Contents
    BY <2>10, <2>12, ContentsNow
  <2> QED
    BY <1>9, <2>4, <2>6, <2>13, MergedOn
<1> QED
  BY <1>1, <1>2, <1>3, <1>4, <1>5, <1>10, <1>11, <1>15 DEF MergeNode

LEMMA UnderflowImplemented ==
  ASSUME EntriesBounded, NEW pend, NEW lv, NEW lo, NEW hi, Known(pend, lv, lo, hi),
         NEW t \in Thread, Underflow(t), Observe
  PROVE  Implemented
<1>1. PICK w : w = op[t].writes
  OBVIOUS
<1>2. PICK p : p = Last(w)
  OBVIOUS
<1>3. PICK v : v = Front(w)
  OBVIOUS
<1>4. op[t].pc = "underflow"
  BY DEF Underflow
<1>5. Sound(node, root, op, pend, lv, lo, hi) /\ IsCall(op[t])
  BY KnownNow
<1>6. op[t].kind = "remove" /\ op[t].pc \in Decided
  BY <1>1, <1>4, <1>5, AtUnderflow DEF Decided
<1>7. Sound(node', root', op', pend, lv, lo, hi)
  BY <1>5, UnderflowKept
<1>8. ASSUME NEW pc \in {"shrink", "left", "right"},
             Goto(t, [op[t] EXCEPT !.pc = pc, !.page = p, !.writes = v]),
             UNCHANGED <<root, node>>
      PROVE  Implemented
  <2>1. PICK o : o = [op[t] EXCEPT !.pc = pc, !.page = p, !.writes = v]
    OBVIOUS
  <2>2. Goto(t, o)
    BY <1>8, <2>1
  <2>3. o.pc = pc /\ o.kind = op[t].kind /\ o.answer = op[t].answer /\ o.entry = op[t].entry
    BY <1>5, <2>1 DEF IsCall
  <2>4. o.pc \in Decided /\ Contents' = Contents
    BY <1>8, <2>3, ContentsNow DEF Decided
  <2> QED
    BY <1>6, <1>7, <2>2, <2>3, <2>4, RemoveGoesOn
<1>9. CASE /\ Goto(t, [op[t] EXCEPT !.pc = "shrink", !.page = p, !.writes = v])
           /\ UNCHANGED <<root, node>>
  BY <1>8, <1>9
<1>10. CASE Finish(t, op[t].answer) /\ UNCHANGED <<root, node>>
  <2>1. Goto(t, Returning(op[t].answer))
    BY <1>10 DEF Finish, Returning
  <2>2. Contents' = Contents
    BY <1>10, ContentsNow
  <2> QED
    BY <1>6, <1>7, <2>1, <2>2, RemoveReturns
<1>11. CASE /\ Goto(t, [op[t] EXCEPT !.pc = FirstSide(p, Last(v)), !.page = p, !.writes = v])
            /\ UNCHANGED <<root, node>>
  <2>1. PICK pc : pc = FirstSide(p, Last(v))
    OBVIOUS
  <2>2. pc \in {"left", "right"}
    BY <2>1 DEF FirstSide
  <2> QED
    BY <1>8, <1>11, <2>1, <2>2
<1>12. CASE Panic
  BY <1>12, StillImplemented DEF Panic
<1> QED
  BY <1>1, <1>2, <1>3, <1>9, <1>10, <1>11, <1>12 DEF Underflow

LEMMA ShrinkRootImplemented ==
  ASSUME EntriesBounded, NEW pend, NEW lv, NEW lo, NEW hi, Known(pend, lv, lo, hi),
         NEW t \in Thread, ShrinkRoot(t), Observe
  PROVE  Implemented
<1>1. PICK c : c = node[root].children[1]
  OBVIOUS
<1>2. PICK x : x = root
  OBVIOUS
<1>3. Granted(t, "shrink")
  BY DEF ShrinkRoot
<1>4. Sound(node, root, op, pend, lv, lo, hi) /\ Tree(node, root, pend, lv, lo, hi)
  BY KnownNow
<1>5. /\ op[t].pc = "shrink" /\ op[t].kind = "remove" /\ op[t].page = x /\ x \in Page
      /\ node[x].kind = "internal" /\ Wants(t).page = c /\ c # x /\ c \in Page
      /\ ~PinnedByOther(t, x) /\ ~PinnedByOther(t, c)
  BY <1>1, <1>2, <1>3, <1>4, AtShrink
<1>6. PICK empty : empty = (IsLeaf(c) /\ size(node[c]) = 0)
  OBVIOUS
<1>7. node \in [Page -> PageRecords]
  BY <1>4, TreeTyped
<1>8. Sound(node', root', op', pend, lv, lo, hi)
  BY <1>4, ShrinkRootKept
<1>9. op[t].pc \in Decided
  BY <1>5 DEF Decided
<1>10. node' \in [Page -> PageRecords]
  <2>1. Tree(node', root', pend, lv, lo, hi)
    BY <1>8 DEF Sound
  <2> QED
    BY <2>1 DEF Tree, Typed
<1>11. CASE ~empty
  <2>1. PICK nd1 : nd1 = [node EXCEPT ![x] = Free]
    OBVIOUS
  <2>2. node' = nd1 /\ Goto(t, Returning(op[t].answer))
    BY <1>5, <1>6, <1>11, <2>1 DEF ShrinkRoot, Deleting, Returned, Returning
  <2>3. \A z \in Page : nd1[z] = node[z] \/ (node[z].kind # "leaf" /\ nd1[z].kind # "leaf")
    BY <1>5, <1>7, <2>1 DEF Free
  <2>4. ContentsOf(nd1) = ContentsOf(node)
    BY <1>7, <1>10, <2>2, <2>3, LeavesSame
  <2>5. Contents' = Contents
    BY <2>2, <2>4, ContentsNow
  <2> QED
    BY <1>5, <1>8, <1>9, <2>2, <2>5, RemoveReturns
<1>12. CASE empty
  <2>1. node[c].kind = "leaf" /\ size(node[c]) = 0
    BY <1>6, <1>12 DEF IsLeaf
  <2>2. PICK nd1 : nd1 = Put(node, c, Free)
    OBVIOUS
  <2>3. nd1 \in [Page -> PageRecords] /\ ContentsOf(nd1) = ContentsOf(node)
    BY <1>5, <1>7, <2>1, <2>2, EmptyLeafFreed
  <2>4. PICK nd2 : nd2 = [[node EXCEPT ![c] = Free] EXCEPT ![x] = Free]
    OBVIOUS
  <2>5. node' = nd2 /\ Goto(t, Returning(op[t].answer))
    BY <1>5, <1>6, <1>12, <2>4 DEF ShrinkRoot, Deleting, Returned, Returning
  <2>6. nd1[x] = node[x] /\ nd2[x] = Free /\ \A z \in Page : z # x => nd2[z] = nd1[z]
    BY <1>5, <1>7, <2>2, <2>4 DEF Put
  <2>7. \A z \in Page : nd2[z] = nd1[z] \/ (nd1[z].kind # "leaf" /\ nd2[z].kind # "leaf")
    BY <1>5, <2>6 DEF Free
  <2>8. ContentsOf(nd2) = ContentsOf(nd1)
    BY <1>10, <2>3, <2>5, <2>7, LeavesSame
  <2>9. Contents' = Contents
    BY <2>3, <2>5, <2>8, ContentsNow
  <2> QED
    BY <1>5, <1>8, <1>9, <2>5, <2>9, RemoveReturns
<1> QED
  BY <1>11, <1>12

-----------------------------------------------------------------------------
(* Lookups.                                                                *)

LEMMA LookupGoesOn ==
  ASSUME NEW pend, NEW lv, NEW lo, NEW hi, Known(pend, lv, lo, hi), NEW t \in Thread, NEW o,
         Goto(t, o), Sound(node', root', op', pend, lv, lo, hi), UNCHANGED <<root, node>>,
         Observe, op[t].kind \in Lookups, o.kind = op[t].kind, o.entry = op[t].entry,
         o.answer = op[t].answer, Watching(Contents, root, lo, hi, o, seen[t])
  PROVE  Implemented
<1>1. Goes(t, o, pend, lv, lo, hi, pend, lv, lo, hi) /\ Contents' = Contents
  BY Gone, GoesOn
<1>2. Watching(Contents, root', lo, hi, o, seen[t])
  OBVIOUS
<1> QED
  BY <1>1, <1>2, SilentLookup

LEMMA LookupReturns ==
  ASSUME EntriesBounded, NEW pend, NEW lv, NEW lo, NEW hi, Known(pend, lv, lo, hi),
         NEW t \in Thread, NEW f, Finish(t, <<"values", f>>),
         Sound(node', root', op', pend, lv, lo, hi), UNCHANGED <<root, node>>, Observe,
         op[t].kind \in Lookups, NEW x, Filed(f, Bottom, x),
         \A e \in Entry : In(f, e) => e \in Sought(op[t]) /\ e \in seen[t].ever,
         \A e \in Sought(op[t]) : e \in seen[t].always => In(f, e)
  PROVE  Implemented
<1>1. PICK o : o = Returning(<<"values", f>>)
  OBVIOUS
<1>2. Goto(t, o)
  BY <1>1 DEF Finish, Returning
<1>3. Goes(t, o, pend, lv, lo, hi, pend, lv, lo, hi) /\ Contents' = Contents
  BY <1>2, Gone, GoesOn
<1> QED
  BY <1>1, <1>3, LookupDone

LEMMA FiledNothing ==
  ASSUME NEW x
  PROVE  Filed(<<>>, Bottom, x) /\ \A e : ~In(<<>>, e)
  BY DEF Filed, In

\* What is asked for is not below the least entry with the key.
LEMMA SoughtAbove ==
  ASSUME EntriesBounded, NEW o, o.entry \in LeastEntries, NEW e \in Sought(o)
  PROVE  e \in Entry /\ o.entry \in Entry /\ Rank(o.entry) <= Rank(e)
<1>1. /\ e \in Entry /\ o.entry \in Entry /\ (e[1] = o.entry[1] \/ e[1] > o.entry[1])
      /\ e[1] = o.entry[1] => o.entry[2] <= e[2]
  BY DEF Sought, LeastEntries
<1>2. PICK a, b : a = o.entry /\ b = e
  OBVIOUS
<1>3. a[1] \in Int /\ b[1] \in Int
      /\ (Rank(a) <= Rank(b) <=> (a[1] < b[1] \/ (a[1] = b[1] /\ a[2] <= b[2])))
  BY <1>1, <1>2, OrderOfKeys
<1>4. Rank(a) <= Rank(b)
  BY <1>1, <1>2, <1>3
<1> QED
  BY <1>1, <1>2, <1>4

LEMMA LatchHeaderImplemented ==
  ASSUME EntriesBounded, NEW pend, NEW lv, NEW lo, NEW hi, Known(pend, lv, lo, hi),
         NEW t \in Thread, LatchHeader(t), Observe
  PROVE  Implemented
<1>1. PICK o : o = op[t]
  OBVIOUS
<1>2. PICK x : x = root
  OBVIOUS
<1>3. o.pc = "header" /\ UNCHANGED <<root, node>>
  BY <1>1 DEF LatchHeader, Granted
<1>4. /\ Sound(node, root, op, pend, lv, lo, hi) /\ Tree(node, root, pend, lv, lo, hi)
      /\ IsCall(o) /\ AtHeader(o) /\ Answering(o)
      /\ o.kind \in Lookups => Watching(Contents, root, lo, hi, o, seen[t])
  BY <1>1, <1>3, KnownNow, StageOf
<1>5. o.kind \in Updates \cup Lookups /\ o.header = "none" /\ o.answer = Unanswered
  BY <1>3, <1>4 DEF AtHeader, Bare, Answering, Decided
<1>6. Sound(node', root', op', pend, lv, lo, hi)
  BY <1>4, LatchHeaderKept
<1>7. ASSUME NEW o2, Goto(t, o2), o2.kind = o.kind, o2.entry = o.entry, o2.answer = o.answer,
             o2.pc \in {"header_w", "root"}, o.kind \in Updates
      PROVE  Implemented
  <2>1. o2.pc \notin {"idle", "return"} \cup Decided /\ o.pc \notin {"return"} \cup Decided
    BY <1>3, <1>7 DEF Decided
  <2>2. o.kind \notin Lookups
    BY <1>7 DEF Updates, Lookups
  <2> QED
    BY <1>1, <1>3, <1>6, <1>7, <2>1, <2>2, UpdateGoesOn
<1>8. CASE x = INVALID_PAGE_ID
  <2>1. Contents = {}
    <3>1. Pages(node) = {}
      BY <1>2, <1>4, <1>8 DEF Tree, Rooted, NoPage
    <3> QED
      BY <1>4, <3>1, TreeTyped, NothingStored, ContentsNow
  <2>2. CASE o.kind = "insert"
    <3>1. PICK o2 : o2 = [o EXCEPT !.pc = "header_w"]
      OBVIOUS
    <3>2. Goto(t, o2)
      BY <1>1, <1>2, <1>8, <2>2, <3>1 DEF LatchHeader
    <3>3. o2.pc = "header_w" /\ o2.kind = o.kind /\ o2.entry = o.entry /\ o2.answer = o.answer
      BY <1>4, <3>1 DEF IsCall
    <3> QED
      BY <1>7, <2>2, <3>2, <3>3 DEF Updates
  <2>3. CASE o.kind = "remove"
    <3>1. PICK o2 : o2 = Returning(NotFound)
      OBVIOUS
    <3>2. Goto(t, o2)
      BY <1>1, <1>2, <1>8, <2>3, <3>1 DEF LatchHeader, Finish, Returning, NotFound
    <3>3. Goes(t, o2, pend, lv, lo, hi, pend, lv, lo, hi) /\ Contents' = Contents
      BY <1>3, <1>6, <3>2, Gone, GoesOn
    <3>4. Answering(o2) /\ o2.answer = NotFound /\ o2.kind \notin Lookups
      BY <3>1, AnsweringReturned
    <3>5. PICK e : e = op[t].entry
      OBVIOUS
    <3>6. e \notin Contents
      BY <2>1
    <3> QED
      BY <1>1, <1>5, <2>3, <3>3, <3>4, <3>5, <3>6, RemoveDone
  <2>4. CASE o.kind \in Lookups
    <3>1. Finish(t, <<"values", <<>>>>)
      BY <1>1, <1>2, <1>8, <2>4 DEF LatchHeader, Lookups
    <3>2. PICK f : f = <<>>
      OBVIOUS
    <3>3. Finish(t, <<"values", f>>) /\ Filed(f, Bottom, Ceiling) /\ \A e : ~In(f, e)
      BY <3>1, <3>2, FiledNothing
    <3>4. seen[t].always = {}
      BY <1>4, <2>1, <2>4 DEF Watching
    <3> QED
      BY <1>1, <1>3, <1>6, <2>4, <3>3, <3>4, LookupReturns
  <2> QED
    BY <1>5, <2>2, <2>3, <2>4 DEF Updates
<1>9. CASE x # INVALID_PAGE_ID
  <2>1. PICK pc : pc = IF o.kind = "get" THEN "root_id" ELSE "root"
    OBVIOUS
  <2>2. PICK h : h = IF o.kind = "get" THEN "none" ELSE "read"
    OBVIOUS
  <2>3. PICK o2 : o2 = [o EXCEPT !.pc = pc, !.root = x, !.header = h]
    OBVIOUS
  <2>4. Goto(t, o2)
    BY <1>1, <1>2, <1>9, <2>1, <2>2, <2>3 DEF LatchHeader
  <2>5. /\ o2.pc = pc /\ o2.kind = o.kind /\ o2.entry = o.entry /\ o2.answer = o.answer
        /\ o2.root = x /\ o2.header = h /\ o2.found = o.found
    BY <1>4, <2>3 DEF IsCall
  <2>6. CASE o.kind \in Updates
    <3>1. pc = "root"
      BY <2>1, <2>6 DEF Updates
    <3> QED
      BY <1>7, <2>4, <2>5, <2>6, <3>1
  <2>7. CASE o.kind \in Lookups
    <3>1. lo[x] = Bottom
      BY <1>2, <1>4, <1>9 DEF Tree, Rooted, NoPage
    <3>2. PICK C, s : C = Contents /\ s = seen[t]
      OBVIOUS
    <3>3. Watching(C, x, lo, hi, o, s)
      BY <1>2, <1>4, <2>7, <3>2
    <3>4. Watching(C, x, lo, hi, o2, s)
      BY <1>3, <2>1, <2>2, <2>5, <3>1, <3>3 DEF Watching, LookupStages
    <3> QED
      BY <1>1, <1>2, <1>3, <1>6, <2>4, <2>5, <2>7, <3>2, <3>4, LookupGoesOn
  <2> QED
    BY <1>5, <2>6, <2>7
<1> QED
  BY <1>8, <1>9

LEMMA LatchRootImplemented ==
  ASSUME EntriesBounded, NEW pend, NEW lv, NEW lo, NEW hi, Known(pend, lv, lo, hi),
         NEW t \in Thread, LatchRoot(t), Observe
  PROVE  Implemented
<1>1. PICK o : o = op[t]
  OBVIOUS
<1>2. PICK p : p = o.root
  OBVIOUS
<1>3. o.pc = "root" /\ \A u \in Thread \ {t} : p \notin WrittenBy(op[u])
  <2>1. o.pc = "root"
    BY <1>1 DEF LatchRoot, Granted
  <2>2. Wants(t) = [page |-> p, mode |-> "read"]
    BY <1>1, <1>2, <2>1, WantsAt
  <2> QED
    BY <2>1, <2>2, GrantedFor DEF LatchRoot
<1>4. UNCHANGED <<root, node>>
  BY DEF LatchRoot
<1>5. /\ Sound(node, root, op, pend, lv, lo, hi) /\ Tree(node, root, pend, lv, lo, hi)
      /\ IsCall(o) /\ (Looking(node, lv, o) \/ Descending(node, root, lv, lo, hi, o))
      /\ o.kind \in Lookups => Watching(Contents, root, lo, hi, o, seen[t])
  BY <1>1, <1>3, KnownNow, StageOf
<1>6. Sound(node', root', op', pend, lv, lo, hi)
  BY <1>5, LatchRootKept
<1>7. CASE o.kind \in Updates
  <2>1. ASSUME NEW o2, Goto(t, o2), o2.kind = o.kind, o2.entry = o.entry, o2.answer = o.answer,
               o2.pc \in {"leaf", "descend"}
        PROVE  Implemented
    <3>1. o2.pc \notin {"idle", "return"} \cup Decided /\ o.pc \notin {"return"} \cup Decided
      BY <1>3, <2>1 DEF Decided
    <3>2. o.kind \notin Lookups
      BY <1>7 DEF Updates, Lookups
    <3> QED
      BY <1>1, <1>4, <1>6, <2>1, <3>1, <3>2, UpdateGoesOn
  <2>2. CASE node[p].kind = "leaf"
    <3>1. PICK o2 : o2 = [o EXCEPT !.pc = "leaf", !.target = p]
      OBVIOUS
    <3>2. Goto(t, o2)
      BY <1>1, <1>2, <1>7, <2>2, <3>1 DEF LatchRoot, Updates
    <3>3. o2.kind = o.kind /\ o2.entry = o.entry /\ o2.answer = o.answer /\ o2.pc = "leaf"
      BY <1>5, <3>1 DEF IsCall
    <3> QED
      BY <2>1, <3>2, <3>3
  <2>3. CASE node[p].kind # "leaf"
    <3>1. PICK o2 : o2 = [o EXCEPT !.pc = "descend", !.read = p]
      OBVIOUS
    <3>2. Goto(t, o2)
      BY <1>1, <1>2, <1>7, <2>3, <3>1 DEF LatchRoot, Updates
    <3>3. o2.kind = o.kind /\ o2.entry = o.entry /\ o2.answer = o.answer /\ o2.pc = "descend"
      BY <1>5, <3>1 DEF IsCall
    <3> QED
      BY <2>1, <3>2, <3>3
  <2> QED
    BY <2>2, <2>3
<1>8. CASE o.kind \in Lookups
  <2>1. Looking(node, lv, o)
    BY <1>5, <1>8 DEF Descending, Updates, Lookups
  <2>2. p \in Pages(node) /\ p \in Page /\ o.entry \in Entry
    BY <1>2, <1>3, <2>1 DEF Looking, Pages
  <2>3. PICK o2 : o2 = [o EXCEPT !.pc = "search", !.read = p, !.header = "none"]
    OBVIOUS
  <2>4. Goto(t, o2)
    BY <1>1, <1>2, <1>8, <2>3 DEF LatchRoot, Lookups
  <2>5. /\ o2.pc = "search" /\ o2.kind = o.kind /\ o2.entry = o.entry /\ o2.answer = o.answer
        /\ o2.read = p /\ o2.header = "none" /\ o2.found = o.found
    BY <1>5, <2>3 DEF IsCall
  <2>6. PICK C, s : C = Contents /\ s = seen[t]
    OBVIOUS
  <2>7. Watching(C, root, lo, hi, o, s)
    BY <1>5, <1>8, <2>6
  <2>8. lo[p] <= Rank(o.entry)
    <3>1. lo[p] = Bottom
      BY <1>2, <1>3, <2>7 DEF Watching
    <3>2. Bottom \in Int /\ Rank(o.entry) \in Int /\ Bottom < Rank(o.entry)
      BY <2>2, Ranked
    <3> QED
      BY <3>1, <3>2
  <2>9. o.kind = "scan" => Rank(o.entry) <= hi[p]
    <3> SUFFICES ASSUME o.kind = "scan" PROVE Rank(o.entry) <= hi[p]
      OBVIOUS
    <3>1. p = root
      BY <1>2, <1>3, <2>7 DEF Watching
    <3>2. pend[p] = NoPage
      BY <1>1, <1>3, <1>5, <2>2, Whole
    <3>3. p # NoPage
      BY <2>2, NoPageIsNone
    <3>4. Ends(pend, hi)[p] = Ceiling
      BY <1>5, <3>1, <3>3 DEF Tree, Rooted
    <3>5. hi[p] = Ceiling
      BY <2>2, <3>2, <3>4, EndsAt
    <3>6. Ceiling \in Int /\ Rank(o.entry) \in Int /\ Rank(o.entry) < Ceiling
      BY <2>2, Ranked
    <3> QED
      BY <3>5, <3>6
  <2>10. Watching(C, root, lo, hi, o2, s)
    BY <1>3, <2>5, <2>7, <2>8, <2>9 DEF Watching, LookupStages
  <2> QED
    BY <1>1, <1>4, <1>6, <1>8, <2>4, <2>5, <2>6, <2>10, LookupGoesOn
<1>9. o.kind \in Updates \cup Lookups
  BY <1>5 DEF Looking, Descending
<1> QED
  BY <1>7, <1>8, <1>9

LEMMA PinRootImplemented ==
  ASSUME NEW pend, NEW lv, NEW lo, NEW hi, Known(pend, lv, lo, hi),
         NEW t \in Thread, PinRoot(t), Observe
  PROVE  Implemented
<1>1. PICK o : o = op[t]
  OBVIOUS
<1>2. o.pc = "root_id" /\ UNCHANGED <<root, node>>
  BY <1>1 DEF PinRoot
<1>3. /\ Sound(node, root, op, pend, lv, lo, hi) /\ IsCall(o) /\ Looking(node, lv, o)
      /\ o.kind \in Lookups => Watching(Contents, root, lo, hi, o, seen[t])
  BY <1>1, <1>2, KnownNow, StageOf DEF LookupStages
<1>4. o.kind \in Lookups
  BY <1>3 DEF Looking
<1>5. Sound(node', root', op', pend, lv, lo, hi)
  BY <1>3, PinRootKept
<1>6. PICK o2 : o2 = [o EXCEPT !.pc = "root"]
  OBVIOUS
<1>7. Goto(t, o2)
  BY <1>1, <1>6 DEF PinRoot
<1>8. /\ o2.pc = "root" /\ o2.kind = o.kind /\ o2.entry = o.entry /\ o2.answer = o.answer
      /\ o2.root = o.root /\ o2.header = o.header /\ o2.found = o.found
  BY <1>3, <1>6 DEF IsCall
<1>9. PICK C, s : C = Contents /\ s = seen[t]
  OBVIOUS
<1>10. Watching(C, root, lo, hi, o, s)
  BY <1>3, <1>4, <1>9
<1>11. Watching(C, root, lo, hi, o2, s)
  BY <1>2, <1>8, <1>10 DEF Watching, LookupStages
<1> QED
  BY <1>1, <1>2, <1>4, <1>5, <1>7, <1>8, <1>9, <1>11, LookupGoesOn

LEMMA PinNextImplemented ==
  ASSUME NEW pend, NEW lv, NEW lo, NEW hi, Known(pend, lv, lo, hi),
         NEW t \in Thread, PinNext(t), Observe
  PROVE  Implemented
<1>1. PICK o : o = op[t]
  OBVIOUS
<1>2. o.pc = "next_id" /\ UNCHANGED <<root, node>>
  BY <1>1 DEF PinNext
<1>3. /\ Sound(node, root, op, pend, lv, lo, hi) /\ IsCall(o) /\ Looking(node, lv, o)
      /\ o.kind \in Lookups => Watching(Contents, root, lo, hi, o, seen[t])
  BY <1>1, <1>2, KnownNow, StageOf DEF LookupStages
<1>4. o.kind \in Lookups
  BY <1>3 DEF Looking
<1>5. Sound(node', root', op', pend, lv, lo, hi)
  BY <1>3, PinNextKept
<1>6. PICK o2 : o2 = [o EXCEPT !.pc = "next"]
  OBVIOUS
<1>7. Goto(t, o2)
  BY <1>1, <1>6 DEF PinNext
<1>8. /\ o2.pc = "next" /\ o2.kind = o.kind /\ o2.entry = o.entry /\ o2.answer = o.answer
      /\ o2.root = o.root /\ o2.header = o.header /\ o2.found = o.found
      /\ o2.target = o.target
  BY <1>3, <1>6 DEF IsCall
<1>9. PICK C, s : C = Contents /\ s = seen[t]
  OBVIOUS
<1>10. Watching(C, root, lo, hi, o, s)
  BY <1>3, <1>4, <1>9
<1>11. \A f, x : Gathered(f, o2, s, x) <=> Gathered(f, o, s, x)
  BY <1>8 DEF Gathered, Sought
<1>12. Watching(C, root, lo, hi, o2, s)
  BY <1>2, <1>8, <1>10, <1>11 DEF Watching, LookupStages
<1> QED
  BY <1>1, <1>2, <1>4, <1>5, <1>7, <1>8, <1>9, <1>12, LookupGoesOn

LEMMA SearchImplemented ==
  ASSUME EntriesBounded, NEW pend, NEW lv, NEW lo, NEW hi, Known(pend, lv, lo, hi),
         NEW t \in Thread, Search(t), Observe
  PROVE  Implemented
<1>1. PICK o : o = op[t]
  OBVIOUS
<1>2. PICK p : p = o.read
  OBVIOUS
<1>3. o.pc = "search" /\ node[p].kind # "leaf"
  BY <1>1, <1>2 DEF Search, IsLeaf
<1>4. /\ Sound(node, root, op, pend, lv, lo, hi) /\ Tree(node, root, pend, lv, lo, hi)
      /\ IsCall(o) /\ Looking(node, lv, o)
      /\ o.kind \in Lookups => Watching(Contents, root, lo, hi, o, seen[t])
  BY <1>1, <1>3, KnownNow, StageOf DEF LookupStages
<1>5. p \in Pages(node) /\ p \in Page /\ o.kind \in Lookups
  BY <1>2, <1>3, <1>4 DEF Looking, Pages
<1>6. node[p].kind = "internal" /\ node[p] # Free
  BY <1>3, <1>4, <1>5, Lowest DEF Pages, Free
<1>7. PICK e : e = o.entry
  OBVIOUS
<1>8. PICK c : c = value_at(node[p], find_child_idx(node[p], e[1]))
  OBVIOUS
<1>9. Wants(t) = [page |-> c, mode |-> "read"]
  BY <1>1, <1>2, <1>3, <1>6, <1>7, <1>8, WantsAt
<1>10. PICK o2 : o2 = [o EXCEPT !.read = c]
  OBVIOUS
<1>11. Granted(t, "search") /\ Goto(t, o2) /\ UNCHANGED <<root, node>>
  <2>1. Granted(t, "search") /\ Goto(t, [o EXCEPT !.read = Wants(t).page])
        /\ UNCHANGED <<root, node>>
    BY <1>1, <1>2, <1>6 DEF Search
  <2>2. Wants(t).page = c
    BY <1>9
  <2> QED
    BY <1>10, <2>1, <2>2
<1>12. \A u \in Thread \ {t} : c \notin WrittenBy(op[u])
  BY <1>9, <1>11, GrantedFor
<1>13. PICK C, s : C = Contents /\ s = seen[t]
  OBVIOUS
<1>14. Watching(C, root, lo, hi, o, s)
  BY <1>4, <1>5, <1>13
<1>15. e \in LeastEntries /\ lo[p] <= Rank(e) /\ (o.kind = "scan" => Rank(e) <= hi[p])
  BY <1>2, <1>3, <1>7, <1>14 DEF Watching
<1>16. c \in Page /\ lo[c] <= Rank(e)
  BY <1>4, <1>5, <1>6, <1>8, <1>15, ChildRanges
<1>17. pend[c] = NoPage
  BY <1>1, <1>3, <1>4, <1>12, <1>16, Whole
<1>18. o.kind = "scan" => Rank(e) <= hi[c]
  BY <1>4, <1>5, <1>6, <1>8, <1>15, <1>17, ChildRanges
<1>19. /\ o2.pc = "search" /\ o2.kind = o.kind /\ o2.entry = o.entry /\ o2.answer = o.answer
       /\ o2.read = c /\ o2.root = o.root /\ o2.header = o.header /\ o2.found = o.found
  BY <1>3, <1>4, <1>10 DEF IsCall
<1>20. Watching(C, root, lo, hi, o2, s)
  BY <1>3, <1>7, <1>14, <1>16, <1>18, <1>19 DEF Watching, LookupStages
<1>21. Sound(node', root', op', pend, lv, lo, hi)
  BY <1>4, SearchKept
<1> QED
  BY <1>1, <1>5, <1>11, <1>13, <1>19, <1>20, <1>21, LookupGoesOn

\* The entries of one more leaf.
LEMMA GatheredOn ==
  ASSUME EntriesBounded, NEW nd, NEW top, NEW pend, NEW lv, NEW lo, NEW hi,
         Tree(nd, top, pend, lv, lo, hi), NEW p \in Page, nd[p].kind = "leaf",
         NEW o, o.entry \in LeastEntries, o.kind \in Lookups,
         o.kind = "scan" /\ o.pc # "search" => Rank(o.entry) <= lo[p],
         NEW s, s.always \subseteq ContentsOf(nd), ContentsOf(nd) \subseteq s.ever,
         NEW f, Gathered(f, o, s, lo[p]), NEW m, m = Matching(o, nd[p])
  PROVE  Gathered(f \o m, o, s, hi[p])
<1>1. /\ p \in Pages(nd) /\ Filed(nd[p].entries, lo[p], hi[p]) /\ nd[p] \in LeafRecords
  BY NextLeaf
<1>2. /\ lo[p] \in Int /\ hi[p] \in Int /\ lo[p] < hi[p] /\ Bottom <= lo[p] /\ Bottom \in Int
  BY <1>1, EndsAfter, Ranked
<1>3. PICK leaf : leaf = nd[p]
  OBVIOUS
<1>4. Filed(m, lo[p], hi[p]) /\ \A x : In(m, x) <=> In(leaf.entries, x) /\ x \in Sought(o)
  BY <1>1, <1>2, <1>3, Matched
<1>5. /\ Filed(f, Bottom, lo[p])
      /\ \A e \in Entry : In(f, e) => e \in Sought(o) /\ e \in s.ever
      /\ \A e \in Sought(o) : e \in s.always /\ Rank(e) < lo[p] => In(f, e)
  BY DEF Gathered
<1>6. f \in Seq(Entry) /\ m \in Seq(Entry)
  BY <1>4, <1>5 DEF Filed
<1>7. PICK g : g = f \o m
  OBVIOUS
<1>8. Filed(g, Bottom, hi[p])
  BY <1>2, <1>4, <1>5, <1>7, FiledJoined
<1>9. \A x : In(g, x) <=> In(f, x) \/ In(m, x)
  BY <1>6, <1>7, InJoined
<1>10. ASSUME NEW e \in Entry, In(leaf.entries, e)
       PROVE  e \in ContentsOf(nd)
  <2>1. Stored(nd, p, e)
    BY <1>3, <1>10 DEF Stored
  <2> QED
    BY <2>1, Entries, TreeTyped
<1>11. \A e \in Entry : In(g, e) => e \in Sought(o) /\ e \in s.ever
  BY <1>4, <1>5, <1>9, <1>10
<1>12. ASSUME NEW e \in Sought(o), e \in s.always, Rank(e) < hi[p]
       PROVE  In(g, e)
  <2>1. e \in Entry /\ Rank(e) \in Int /\ e \in ContentsOf(nd)
    BY <1>12, Ranked DEF Sought
  <2>2. CASE Rank(e) < lo[p]
    BY <1>5, <1>9, <1>12, <2>2
  <2>3. CASE lo[p] <= Rank(e)
    <3>1. In(leaf.entries, e)
      BY <1>3, <1>12, <2>1, <2>3, EntryPlace
    <3> QED
      BY <1>4, <1>9, <3>1
  <2> QED
    BY <1>2, <2>1, <2>2, <2>3
<1> QED
  BY <1>7, <1>8, <1>11, <1>12 DEF Gathered

\* Before the first leaf nothing is asked for.
LEMMA GatheredNothing ==
  ASSUME EntriesBounded, NEW o, o.entry \in LeastEntries, NEW s, NEW x \in Int,
         x <= Rank(o.entry)
  PROVE  Gathered(<<>>, o, s, x)
<1>1. Filed(<<>>, Bottom, x) /\ \A e : ~In(<<>>, e)
  BY FiledNothing
<1>2. ASSUME NEW e \in Sought(o) PROVE ~(Rank(e) < x)
  <2>1. e \in Entry /\ o.entry \in Entry /\ Rank(o.entry) <= Rank(e)
    BY SoughtAbove
  <2>2. PICK a, b : a = Rank(o.entry) /\ b = Rank(e)
    OBVIOUS
  <2>3. a \in Int /\ b \in Int /\ a <= b /\ x <= a
    BY <2>1, <2>2, Ranked
  <2>4. ~(b < x)
    BY <2>3
  <2> QED
    BY <2>2, <2>4
<1> QED
  BY <1>1, <1>2 DEF Gathered

\* No entry that is asked for is beyond a leaf with a greater key.
LEMMA NoneBeyond ==
  ASSUME EntriesBounded, NEW nd, NEW top, NEW pend, NEW lv, NEW lo, NEW hi,
         Tree(nd, top, pend, lv, lo, hi), NEW p \in Page, nd[p].kind = "leaf", NEW o,
         SeesGreater(o, nd[p]) \/ nd[p].next = NoPage, NEW e \in Sought(o), o.entry \in Entry
  PROVE  Rank(e) < hi[p]
<1>1. /\ Filed(nd[p].entries, lo[p], hi[p]) /\ (nd[p].next = NoPage <=> hi[p] = Ceiling)
      /\ p \in Pages(nd)
  BY NextLeaf
<1>2. e \in Entry
  BY DEF Sought
<1>3. CASE nd[p].next = NoPage
  BY <1>1, <1>2, <1>3, Ranked
<1>4. CASE SeesGreater(o, nd[p])
  <2>1. PICK u : u = nd[p].entries
    OBVIOUS
  <2>2. u \in Seq(Entry) /\ DOMAIN u = 1 .. Len(u)
    BY <1>1, <2>1 DEF Filed
  <2>3. PICK i \in 1 .. Len(u) : u[i][1] > o.entry[1]
    BY <1>4, <2>1, <2>2 DEF SeesGreater
  <2>4. o.kind = "get"
    BY <1>4 DEF SeesGreater
  <2>5. e[1] = o.entry[1]
    BY <2>4 DEF Sought
  <2>6. u[i] \in Entry /\ Rank(u[i]) < hi[p]
    BY <1>1, <2>1, <2>2 DEF Filed
  <2>7. PICK g : g = u[i]
    OBVIOUS
  <2>8. e[1] \in Int /\ g[1] \in Int /\ g \in Entry /\ Rank(g) \in Int /\ Rank(e) \in Int
    BY <1>2, <2>6, <2>7, OrderOfKeys, Ranked
  <2>9. e[1] < g[1]
    BY <2>3, <2>5, <2>7, <2>8
  <2>10. Rank(e) < Rank(g)
    BY <1>2, <2>8, <2>9, Ranked DEF Less
  <2>11. hi[p] \in Int /\ Rank(g) < hi[p]
    BY <1>1, <2>6, <2>7, EndsAfter
  <2> QED
    BY <2>8, <2>10, <2>11
<1> QED
  BY <1>3, <1>4

LEMMA ReadLeafImplemented ==
  ASSUME EntriesBounded, NEW pend, NEW lv, NEW lo, NEW hi, Known(pend, lv, lo, hi),
         NEW t \in Thread, ReadLeaf(t), Observe
  PROVE  Implemented
<1>1. PICK o : o = op[t]
  OBVIOUS
<1>2. PICK p : p = o.read
  OBVIOUS
<1>3. (o.pc = "walk" \/ (o.pc = "search" /\ node[p].kind = "leaf")) /\ UNCHANGED <<root, node>>
  BY <1>1, <1>2 DEF ReadLeaf
<1>4. /\ Sound(node, root, op, pend, lv, lo, hi) /\ Tree(node, root, pend, lv, lo, hi)
      /\ IsCall(o) /\ Looking(node, lv, o)
      /\ o.kind \in Lookups => Watching(Contents, root, lo, hi, o, seen[t])
  BY <1>1, <1>3, KnownNow, StageOf DEF LookupStages
<1>5. p \in Pages(node) /\ p \in Page /\ o.kind \in Lookups /\ o.entry \in Entry
      /\ o.header = "none"
  BY <1>2, <1>3, <1>4 DEF Looking, Pages
<1>6. node[p].kind = "leaf"
  BY <1>2, <1>3, <1>4, <1>5, Lowest DEF Looking
<1>7. PICK C, s : C = Contents /\ s = seen[t]
  OBVIOUS
<1>8. Watching(C, root, lo, hi, o, s)
  BY <1>4, <1>5, <1>7
<1>9. /\ o.entry \in LeastEntries /\ s = [always |-> s.always, ever |-> s.ever]
      /\ s.always \subseteq C /\ C \subseteq s.ever
  BY <1>8 DEF Watching
<1>10. /\ lo[p] \in Int /\ hi[p] \in Int /\ lo[p] < hi[p] /\ Rank(o.entry) \in Int
  BY <1>4, <1>5, EndsAfter, Ranked
<1>11. Gathered(o.found, o, s, lo[p])
  <2>1. CASE o.pc = "walk"
    BY <1>2, <1>8, <2>1 DEF Watching
  <2>2. CASE o.pc = "search"
    <3>1. o.found = <<>> /\ lo[p] <= Rank(o.entry)
      BY <1>2, <1>8, <2>2 DEF Watching
    <3>2. Gathered(<<>>, o, s, lo[p])
      BY <1>9, <1>10, <3>1, GatheredNothing
    <3> QED
      BY <3>1, <3>2
  <2> QED
    BY <1>3, <2>1, <2>2
<1>12. /\ o.kind = "scan" /\ o.pc # "search" => Rank(o.entry) <= lo[p]
       /\ o.kind = "scan" => Rank(o.entry) <= hi[p]
  <2>1. CASE o.pc = "walk"
    <3>1. o.kind = "scan" => Rank(o.entry) <= lo[p]
      BY <1>2, <1>8, <2>1 DEF Watching
    <3> QED
      BY <1>10, <3>1
  <2>2. CASE o.pc = "search"
    BY <1>2, <1>8, <2>2 DEF Watching
  <2> QED
    BY <1>3, <2>1, <2>2
<1>13. PICK f : f = o.found
  OBVIOUS
<1>14. PICK m : m = Matching(o, node[p])
  OBVIOUS
<1>15. PICK all : all = f \o m
  OBVIOUS
<1>16. Gathered(all, o, s, hi[p])
  <2>1. s.always \subseteq ContentsOf(node) /\ ContentsOf(node) \subseteq s.ever
    BY <1>7, <1>9, ContentsNow
  <2>2. Gathered(f, o, s, lo[p])
    BY <1>11, <1>13
  <2>3. Gathered(f \o m, o, s, hi[p])
    BY <1>4, <1>5, <1>6, <1>9, <1>12, <1>14, <2>1, <2>2, GatheredOn
  <2> QED
    BY <1>15, <2>3
<1>17. PICK q : q = node[p].next
  OBVIOUS
<1>18. q # NoPage => lo[q] = hi[p]
  BY <1>4, <1>5, <1>6, <1>17, NextLeaf
<1>19. Sound(node', root', op', pend, lv, lo, hi)
  BY <1>4, ReadLeafKept
<1>20. \/ (SeesGreater(o, node[p]) \/ q = NoPage) /\ Finish(t, <<"values", all>>)
       \/ /\ o.kind = "get" /\ q # NoPage
          /\ Goto(t, [o EXCEPT !.pc = "next", !.target = q, !.found = all])
       \/ /\ q # NoPage
          /\ Goto(t, [o EXCEPT !.pc = "next_id", !.target = q, !.found = all,
                               !.read = INVALID_PAGE_ID])
  BY <1>1, <1>2, <1>13, <1>14, <1>15, <1>17 DEF ReadLeaf, NoPage
<1>21. CASE (SeesGreater(o, node[p]) \/ q = NoPage) /\ Finish(t, <<"values", all>>)
  <2>1. /\ Filed(all, Bottom, hi[p])
        /\ \A e \in Entry : In(all, e) => e \in Sought(o) /\ e \in s.ever
        /\ \A e \in Sought(o) : e \in s.always /\ Rank(e) < hi[p] => In(all, e)
    BY <1>16 DEF Gathered
  <2>2. \A e \in Sought(o) : Rank(e) < hi[p]
    BY <1>4, <1>5, <1>6, <1>17, <1>21, NoneBeyond
  <2>3. \A e \in Sought(o) : e \in s.always => In(all, e)
    BY <2>1, <2>2
  <2> QED
    BY <1>1, <1>3, <1>5, <1>7, <1>19, <1>21, <2>1, <2>3, LookupReturns
<1>22. ASSUME NEW o2, Goto(t, o2), o2.pc \in {"next", "next_id"}, o2.kind = o.kind,
              o2.entry = o.entry, o2.answer = o.answer, o2.header = o.header,
              o2.target = q, o2.found = all, q # NoPage
       PROVE  Implemented
  <2>1. Gathered(all, o2, s, hi[p])
    BY <1>16, <1>22 DEF Gathered, Sought
  <2>2. o2.kind = "scan" => Rank(o2.entry) <= hi[p]
    BY <1>12, <1>22
  <2>3. Watching(C, root, lo, hi, o2, s)
    BY <1>5, <1>9, <1>18, <1>22, <2>1, <2>2 DEF Watching, LookupStages
  <2> QED
    BY <1>1, <1>3, <1>5, <1>7, <1>19, <1>22, <2>3, LookupGoesOn
<1>23. CASE /\ q # NoPage
            /\ Goto(t, [o EXCEPT !.pc = "next", !.target = q, !.found = all])
  <2>1. PICK o2 : o2 = [o EXCEPT !.pc = "next", !.target = q, !.found = all]
    OBVIOUS
  <2>2. Goto(t, o2)
    BY <1>23, <2>1
  <2>3. /\ o2.pc = "next" /\ o2.kind = o.kind /\ o2.entry = o.entry /\ o2.answer = o.answer
        /\ o2.header = o.header /\ o2.target = q /\ o2.found = all
    BY <1>4, <2>1 DEF IsCall
  <2> QED
    BY <1>22, <1>23, <2>2, <2>3
<1>24. CASE /\ q # NoPage
            /\ Goto(t, [o EXCEPT !.pc = "next_id", !.target = q, !.found = all,
                                 !.read = INVALID_PAGE_ID])
  <2>1. PICK o2 : o2 = [o EXCEPT !.pc = "next_id", !.target = q, !.found = all,
                                 !.read = INVALID_PAGE_ID]
    OBVIOUS
  <2>2. Goto(t, o2)
    BY <1>24, <2>1
  <2>3. /\ o2.pc = "next_id" /\ o2.kind = o.kind /\ o2.entry = o.entry /\ o2.answer = o.answer
        /\ o2.header = o.header /\ o2.target = q /\ o2.found = all
    BY <1>4, <2>1 DEF IsCall
  <2> QED
    BY <1>22, <1>24, <2>2, <2>3
<1> QED
  BY <1>20, <1>21, <1>23, <1>24

LEMMA LatchNextImplemented ==
  ASSUME EntriesBounded, NEW pend, NEW lv, NEW lo, NEW hi, Known(pend, lv, lo, hi),
         NEW t \in Thread, LatchNext(t), Observe
  PROVE  Implemented
<1>1. PICK o : o = op[t]
  OBVIOUS
<1>2. PICK q : q = o.target
  OBVIOUS
<1>3. o.pc = "next" /\ UNCHANGED <<root, node>>
  BY <1>1 DEF LatchNext, Granted
<1>4. /\ Sound(node, root, op, pend, lv, lo, hi) /\ IsCall(o) /\ Looking(node, lv, o)
      /\ o.kind \in Lookups => Watching(Contents, root, lo, hi, o, seen[t])
  BY <1>1, <1>3, KnownNow, StageOf DEF LookupStages
<1>5. o.kind \in Lookups /\ q \in Pages(node)
  BY <1>2, <1>3, <1>4 DEF Looking
<1>6. node[q] # Free
  BY <1>5 DEF Pages, Free
<1>7. Sound(node', root', op', pend, lv, lo, hi)
  BY <1>4, LatchNextKept
<1>8. PICK o2 : o2 = [o EXCEPT !.pc = "walk", !.read = q, !.target = INVALID_PAGE_ID]
  OBVIOUS
<1>9. Goto(t, o2)
  BY <1>1, <1>2, <1>6, <1>8 DEF LatchNext
<1>10. /\ o2.pc = "walk" /\ o2.kind = o.kind /\ o2.entry = o.entry /\ o2.answer = o.answer
       /\ o2.root = o.root /\ o2.header = o.header /\ o2.found = o.found /\ o2.read = q
  BY <1>4, <1>8 DEF IsCall
<1>11. PICK C, s : C = Contents /\ s = seen[t]
  OBVIOUS
<1>12. Watching(C, root, lo, hi, o, s)
  BY <1>4, <1>5, <1>11
<1>13. \A f, x : Gathered(f, o2, s, x) <=> Gathered(f, o, s, x)
  BY <1>10 DEF Gathered, Sought
<1>14. Watching(C, root, lo, hi, o2, s)
  BY <1>2, <1>3, <1>10, <1>12, <1>13 DEF Watching, LookupStages
<1> QED
  BY <1>1, <1>3, <1>5, <1>7, <1>9, <1>10, <1>11, <1>14, LookupGoesOn

-----------------------------------------------------------------------------
(* The theorems.                                                           *)

\* Every step of a call is one of Index, or changes nothing there.
LEMMA AdvanceImplemented ==
  ASSUME EntriesBounded, NoTombstones, NEW pend, NEW lv, NEW lo, NEW hi,
         Known(pend, lv, lo, hi), NEW t \in Thread, Advance(t), Observe
  PROVE  Implemented
<1>0. /\ EntriesBounded /\ NoTombstones /\ Known(pend, lv, lo, hi) /\ Observe
  OBVIOUS
<1>1. CASE LatchHeader(t)
  BY ONLY <1>0, <1>1, LatchHeaderImplemented, t \in Thread
<1>2. CASE LatchRoot(t)
  BY ONLY <1>0, <1>2, LatchRootImplemented, t \in Thread
<1>3. CASE Descend(t)
  BY ONLY <1>0, <1>3, DescendImplemented, t \in Thread
<1>4. CASE InsertOptimistic(t)
  BY ONLY <1>0, <1>4, InsertOptimisticImplemented, t \in Thread
<1>5. CASE RemoveOptimistic(t)
  BY ONLY <1>0, <1>5, RemoveOptimisticImplemented, t \in Thread
<1>6. CASE LatchHeaderForWrite(t)
  BY ONLY <1>0, <1>6, LatchHeaderForWriteImplemented, t \in Thread
<1>7. CASE InsertFirst(t)
  BY ONLY <1>0, <1>7, InsertFirstImplemented, t \in Thread
<1>8. CASE LatchRootForWrite(t)
  BY ONLY <1>0, <1>8, LatchRootForWriteImplemented, t \in Thread
<1>9. CASE DescendForWrite(t)
  BY ONLY <1>0, <1>9, DescendForWriteImplemented, t \in Thread
<1>10. CASE InsertAtLeaf(t)
  BY ONLY <1>0, <1>10, InsertAtLeafImplemented, t \in Thread
<1>11. CASE SplitRoot(t)
  BY ONLY <1>0, <1>11, SplitRootImplemented, t \in Thread
<1>12. CASE InsertIntoParent(t)
  BY ONLY <1>0, <1>12, InsertIntoParentImplemented, t \in Thread
<1>13. CASE SplitParent(t)
  BY ONLY <1>0, <1>13, SplitParentImplemented, t \in Thread
<1>14. CASE RemoveAtLeaf(t)
  BY ONLY <1>0, <1>14, RemoveAtLeafImplemented, t \in Thread
<1>15. CASE LeafLeft(t)
  BY ONLY <1>0, <1>15, LeafLeftImplemented, t \in Thread
<1>16. CASE LeafRight(t)
  BY ONLY <1>0, <1>16, LeafRightImplemented, t \in Thread
<1>17. CASE MergeLeaf(t)
  BY ONLY <1>0, <1>17, MergeLeafImplemented, t \in Thread
<1>18. CASE Underflow(t)
  BY ONLY <1>0, <1>18, UnderflowImplemented, t \in Thread
<1>19. CASE NodeLeft(t)
  BY ONLY <1>0, <1>19, NodeLeftImplemented, t \in Thread
<1>20. CASE NodeRight(t)
  BY ONLY <1>0, <1>20, NodeRightImplemented, t \in Thread
<1>21. CASE MergeNode(t)
  BY ONLY <1>0, <1>21, MergeNodeImplemented, t \in Thread
<1>22. CASE ShrinkRoot(t)
  BY ONLY <1>0, <1>22, ShrinkRootImplemented, t \in Thread
<1>23. CASE PinRoot(t)
  BY ONLY <1>0, <1>23, PinRootImplemented, t \in Thread
<1>24. CASE Search(t)
  BY ONLY <1>0, <1>24, SearchImplemented, t \in Thread
<1>25. CASE ReadLeaf(t)
  BY ONLY <1>0, <1>25, ReadLeafImplemented, t \in Thread
<1>26. CASE PinNext(t)
  BY ONLY <1>0, <1>26, PinNextImplemented, t \in Thread
<1>27. CASE LatchNext(t)
  BY ONLY <1>0, <1>27, LatchNextImplemented, t \in Thread
<1>28. CASE Return(t)
  BY ONLY <1>0, <1>28, ReturnImplemented, t \in Thread
<1> QED
  BY <1>1, <1>2, <1>3, <1>4, <1>5, <1>6, <1>7, <1>8, <1>9, <1>10, <1>11, <1>12, <1>13, <1>14,
     <1>15, <1>16, <1>17, <1>18, <1>19, <1>20, <1>21, <1>22, <1>23, <1>24, <1>25, <1>26, <1>27,
     <1>28 DEF Advance

\* A step that changes nothing the callers see.
LEMMA StillIndex ==
  ASSUME IndexInv, UNCHANGED <<root, node, op, seen>>
  PROVE  Implemented
<1>1. PICK pend, lv, lo, hi : Known(pend, lv, lo, hi)
  BY DEF IndexInv
<1>2. Contents' = Contents
  BY ContentsNow
<1>3. Calls' = Calls
  BY CallsNow
<1>4. Sound(node', root', op', pend, lv, lo, hi)
  BY <1>1 DEF Known
<1>5. \A u \in Thread : Informed(Contents', root', lo, hi, op'[u], seen'[u])
  BY <1>1, <1>2 DEF Known
<1>6. IndexInv'
  BY <1>4, <1>5, IndexInvNow
<1> QED
  BY <1>2, <1>3, <1>6 DEF Implemented, I!indexVars

\* Every step is one of Index, or changes nothing there.
LEMMA StepImplemented ==
  ASSUME EntriesBounded, NoTombstones, LookupsApart, IndexInv, [Next]_vars
  PROVE  Implemented
<1>0. PICK pend, lv, lo, hi : Known(pend, lv, lo, hi)
  BY DEF IndexInv
<1>1. CASE UNCHANGED vars
  BY <1>1, StillIndex DEF vars
<1>2. ASSUME NEW t \in Thread, NEW kind \in Updates, NEW e \in Updated, Call(t, kind, e), Observe
      PROVE  Implemented
  <2>1. kind \in Updates /\ e \in Entry
    BY EntryAssumption
  <2> QED
    BY ONLY <1>0, <1>2, <2>1, CallImplemented, t \in Thread, LookupsApart
<1>3. ASSUME NEW t \in Thread, NEW kind \in Lookups, NEW e \in LeastEntries,
             Call(t, kind, e), Observe
      PROVE  Implemented
  <2>1. kind \in Lookups /\ e \in LeastEntries /\ e \in Entry
    BY DEF LeastEntries
  <2> QED
    BY ONLY <1>0, <1>3, <2>1, CallImplemented, t \in Thread, LookupsApart
<1>4. ASSUME NEW t \in Thread, Advance(t), Observe PROVE Implemented
  BY <1>0, <1>4, AdvanceImplemented
<1>5. CASE Next
  BY <1>1, <1>2, <1>3, <1>4, <1>5 DEF Next
<1> QED
  BY <1>1, <1>5

\* Initially nobody has called, and the index is what is in the tree.
LEMMA InitImplemented ==
  ASSUME Init, TreesSound
  PROVE  IndexInv /\ I!Init
<1>1. TreeInv
  BY InitSound
<1>2. PICK pend, lv, lo, hi : Sound(node, root, op, pend, lv, lo, hi)
  BY <1>1 DEF TreeInv
<1>3. op = [t \in Thread |-> Idle] /\ seen = [t \in Thread |-> Nothing]
  BY DEF Init, Nothing
<1>4. Informed(Contents, root, lo, hi, Idle, Nothing)
  <2>1. /\ Idle.pc = "idle" /\ Idle.kind = "none" /\ Idle.entry = NoEntry
        /\ Idle.answer = Unanswered /\ Idle.answer[1] = "none"
    BY DEF Idle, Unanswered
  <2>2. Answering(Idle)
    BY <2>1 DEF Answering, Decided
  <2>3. Idle.kind \notin Lookups
    BY <2>1 DEF Lookups
  <2> QED
    BY <2>2, <2>3 DEF Informed
<1>5. \A t \in Thread : Informed(Contents, root, lo, hi, op[t], seen[t])
  BY <1>3, <1>4
<1>6. IndexInv
  BY <1>2, <1>5 DEF IndexInv, Known
<1>7. Contents \subseteq Entry
  BY <1>2, TreeTyped, Entries, ContentsNow DEF Sound
<1>8. CallOf(Idle, Nothing) = I!NoCall
  BY SetOfEmpty DEF CallOf, Idle, Nothing, NoEntry, I!NoCall
<1>9. Calls = [t \in Thread |-> I!NoCall]
  BY <1>3, <1>8, CallsNow
<1> QED
  BY <1>6, <1>7, <1>9 DEF I!Init

\* The invariant of the lookups holds of every state.
LEMMA IndexInvariance ==
  EntriesBounded /\ NoTombstones /\ LookupsApart /\ TreesSound => (Spec => []IndexInv)
<1> SUFFICES ASSUME EntriesBounded, NoTombstones, LookupsApart, TreesSound
             PROVE  Spec => []IndexInv
  OBVIOUS
<1>1. Init => IndexInv
  BY InitImplemented
<1>2. IndexInv /\ [Next]_vars => IndexInv'
  BY StepImplemented DEF Implemented
<1> QED
  BY <1>1, <1>2, PTL DEF Spec

\* BPlusTree implements Index, for any number of threads, pages and entries and any
\* sizes of the pages: a split, a redistribution or a merge changes nothing for the
\* callers; insert and remove take effect where they write the leaf, and what they
\* return is right of that moment; get_values and the iterator answer every entry
\* they ask for that was there throughout, and none that never was.
THEOREM IndexRefinement ==
  EntriesBounded /\ NoTombstones /\ LookupsApart /\ TreesSound => (Spec => ImplementsIndex)
<1> SUFFICES ASSUME EntriesBounded, NoTombstones, LookupsApart, TreesSound
             PROVE  Spec => ImplementsIndex
  OBVIOUS
<1>1. Init => IndexInv /\ I!Init
  BY InitImplemented
<1>2. IndexInv /\ [Next]_vars => IndexInv' /\ [I!Next]_I!indexVars
  BY StepImplemented DEF Implemented
<1> QED
  BY <1>1, <1>2, PTL DEF Spec, ImplementsIndex, I!Spec

\* What get_values and the iterator return is in increasing order, every entry
\* once, whatever splits and inserts go on to the left and the right of them.
THEOREM AnswersInOrderEver ==
  EntriesBounded /\ NoTombstones /\ LookupsApart /\ TreesSound => (Spec => []AnswersInOrder)
<1>1. IndexInv => AnswersInOrder
  BY DEF IndexInv, Known, Informed, Answering, AnswersInOrder
<1> QED
  BY <1>1, IndexInvariance, PTL
=============================================================================
