---------------------------- MODULE BTreeProofs ----------------------------
(***************************************************************************)
(* Proofs about BTree, for every number of threads, pages and entries.     *)
(*                                                                         *)
(* The invariant: at every moment the pages are a tree (TreeShape), every  *)
(* thread is where its call says it is in that tree, and what a thread has *)
(* latched for writing nobody else has latched.  A page that is not        *)
(* latched may change at any time, so a call says nothing of it but that   *)
(* it is still there, for a lookup, and at which level.                    *)
(*                                                                         *)
(* There are no tombstones, and lookups are not made while entries are     *)
(* removed: lookups and removes do deadlock otherwise.                     *)
(***************************************************************************)
EXTENDS TreeSteps

NoTombstones == TombCap = 0

LookupsApart == {"remove", "get"} \notin MayOverlap /\ {"remove", "scan"} \notin MayOverlap

-----------------------------------------------------------------------------
(* Where a call is.                                                        *)

IsCall(o) ==
  o = [pc |-> o.pc, kind |-> o.kind, entry |-> o.entry, answer |-> o.answer, root |-> o.root,
       header |-> o.header, read |-> o.read, writes |-> o.writes, page |-> o.page,
       target |-> o.target, split |-> o.split, found |-> o.found]

WrittenBy(o) == ToSet(o.writes) \cup ({o.page} \ {NoPage})

\* No latch but perhaps one for reading; none at all.
Unwritten(o) == o.writes = <<>> /\ o.page = NoPage
Bare(o) == Unwritten(o) /\ o.read = NoPage /\ o.header = "none"

\* An entry of p's range.
Within(lo, hi, p, e) == e \in Entry /\ lo[p] <= Rank(e) /\ Rank(e) < hi[p]

ChosenChild(nd, p, e) == value_at(nd[p], find_child_idx_for_insert(nd[p], e))

AtRest(o) == o.kind = "none" /\ Bare(o)

AtHeader(o) ==
  /\ Bare(o) /\ o.entry \in Entry /\ o.kind \in Updates \cup Lookups
  /\ o.pc = "header_w" => o.kind \in Updates

\* get_values, and lower_bound followed by the iterator.
Looking(nd, lv, o) ==
  /\ Unwritten(o) /\ o.entry \in Entry /\ o.kind \in Lookups
  /\ o.header # "none" => o.header = "read" /\ o.pc = "root"
  /\ o.pc \in {"root_id", "root"} => o.root \in Pages(nd) /\ o.read = NoPage
  /\ o.pc \in {"search", "walk"} => o.read \in Pages(nd)
  /\ o.pc = "walk" => lv[o.read] = 0
  /\ o.pc \in {"next_id", "next"} =>
       /\ o.target \in Pages(nd) /\ lv[o.target] = 0
       /\ o.read = NoPage \/ (o.read \in Pages(nd) /\ lv[o.read] = 0)

\* The way down that insert and remove try first.
Descending(nd, top, lv, lo, hi, o) ==
  /\ Unwritten(o) /\ o.entry \in Entry /\ o.kind \in Updates
  /\ o.header # "none" => o.header = "read" /\ o.root = top /\ top # NoPage
  /\ o.pc = "root" => o.header = "read" /\ o.read = NoPage
  /\ o.pc = "descend" =>
       o.read \in Page /\ nd[o.read].kind = "internal" /\ Within(lo, hi, o.read, o.entry)
  /\ o.pc = "leaf" =>
       \/ o.read = NoPage /\ o.header = "read" /\ o.target = top /\ lv[top] = 0
       \/ /\ o.read \in Page /\ nd[o.read].kind = "internal" /\ lv[o.read] = 1
          /\ Within(lo, hi, o.read, o.entry) /\ o.target = ChosenChild(nd, o.read, o.entry)

\* From the top down, every page a child of the one before it.
Path(nd, lv, w) ==
  /\ w \in Seq(Page) /\ w # <<>>
  /\ \A i \in 1 .. Len(w) : w[i] \in Pages(nd) /\ lv[w[i]] + i = lv[w[1]] + 1
  /\ \A i \in 1 .. Len(w) - 1 : ChildOf(nd, w[i + 1], w[i])

\* The latched pages w, from the root or from a page below it.
OnPath(nd, top, lv, o, w) ==
  /\ o.entry \in Entry /\ o.read = NoPage /\ o.root \in Page
  /\ Path(nd, lv, w)
  /\ \/ o.header = "write" /\ o.root = top /\ w[1] = top
     \/ o.header = "none" /\ lv[w[1]] < lv[o.root]

AtRootForWrite(top, o) ==
  /\ Unwritten(o) /\ o.read = NoPage /\ o.entry \in Entry /\ o.kind \in Updates
  /\ o.header = "write" /\ o.root = top /\ top # NoPage

\* Without the header the first page of the path is one that cannot underflow.
DescendingForWrite(nd, top, lv, lo, hi, o) ==
  /\ o.page = NoPage /\ o.kind \in Updates /\ OnPath(nd, top, lv, o, o.writes)
  /\ Within(lo, hi, Last(o.writes), o.entry)
  /\ nd[Last(o.writes)].kind = IF o.pc = "at_leaf" THEN "leaf" ELSE "internal"
  /\ o.kind = "remove" /\ o.header = "none" => is_delete_safe(nd[o.writes[1]])

Splitting(nd, top, pend, lv, lo, o) ==
  /\ o.page = NoPage /\ o.kind = "insert" /\ OnPath(nd, top, lv, o, o.writes)
  /\ pend[Last(o.writes)] = o.split[2] /\ o.split[2] \in Page
  /\ o.split[1] \in Entry /\ Rank(o.split[1]) = lo[o.split[2]]

Underflowing(nd, top, lv, o) ==
  /\ o.page = NoPage /\ o.kind = "remove" /\ OnPath(nd, top, lv, o, o.writes)
  /\ nd[Last(o.writes)].kind = "internal"

BesideSibling(nd, top, lv, o) ==
  /\ o.page \in Page /\ o.kind = "remove" /\ o.writes # <<>> /\ o.writes \in Seq(Page)
  /\ OnPath(nd, top, lv, o, Append(o.writes, o.page))
  /\ num_children(nd[Last(o.writes)]) > 1
  /\ o.pc = "left" => value_idx(nd[Last(o.writes)], o.page) > 0
  /\ o.pc = "right" =>
       value_idx(nd[Last(o.writes)], o.page) + 1 < num_children(nd[Last(o.writes)])

Shrinking(nd, top, o) ==
  /\ o.writes = <<>> /\ o.page = top /\ o.root = top /\ top # NoPage /\ o.read = NoPage
  /\ o.kind = "remove" /\ o.header = "write"
  /\ nd[top].kind = "internal" /\ num_children(nd[top]) = 1

LookupStages == {"root_id", "search", "walk", "next_id", "next"}

Stage(nd, top, pend, lv, lo, hi, o) ==
  \/ o.pc \in {"idle", "return"} /\ AtRest(o)
  \/ o.pc \in {"header", "header_w"} /\ AtHeader(o)
  \/ o.pc \in {"root"} \cup LookupStages /\ Looking(nd, lv, o)
  \/ o.pc \in {"root", "descend", "leaf"} /\ Descending(nd, top, lv, lo, hi, o)
  \/ o.pc = "root_w" /\ AtRootForWrite(top, o)
  \/ o.pc \in {"descend_w", "at_leaf"} /\ DescendingForWrite(nd, top, lv, lo, hi, o)
  \/ o.pc = "split" /\ Splitting(nd, top, pend, lv, lo, o)
  \/ o.pc = "underflow" /\ Underflowing(nd, top, lv, o)
  \/ o.pc \in {"left", "right", "merge"} /\ BesideSibling(nd, top, lv, o)
  \/ o.pc = "shrink" /\ Shrinking(nd, top, o)

-----------------------------------------------------------------------------
(* The invariant.                                                          *)

\* What o has latched for writing o2 has not latched.
Apart(o, o2) ==
  /\ \A p \in WrittenBy(o) : p \notin WrittenBy(o2) /\ p # o2.read
  /\ o.header = "write" => o2.header = "none"
  /\ o.kind = "remove" => o2.kind \notin Lookups

\* The half that has no parent yet is known to one thread only, which has not
\* latched it.
HalvesHeld(calls, pend) ==
  \A p \in Page : pend[p] # NoPage =>
    /\ \E t \in Thread : calls[t].pc = "split" /\ Last(calls[t].writes) = p
    /\ \A t \in Thread : pend[p] \notin WrittenBy(calls[t])

Sound(nd, top, calls, pend, lv, lo, hi) ==
  /\ Tree(nd, top, pend, lv, lo, hi)
  /\ calls = [t \in Thread |-> calls[t]]
  /\ \A t \in Thread : IsCall(calls[t]) /\ Stage(nd, top, pend, lv, lo, hi, calls[t])
  /\ \A t, u \in Thread : t # u => Apart(calls[t], calls[u])
  /\ HalvesHeld(calls, pend)

TreeInv == \E pend, lv, lo, hi : Sound(node, root, op, pend, lv, lo, hi)
-----------------------------------------------------------------------------
(* Paths.                                                                  *)

LEMMA SetOfSeq ==
  ASSUME NEW w \in Seq(Page)
  PROVE  /\ ToSet(w) \subseteq Page
         /\ \A p : p \in ToSet(w) <=> \E i \in 1 .. Len(w) : w[i] = p
BY DEF ToSet

LEMMA SetOfEmpty ==
  ToSet(<<>>) = {}
BY DEF ToSet

\* The last of a sequence, and what is before it.
LEMMA LastAndFront ==
  ASSUME NEW w \in Seq(Page), w # <<>>
  PROVE  /\ Len(w) \in Nat /\ Len(w) >= 1 /\ w[1] \in Page
         /\ Last(w) = w[Len(w)] /\ Last(w) \in Page /\ Last(w) \in ToSet(w)
         /\ w[1] \in ToSet(w)
         /\ Front(w) \in Seq(Page) /\ Len(Front(w)) = Len(w) - 1
         /\ \A i \in 1 .. Len(w) - 1 : Front(w)[i] = w[i]
         /\ ToSet(Front(w)) \subseteq ToSet(w)
         /\ Front(w) = <<>> <=> Len(w) = 1
<1> DEFINE n == Len(w)
           k == n - 1
<1>1. n \in Nat /\ n >= 1 /\ Last(w) = w[n] /\ Front(w) = SubSeq(w, 1, k) /\ w[1] \in Page
      /\ w[n] \in Page
  BY Ends1
<1>2. 1 \in 1 .. n + 1 /\ k \in 0 .. n /\ 1 <= k + 1 /\ k - 1 + 1 = k
      /\ \A j \in 1 .. k : j + 1 - 1 = j
  <2> HIDE DEF n
  <2> QED
    BY <1>1
<1> HIDE DEF k
<1>3. /\ SubSeq(w, 1, k) \in Seq(Page) /\ Len(SubSeq(w, 1, k)) = k - 1 + 1
      /\ \A j \in 1 .. k - 1 + 1 : SubSeq(w, 1, k)[j] = w[j + 1 - 1]
  BY <1>2, Cut
<1> DEFINE f == Front(w)
<1>4. f \in Seq(Page) /\ Len(f) = k /\ \A j \in 1 .. k : f[j] = w[j]
  BY <1>1, <1>2, <1>3
<1> HIDE DEF f, n
<1>5. k = n - 1 /\ n = Len(w)
  BY DEF k, n
<1>6. ToSet(f) \subseteq ToSet(w)
  <2> SUFFICES ASSUME NEW p \in ToSet(f) PROVE p \in ToSet(w)
    OBVIOUS
  <2>1. PICK j \in 1 .. k : f[j] = p
    BY <1>4, SetOfSeq
  <2>2. j \in 1 .. Len(w) /\ w[j] = p
    BY <2>1, <1>1, <1>4, <1>5
  <2> QED
    BY <2>2, SetOfSeq
<1>7. w[1] \in ToSet(w) /\ w[n] \in ToSet(w)
  BY <1>1, <1>5, SetOfSeq
<1>8. f = <<>> <=> n = 1
  BY <1>1, <1>4, <1>5
<1> QED
  BY <1>1, <1>4, <1>5, <1>6, <1>7, <1>8 DEF f

LEMMA LastAppended ==
  ASSUME NEW w \in Seq(Page), NEW p \in Page
  PROVE  /\ Append(w, p) \in Seq(Page) /\ Append(w, p) # <<>>
         /\ Last(Append(w, p)) = p /\ Front(Append(w, p)) = w
         /\ ToSet(Append(w, p)) = ToSet(w) \cup {p}
         /\ w # <<>> => Append(w, p)[1] = w[1]
<1> DEFINE v == Append(w, p)
<1>1. v \in Seq(Page) /\ Len(v) = Len(w) + 1 /\ (\A j \in 1 .. Len(w) : v[j] = w[j])
      /\ v[Len(w) + 1] = p /\ Len(w) \in Nat
  BY Extended
<1> HIDE DEF v
<1>2. v # <<>>
  BY <1>1
<1>3. /\ Last(v) = v[Len(v)] /\ Front(v) \in Seq(Page) /\ Len(Front(v)) = Len(v) - 1
      /\ \A i \in 1 .. Len(v) - 1 : Front(v)[i] = v[i]
  BY <1>1, <1>2, LastAndFront
<1>4. Last(v) = p
  BY <1>1, <1>3
<1>5. Front(v) = w
  <2> DEFINE f == Front(v)
  <2>1. f \in Seq(Page) /\ Len(f) = Len(w) /\ \A i \in 1 .. Len(f) : f[i] = w[i]
    BY <1>1, <1>3
  <2> HIDE DEF f
  <2>2. f = w
    BY <2>1, SameSequence
  <2> QED
    BY <2>2 DEF f
<1>6. ASSUME NEW q PROVE q \in ToSet(v) <=> q \in ToSet(w) \cup {p}
  <2>1. q \in ToSet(v) <=> \E i \in 1 .. Len(v) : v[i] = q
    BY <1>1, SetOfSeq
  <2>2. q \in ToSet(w) <=> \E i \in 1 .. Len(w) : w[i] = q
    BY SetOfSeq
  <2>3. (\E i \in 1 .. Len(v) : v[i] = q) <=> (\E i \in 1 .. Len(w) : w[i] = q) \/ q = p
    BY <1>1
  <2> QED
    BY <2>1, <2>2, <2>3
<1>7. w # <<>> => v[1] = w[1]
  <2> SUFFICES ASSUME w # <<>> PROVE v[1] = w[1]
    OBVIOUS
  <2>1. 1 \in 1 .. Len(w)
    BY LastAndFront
  <2> QED
    BY <2>1, <1>1
<1> QED
  BY <1>1, <1>2, <1>4, <1>5, <1>6, <1>7 DEF v

\* The pages of a path are one level apart.
LEMMA PathLevels ==
  ASSUME NEW nd, NEW top, NEW pend, NEW lv, NEW lo, NEW hi, Tree(nd, top, pend, lv, lo, hi),
         NEW w, Path(nd, lv, w)
  PROVE  /\ w \in Seq(Page) /\ w # <<>> /\ w[1] \in Pages(nd) /\ Last(w) \in Pages(nd)
         /\ \A p \in ToSet(w) : p \in Pages(nd) /\ lv[Last(w)] <= lv[p] /\ lv[p] <= lv[w[1]]
                                /\ lv[p] \in Nat
         /\ lv[w[1]] = lv[Last(w)] => Len(w) = 1
<1>1. /\ Len(w) \in Nat /\ Len(w) >= 1 /\ Last(w) = w[Len(w)]
      /\ \A i \in 1 .. Len(w) : w[i] \in Pages(nd) /\ lv[w[i]] + i = lv[w[1]] + 1
  BY LastAndFront DEF Path
<1>2. \A p \in Pages(nd) : lv[p] \in Nat
  BY DEF Tree, Typed, Pages
<1>3. \A p \in ToSet(w) : \E i \in 1 .. Len(w) : w[i] = p
  BY SetOfSeq DEF Path
<1>4. 1 \in 1 .. Len(w) /\ Len(w) \in 1 .. Len(w)
  BY <1>1
<1>5. \A i \in 1 .. Len(w) : lv[w[i]] \in Nat /\ lv[w[Len(w)]] <= lv[w[i]] /\ lv[w[i]] <= lv[w[1]]
  <2> SUFFICES ASSUME NEW i \in 1 .. Len(w)
               PROVE  lv[w[i]] \in Nat /\ lv[w[Len(w)]] <= lv[w[i]] /\ lv[w[i]] <= lv[w[1]]
    OBVIOUS
  <2> DEFINE n == Len(w)
             x == lv[w[i]]
             y == lv[w[1]]
             z == lv[w[n]]
  <2>1. x \in Nat /\ y \in Nat /\ z \in Nat
    BY <1>1, <1>2, <1>4
  <2>2. x + i = y + 1 /\ z + n = y + 1
    BY <1>1, <1>4
  <2>3. n \in Nat /\ i \in Nat /\ 1 <= i /\ i <= n
    BY <1>1
  <2> HIDE DEF n, x, y, z
  <2>4. x \in Nat /\ z <= x /\ x <= y
    BY <2>1, <2>2, <2>3
  <2> QED
    BY <2>4 DEF n, x, y, z
<1>6. lv[w[1]] = lv[w[Len(w)]] => Len(w) = 1
  <2> DEFINE n == Len(w)
             y == lv[w[1]]
             z == lv[w[n]]
  <2>1. z + n = y + 1 /\ y \in Nat /\ n \in Nat
    BY <1>1, <1>2, <1>4
  <2> HIDE DEF n, y, z
  <2>2. y = z => n = 1
    BY <2>1
  <2> QED
    BY <2>2 DEF n, y, z
<1> QED
  BY <1>1, <1>3, <1>4, <1>5, <1>6 DEF Path

LEMMA PathBegun ==
  ASSUME NEW nd, NEW lv, NEW p \in Pages(nd), lv[p] \in Nat
  PROVE  Path(nd, lv, <<p>>) /\ Last(<<p>>) = p /\ <<p>>[1] = p /\ ToSet(<<p>>) = {p}
<1> DEFINE w == <<p>>
<1>1. w \in Seq(Page) /\ Len(w) = 1 /\ w[1] = p /\ w # <<>>
  BY DEF Pages
<1> HIDE DEF w
<1>2. Path(nd, lv, w)
  BY <1>1 DEF Path
<1>3. Last(w) = p
  BY <1>1, LastAndFront
<1>4. ToSet(w) = {p}
  BY <1>1, SetOfSeq
<1> QED
  BY <1>1, <1>2, <1>3, <1>4 DEF w

LEMMA PathExtended ==
  ASSUME NEW nd, NEW top, NEW pend, NEW lv, NEW lo, NEW hi, Tree(nd, top, pend, lv, lo, hi),
         EntriesBounded, NEW w, Path(nd, lv, w), NEW c, ChildOf(nd, c, Last(w))
  PROVE  /\ c \in Page /\ Path(nd, lv, Append(w, c)) /\ Append(w, c)[1] = w[1]
<1>1. w \in Seq(Page) /\ w # <<>>
  BY DEF Path
<1>2. /\ Len(w) \in Nat /\ Len(w) >= 1 /\ Last(w) = w[Len(w)]
  BY <1>1, LastAndFront
<1>3. c \in Pages(nd) /\ lv[c] + 1 = lv[Last(w)] /\ lv[c] \in Nat /\ c \in Page
  BY ChildRange DEF Pages
<1> DEFINE v == Append(w, c)
           n == Len(w)
<1>4. v \in Seq(Page) /\ Len(v) = n + 1 /\ v[n + 1] = c /\ \A j \in 1 .. n : v[j] = w[j]
  BY <1>1, <1>3, Extended
<1>5. v[1] = w[1] /\ v # <<>>
  BY <1>2, <1>4
<1>6. \A i \in 1 .. n : w[i] \in Pages(nd) /\ lv[w[i]] + i = lv[w[1]] + 1
  BY DEF Path
<1>7. \A i \in 1 .. n - 1 : ChildOf(nd, w[i + 1], w[i])
  BY DEF Path
<1>8. lv[w[1]] \in Nat
  BY <1>2, <1>6 DEF Tree, Typed, Pages
<1>12. n \in Nat /\ n >= 1 /\ Last(w) = w[n]
  BY <1>2
<1> HIDE DEF v, n
<1>9. \A i \in 1 .. n + 1 : v[i] \in Pages(nd) /\ lv[v[i]] + i = lv[v[1]] + 1
  <2> SUFFICES ASSUME NEW i \in 1 .. n + 1
               PROVE  v[i] \in Pages(nd) /\ lv[v[i]] + i = lv[v[1]] + 1
    OBVIOUS
  <2>1. CASE i \in 1 .. n
    BY <2>1, <1>4, <1>5, <1>6
  <2>2. CASE i = n + 1
    <3>1. lv[w[n]] + n = lv[w[1]] + 1
      BY <1>6, <1>12
    <3>2. v[i] = c /\ lv[c] + 1 = lv[w[n]]
      BY <2>2, <1>3, <1>4, <1>12
    <3> QED
      BY <3>1, <3>2, <2>2, <1>3, <1>5, <1>8, <1>12
  <2> QED
    BY <2>1, <2>2, <1>12
<1>10. \A i \in 1 .. n : ChildOf(nd, v[i + 1], v[i])
  <2> SUFFICES ASSUME NEW i \in 1 .. n PROVE ChildOf(nd, v[i + 1], v[i])
    OBVIOUS
  <2>1. CASE i \in 1 .. n - 1
    <3>1. i + 1 \in 1 .. n /\ i \in 1 .. n
      BY <2>1, <1>12
    <3> QED
      BY <2>1, <3>1, <1>4, <1>7
  <2>2. CASE i = n
    BY <2>2, <1>4, <1>12
  <2> QED
    BY <2>1, <2>2, <1>12
<1>11. Path(nd, lv, v)
  BY <1>4, <1>5, <1>9, <1>10, <1>12 DEF Path
<1> QED
  BY <1>3, <1>5, <1>11 DEF v

LEMMA PathShortened ==
  ASSUME NEW nd, NEW top, NEW pend, NEW lv, NEW lo, NEW hi, Tree(nd, top, pend, lv, lo, hi),
         NEW w, Path(nd, lv, w), Len(w) > 1
  PROVE  /\ Path(nd, lv, Front(w)) /\ Front(w)[1] = w[1]
         /\ ChildOf(nd, Last(w), Last(Front(w)))
         /\ w = Append(Front(w), Last(w)) /\ ToSet(w) = ToSet(Front(w)) \cup {Last(w)}
<1> DEFINE f == Front(w)
           n == Len(w)
<1>1. w \in Seq(Page) /\ w # <<>>
  BY DEF Path
<1>2. /\ n \in Nat /\ n > 1 /\ Last(w) = w[n] /\ Last(w) \in Page
      /\ f \in Seq(Page) /\ Len(f) = n - 1 /\ \A i \in 1 .. n - 1 : f[i] = w[i]
  BY <1>1, LastAndFront
<1>3. \A i \in 1 .. n : w[i] \in Pages(nd) /\ lv[w[i]] + i = lv[w[1]] + 1
  BY DEF Path
<1>4. \A i \in 1 .. n - 1 : ChildOf(nd, w[i + 1], w[i])
  BY DEF Path
<1> HIDE DEF f, n
<1>5. f # <<>> /\ f[1] = w[1]
  BY <1>2
<1>6. \A i \in 1 .. Len(f) : f[i] \in Pages(nd) /\ lv[f[i]] + i = lv[f[1]] + 1
  BY <1>2, <1>3, <1>5
<1>7. \A i \in 1 .. Len(f) - 1 : ChildOf(nd, f[i + 1], f[i])
  <2> SUFFICES ASSUME NEW i \in 1 .. Len(f) - 1 PROVE ChildOf(nd, f[i + 1], f[i])
    OBVIOUS
  <2>1. i \in 1 .. n - 1 /\ i + 1 \in 1 .. n - 1
    BY <1>2
  <2> QED
    BY <2>1, <1>2, <1>4
<1>8. Path(nd, lv, f)
  BY <1>2, <1>5, <1>6, <1>7 DEF Path
<1>9. Last(f) = w[n - 1] /\ ChildOf(nd, w[n], w[n - 1])
  <2>1. Last(f) = f[Len(f)]
    BY <1>2, <1>5, LastAndFront
  <2>2. n - 1 \in 1 .. n - 1 /\ (n - 1) + 1 = n
    BY <1>2
  <2> QED
    BY <2>1, <2>2, <1>2, <1>4
<1>10. w = Append(f, Last(w))
  <2> DEFINE v == Append(f, Last(w))
  <2>1. v \in Seq(Page) /\ Len(v) = Len(f) + 1 /\ v[Len(f) + 1] = Last(w)
        /\ \A j \in 1 .. Len(f) : v[j] = f[j]
    BY <1>2, Extended
  <2> HIDE DEF v
  <2>2. Len(v) = Len(w)
    BY <2>1, <1>2 DEF n
  <2>3. \A i \in 1 .. Len(v) : v[i] = w[i]
    <3> SUFFICES ASSUME NEW i \in 1 .. Len(v) PROVE v[i] = w[i]
      OBVIOUS
    <3>1. Len(v) = n /\ Len(f) = n - 1 /\ n \in Nat
      BY <2>2, <1>2 DEF n
    <3>2. CASE i = n
      BY <3>1, <3>2, <2>1, <1>2
    <3>3. CASE i \in 1 .. n - 1
      BY <3>1, <3>3, <2>1, <1>2
    <3> QED
      BY <3>1, <3>2, <3>3
  <2>4. v = w
    BY <2>1, <2>2, <2>3, <1>1, SameSequence
  <2> QED
    BY <2>4 DEF v
<1>11. ToSet(w) = ToSet(f) \cup {Last(w)}
  <2>1. ToSet(Append(f, Last(w))) = ToSet(f) \cup {Last(w)}
    BY <1>2, LastAppended
  <2> QED
    BY <2>1, <1>10
<1> QED
  BY <1>2, <1>5, <1>8, <1>9, <1>10, <1>11 DEF f

-----------------------------------------------------------------------------
(* What a thread is certain of while others take steps.                    *)

LEMMA StageOf ==
  ASSUME NEW nd, NEW top, NEW pend, NEW lv, NEW lo, NEW hi, NEW o,
         Stage(nd, top, pend, lv, lo, hi, o)
  PROVE  /\ o.pc \in {"idle", "return"} => AtRest(o)
         /\ o.pc \in {"header", "header_w"} => AtHeader(o)
         /\ o.pc \in LookupStages => Looking(nd, lv, o)
         /\ o.pc = "root" => Looking(nd, lv, o) \/ Descending(nd, top, lv, lo, hi, o)
         /\ o.pc \in {"descend", "leaf"} => Descending(nd, top, lv, lo, hi, o)
         /\ o.pc = "root_w" => AtRootForWrite(top, o)
         /\ o.pc \in {"descend_w", "at_leaf"} => DescendingForWrite(nd, top, lv, lo, hi, o)
         /\ o.pc = "split" => Splitting(nd, top, pend, lv, lo, o)
         /\ o.pc = "underflow" => Underflowing(nd, top, lv, o)
         /\ o.pc \in {"left", "right", "merge"} => BesideSibling(nd, top, lv, o)
         /\ o.pc = "shrink" => Shrinking(nd, top, o)
BY DEF Stage, LookupStages

\* w is the write set, and the page that was popped from it.
AllWritten(o, w) ==
  \/ o.page = NoPage /\ w = o.writes
  \/ o.page \in Page /\ o.writes \in Seq(Page) /\ w = Append(o.writes, o.page)

LEMMA PathLatched ==
  ASSUME NEW nd, NEW top, NEW pend, NEW lv, NEW lo, NEW hi, Tree(nd, top, pend, lv, lo, hi),
         NEW o, NEW w, OnPath(nd, top, lv, o, w),
         AllWritten(o, w)
  PROVE  WrittenBy(o) = ToSet(w) /\ ToSet(w) \subseteq Pages(nd) /\ o.read = NoPage
<1>1. Path(nd, lv, w) /\ o.read = NoPage
  BY DEF OnPath
<1>2. ToSet(w) \subseteq Pages(nd)
  BY <1>1, PathLevels
<1>3. CASE o.page = NoPage /\ w = o.writes
  BY <1>1, <1>2, <1>3 DEF WrittenBy
<1>4. CASE o.page \in Page /\ o.writes \in Seq(Page) /\ w = Append(o.writes, o.page)
  <2>1. ToSet(w) = ToSet(o.writes) \cup {o.page}
    BY <1>4, LastAppended
  <2>2. o.page # NoPage
    BY <1>4, NoPageIsNone
  <2> QED
    BY <1>1, <1>2, <2>1, <2>2 DEF WrittenBy
<1> QED
  BY <1>3, <1>4 DEF AllWritten

\* What is latched for writing is a path in the tree, and what is latched for
\* reading is in the tree.
LEMMA Latched ==
  ASSUME NEW nd, NEW top, NEW pend, NEW lv, NEW lo, NEW hi, Tree(nd, top, pend, lv, lo, hi),
         NEW o, Stage(nd, top, pend, lv, lo, hi, o)
  PROVE  /\ WrittenBy(o) \subseteq Pages(nd)
         /\ o.read = NoPage \/ o.read \in Pages(nd)
         /\ o.read = NoPage \/ Unwritten(o)
<1>1. Unwritten(o) => WrittenBy(o) = {}
  BY SetOfEmpty DEF Unwritten, WrittenBy
<1>2. CASE AtRest(o) \/ AtHeader(o) \/ AtRootForWrite(top, o)
  BY <1>1, <1>2 DEF AtRest, AtHeader, Bare, AtRootForWrite
<1>3. CASE o.pc \in {"root"} \cup LookupStages /\ Looking(nd, lv, o)
  BY <1>1, <1>3 DEF Looking, LookupStages
<1>4. CASE o.pc \in {"root", "descend", "leaf"} /\ Descending(nd, top, lv, lo, hi, o)
  <2>1. \A p \in Page : nd[p].kind = "internal" => p \in Pages(nd)
    BY DEF Pages
  <2> QED
    BY <1>1, <1>4, <2>1 DEF Descending
<1>5. CASE \/ DescendingForWrite(nd, top, lv, lo, hi, o)
           \/ Splitting(nd, top, pend, lv, lo, o)
           \/ Underflowing(nd, top, lv, o)
  <2>1. o.page = NoPage /\ OnPath(nd, top, lv, o, o.writes)
    BY <1>5 DEF DescendingForWrite, Splitting, Underflowing
  <2> QED
    BY <2>1, PathLatched DEF AllWritten
<1>6. CASE BesideSibling(nd, top, lv, o)
  <2>1. o.page \in Page /\ o.writes \in Seq(Page)
        /\ OnPath(nd, top, lv, o, Append(o.writes, o.page))
    BY <1>6 DEF BesideSibling
  <2> QED
    BY <2>1, PathLatched DEF AllWritten
<1>7. CASE Shrinking(nd, top, o)
  <2>1. o.writes = <<>> /\ o.page = top /\ o.read = NoPage /\ top # NoPage
    BY <1>7 DEF Shrinking
  <2>2. top \in Pages(nd)
    BY <2>1 DEF Tree, Typed
  <2> QED
    BY <2>1, <2>2, SetOfEmpty DEF WrittenBy
<1> QED
  BY <1>2, <1>3, <1>4, <1>5, <1>6, <1>7 DEF Stage

\* What others may not change.
Undisturbed(nd, top, pend, lv, lo, hi, nd2, top2, pend2, lv2, lo2, hi2, o) ==
  /\ \A p \in Page : p \in WrittenBy(o) \/ p = o.read =>
       nd2[p] = nd[p] /\ pend2[p] = pend[p] /\ lo2[p] = lo[p] /\ hi2[p] = hi[p]
  /\ \A p \in Page : p \in Pages(nd) \/ p = o.root => lv2[p] = lv[p]
  /\ o.header # "none" => top2 = top
  /\ o.kind \in Lookups => Pages(nd) \subseteq Pages(nd2)
  /\ o.pc = "split" => lo2[o.split[2]] = lo[o.split[2]]

LEMMA PathKept ==
  ASSUME NEW nd, NEW top, NEW pend, NEW lv, NEW lo, NEW hi, Tree(nd, top, pend, lv, lo, hi),
         NEW o, NEW w, OnPath(nd, top, lv, o, w),
         AllWritten(o, w),
         NEW nd2, NEW top2, NEW pend2, NEW lv2, NEW lo2, NEW hi2,
         Undisturbed(nd, top, pend, lv, lo, hi, nd2, top2, pend2, lv2, lo2, hi2, o)
  PROVE  /\ OnPath(nd2, top2, lv2, o, w)
         /\ \A p \in ToSet(w) : p \in Page /\ nd2[p] = nd[p] /\ pend2[p] = pend[p]
                                /\ lo2[p] = lo[p] /\ hi2[p] = hi[p]
         /\ Last(w) \in ToSet(w) /\ w[1] \in ToSet(w)
<1>1. ToSet(w) = WrittenBy(o) /\ ToSet(w) \subseteq Pages(nd)
  BY PathLatched
<1>2. \A p \in ToSet(w) : p \in Page /\ nd2[p] = nd[p] /\ pend2[p] = pend[p] /\ lv2[p] = lv[p]
                          /\ lo2[p] = lo[p] /\ hi2[p] = hi[p] /\ p \in Pages(nd2)
  BY <1>1 DEF Undisturbed, Pages
<1>3. Path(nd, lv, w) /\ w \in Seq(Page) /\ w # <<>>
  BY DEF OnPath, Path
<1>4. /\ Len(w) \in Nat /\ Len(w) >= 1 /\ Last(w) \in ToSet(w) /\ w[1] \in ToSet(w)
      /\ \A i \in 1 .. Len(w) : w[i] \in ToSet(w)
  BY <1>3, LastAndFront, SetOfSeq
<1>5. Path(nd2, lv2, w)
  <2>1. \A i \in 1 .. Len(w) : w[i] \in Pages(nd2) /\ lv2[w[i]] + i = lv2[w[1]] + 1
    BY <1>2, <1>3, <1>4 DEF Path
  <2>2. \A i \in 1 .. Len(w) - 1 : ChildOf(nd2, w[i + 1], w[i])
    <3> SUFFICES ASSUME NEW i \in 1 .. Len(w) - 1 PROVE ChildOf(nd2, w[i + 1], w[i])
      OBVIOUS
    <3>1. ChildOf(nd, w[i + 1], w[i]) /\ i \in 1 .. Len(w)
      BY <1>3, <1>4 DEF Path
    <3>2. nd2[w[i]] = nd[w[i]]
      BY <3>1, <1>2, <1>4
    <3> QED
      BY <3>1, <3>2 DEF ChildOf
  <2> QED
    BY <1>3, <2>1, <2>2 DEF Path
<1>6. o.header = "write" => top2 = top
  BY DEF Undisturbed
<1>7. lv2[o.root] = lv[o.root] /\ lv2[w[1]] = lv[w[1]]
  BY <1>2, <1>4 DEF Undisturbed, OnPath
<1>8. OnPath(nd2, top2, lv2, o, w)
  BY <1>5, <1>6, <1>7 DEF OnPath
<1> QED
  BY <1>2, <1>4, <1>8

LEMMA StageKept ==
  ASSUME NEW nd, NEW top, NEW pend, NEW lv, NEW lo, NEW hi, Tree(nd, top, pend, lv, lo, hi),
         NEW o, Stage(nd, top, pend, lv, lo, hi, o),
         NEW nd2, NEW top2, NEW pend2, NEW lv2, NEW lo2, NEW hi2,
         Undisturbed(nd, top, pend, lv, lo, hi, nd2, top2, pend2, lv2, lo2, hi2, o)
  PROVE  Stage(nd2, top2, pend2, lv2, lo2, hi2, o)
<1>1. CASE o.pc \in {"root"} \cup LookupStages /\ Looking(nd, lv, o)
  <2>1. Looking(nd2, lv2, o)
    <3>1. Pages(nd) \subseteq Pages(nd2) /\ Pages(nd) \subseteq Page
      BY <1>1 DEF Looking, Undisturbed, Pages
    <3>2. \A p \in Pages(nd) : lv2[p] = lv[p]
      BY <3>1 DEF Undisturbed
    <3> QED
      BY <1>1, <3>1, <3>2 DEF Looking
  <2> QED
    BY <1>1, <2>1 DEF Stage
<1>2. CASE o.pc \in {"root", "descend", "leaf"} /\ Descending(nd, top, lv, lo, hi, o)
  <2>1. o.header # "none" => top2 = top /\ lv2[top] = lv[top]
    <3>1. top # NoPage => top \in Pages(nd) /\ top \in Page
      BY DEF Tree, Typed, Pages
    <3> QED
      BY <1>2, <3>1 DEF Undisturbed, Descending
  <2>2. o.read \in Page /\ nd[o.read].kind = "internal" =>
          /\ nd2[o.read] = nd[o.read] /\ lo2[o.read] = lo[o.read] /\ hi2[o.read] = hi[o.read]
          /\ lv2[o.read] = lv[o.read]
    BY DEF Undisturbed, Pages
  <2>3. Descending(nd2, top2, lv2, lo2, hi2, o)
    BY <1>2, <2>1, <2>2 DEF Descending, Within, ChosenChild
  <2> QED
    BY <1>2, <2>3 DEF Stage
<1>3. CASE o.pc = "root_w" /\ AtRootForWrite(top, o)
  BY <1>3 DEF Stage, AtRootForWrite, Undisturbed
<1>4. CASE /\ o.pc \in {"descend_w", "at_leaf"}
           /\ DescendingForWrite(nd, top, lv, lo, hi, o)
  <2> DEFINE w == o.writes
  <2>1. o.page = NoPage /\ OnPath(nd, top, lv, o, w)
    BY <1>4 DEF DescendingForWrite
  <2>2. /\ OnPath(nd2, top2, lv2, o, w)
        /\ nd2[Last(w)] = nd[Last(w)] /\ lo2[Last(w)] = lo[Last(w)] /\ hi2[Last(w)] = hi[Last(w)]
        /\ nd2[w[1]] = nd[w[1]]
    BY <2>1, PathKept DEF AllWritten
  <2>3. DescendingForWrite(nd2, top2, lv2, lo2, hi2, o)
    BY <1>4, <2>1, <2>2 DEF DescendingForWrite, Within
  <2> QED
    BY <1>4, <2>3 DEF Stage
<1>5. CASE o.pc = "split" /\ Splitting(nd, top, pend, lv, lo, o)
  <2> DEFINE w == o.writes
  <2>1. o.page = NoPage /\ OnPath(nd, top, lv, o, w)
    BY <1>5 DEF Splitting
  <2>2. OnPath(nd2, top2, lv2, o, w) /\ pend2[Last(w)] = pend[Last(w)]
    BY <2>1, PathKept DEF AllWritten
  <2>3. lo2[o.split[2]] = lo[o.split[2]]
    BY <1>5 DEF Undisturbed
  <2>4. Splitting(nd2, top2, pend2, lv2, lo2, o)
    BY <1>5, <2>1, <2>2, <2>3 DEF Splitting
  <2> QED
    BY <1>5, <2>4 DEF Stage
<1>6. CASE o.pc = "underflow" /\ Underflowing(nd, top, lv, o)
  <2> DEFINE w == o.writes
  <2>1. o.page = NoPage /\ OnPath(nd, top, lv, o, w)
    BY <1>6 DEF Underflowing
  <2>2. OnPath(nd2, top2, lv2, o, w) /\ nd2[Last(w)] = nd[Last(w)]
    BY <2>1, PathKept DEF AllWritten
  <2>3. Underflowing(nd2, top2, lv2, o)
    BY <1>6, <2>1, <2>2 DEF Underflowing
  <2> QED
    BY <1>6, <2>3 DEF Stage
<1>7. CASE o.pc \in {"left", "right", "merge"} /\ BesideSibling(nd, top, lv, o)
  <2> DEFINE w == Append(o.writes, o.page)
  <2>1. /\ o.page \in Page /\ o.writes \in Seq(Page) /\ o.writes # <<>>
        /\ OnPath(nd, top, lv, o, w) /\ w = Append(o.writes, o.page)
    BY <1>7 DEF BesideSibling
  <2> HIDE DEF w
  <2>2. AllWritten(o, w)
    BY <2>1 DEF AllWritten
  <2>3. /\ OnPath(nd2, top2, lv2, o, w)
        /\ \A p \in ToSet(w) : p \in Page /\ nd2[p] = nd[p] /\ pend2[p] = pend[p]
                               /\ lo2[p] = lo[p] /\ hi2[p] = hi[p]
    BY <2>1, <2>2, PathKept
  <2>4. Last(o.writes) \in ToSet(w)
    BY <2>1, LastAppended, LastAndFront
  <2>5. nd2[Last(o.writes)] = nd[Last(o.writes)]
    BY <2>3, <2>4
  <2>6. BesideSibling(nd2, top2, lv2, o)
    BY <1>7, <2>1, <2>3, <2>5 DEF BesideSibling, w
  <2> QED
    BY <1>7, <2>6 DEF Stage
<1>8. CASE o.pc = "shrink" /\ Shrinking(nd, top, o)
  <2>1. top2 = top /\ top # NoPage /\ o.page = top
    BY <1>8 DEF Shrinking, Undisturbed
  <2>2. top \in Page /\ top \in WrittenBy(o)
    BY <2>1 DEF Tree, Typed, Pages, WrittenBy
  <2>3. nd2[top] = nd[top]
    BY <2>2 DEF Undisturbed
  <2> QED
    BY <1>8, <2>1, <2>3 DEF Shrinking, Stage
<1> QED
  BY <1>1, <1>2, <1>3, <1>4, <1>5, <1>6, <1>7, <1>8 DEF Stage

-----------------------------------------------------------------------------
(* A step of one thread.                                                   *)

\* Nobody but t has latched p.
Alone(calls, t, p) ==
  \A u \in Thread \ {t} : p \notin WrittenBy(calls[u]) /\ p # calls[u].read

KindsApart(k, k2) == (k = "remove" => k2 \notin Lookups) /\ (k2 = "remove" => k \notin Lookups)

\* t goes on as o, and changes no pages but those it had latched for writing
\* and those of G, which it has just allocated or latched.
StepBy(nd, top, calls, pend, lv, lo, hi, t, G, o, nd2, top2, pend2, lv2, lo2, hi2) ==
  /\ \A p \in G : p \in Page /\ Alone(calls, t, p) /\ \A z \in Page : pend[z] # p
  /\ \A p \in Page : p \notin WrittenBy(calls[t]) /\ p \notin G =>
       nd2[p] = nd[p] /\ pend2[p] = pend[p] /\ lo2[p] = lo[p] /\ hi2[p] = hi[p]
  /\ \A p \in Page : lv2[p] = lv[p] \/ ( /\ p \notin Pages(nd)
                                         /\ \A u \in Thread \ {t} : p # calls[u].root )
  /\ top2 = top \/ \A u \in Thread \ {t} : calls[u].header = "none"
  /\ Pages(nd) \subseteq Pages(nd2) \/ calls[t].kind = "remove"
  /\ IsCall(o) /\ Stage(nd2, top2, pend2, lv2, lo2, hi2, o)
  /\ WrittenBy(o) \subseteq WrittenBy(calls[t]) \cup G
  /\ o.read = NoPage \/ \A u \in Thread \ {t} : o.read \notin WrittenBy(calls[u])
  /\ \/ o.header = "none" \/ o.header = calls[t].header
     \/ o.header = "read" /\ \A u \in Thread \ {t} : calls[u].header # "write"
     \/ \A u \in Thread \ {t} : calls[u].header = "none"
  /\ o.kind \in {"none", calls[t].kind} \/ \A u \in Thread \ {t} : KindsApart(o.kind, calls[u].kind)
  /\ \A p \in Page : p \in WrittenBy(calls[t]) \cup G /\ pend2[p] # NoPage =>
       o.pc = "split" /\ Last(o.writes) = p /\ pend2[p] \notin WrittenBy(o) /\ pend2[p] \in G

LEMMA Stepped ==
  ASSUME NEW nd, NEW top, NEW calls, NEW pend, NEW lv, NEW lo, NEW hi,
         Sound(nd, top, calls, pend, lv, lo, hi), NEW t \in Thread, NEW G, NEW o,
         NEW nd2, NEW top2, NEW pend2, NEW lv2, NEW lo2, NEW hi2,
         StepBy(nd, top, calls, pend, lv, lo, hi, t, G, o, nd2, top2, pend2, lv2, lo2, hi2),
         Tree(nd2, top2, pend2, lv2, lo2, hi2)
  PROVE  Sound(nd2, top2, Put(calls, t, o), pend2, lv2, lo2, hi2)
<1> DEFINE calls2 == Put(calls, t, o)
           old == calls[t]
<1>1. /\ calls2 = [u \in Thread |-> calls2[u]] /\ calls2[t] = o
      /\ \A u \in Thread \ {t} : calls2[u] = calls[u]
  BY DEF Sound, Put
<1>2. /\ Tree(nd, top, pend, lv, lo, hi) /\ HalvesHeld(calls, pend)
      /\ \A u \in Thread : IsCall(calls[u]) /\ Stage(nd, top, pend, lv, lo, hi, calls[u])
      /\ \A u, v \in Thread : u # v => Apart(calls[u], calls[v])
  BY DEF Sound
<1> HIDE DEF calls2
<1>3. ASSUME NEW u \in Thread \ {t}
      PROVE  Undisturbed(nd, top, pend, lv, lo, hi, nd2, top2, pend2, lv2, lo2, hi2, calls[u])
  <2>1. Apart(old, calls[u])
    BY <1>2
  <2>2. \A p \in Page : p \in WrittenBy(calls[u]) \/ p = calls[u].read =>
          p \notin WrittenBy(old) /\ p \notin G
    BY <2>1 DEF Apart, StepBy, Alone
  <2>3. \A p \in Page : p \in WrittenBy(calls[u]) \/ p = calls[u].read =>
          nd2[p] = nd[p] /\ pend2[p] = pend[p] /\ lo2[p] = lo[p] /\ hi2[p] = hi[p]
    BY <2>2 DEF StepBy
  <2>4. \A p \in Page : p \in Pages(nd) \/ p = calls[u].root => lv2[p] = lv[p]
    BY DEF StepBy
  <2>5. calls[u].header # "none" => top2 = top
    BY DEF StepBy
  <2>6. calls[u].kind \in Lookups => Pages(nd) \subseteq Pages(nd2)
    BY <2>1 DEF StepBy, Apart
  <2>7. calls[u].pc = "split" => lo2[calls[u].split[2]] = lo[calls[u].split[2]]
    <3> SUFFICES ASSUME calls[u].pc = "split"
                 PROVE  lo2[calls[u].split[2]] = lo[calls[u].split[2]]
      OBVIOUS
    <3> DEFINE l == Last(calls[u].writes)
               q == calls[u].split[2]
    <3>1. Splitting(nd, top, pend, lv, lo, calls[u])
      BY <1>2, StageOf
    <3>2. calls[u].writes \in Seq(Page) /\ calls[u].writes # <<>> /\ pend[l] = q /\ q \in Page
      BY <3>1 DEF Splitting, OnPath, Path
    <3>3. l \in Page /\ pend[l] # NoPage
      BY <3>2, LastAndFront, NoPageIsNone
    <3>4. q \notin WrittenBy(old) /\ q \notin G
      BY <3>2, <3>3, <1>2 DEF HalvesHeld, StepBy
    <3> QED
      BY <3>2, <3>4 DEF StepBy
  <2> QED
    BY <2>3, <2>4, <2>5, <2>6, <2>7 DEF Undisturbed
<1>4. ASSUME NEW u \in Thread
      PROVE  IsCall(calls2[u]) /\ Stage(nd2, top2, pend2, lv2, lo2, hi2, calls2[u])
  <2>1. CASE u = t
    BY <2>1, <1>1 DEF StepBy
  <2>2. CASE u # t
    BY <2>2, <1>1, <1>2, <1>3, StageKept
  <2> QED
    BY <2>1, <2>2
<1>5. ASSUME NEW u \in Thread \ {t} PROVE Apart(o, calls[u]) /\ Apart(calls[u], o)
  <2>1. Apart(old, calls[u]) /\ Apart(calls[u], old)
    BY <1>2
  <2>2. \A p \in WrittenBy(o) : p \notin WrittenBy(calls[u]) /\ p # calls[u].read
    BY <2>1 DEF Apart, StepBy, Alone
  <2>3. \A p \in WrittenBy(calls[u]) : p \notin WrittenBy(o) /\ p # o.read
    <3>1. NoPage \notin WrittenBy(calls[u])
      BY <1>2, Latched, NoPageIsNone DEF Pages
    <3> QED
      BY <2>2, <3>1 DEF StepBy
  <2>4. /\ o.header = "write" => calls[u].header = "none"
        /\ calls[u].header = "write" => o.header = "none"
    BY <2>1 DEF Apart, StepBy
  <2>5. /\ o.kind = "remove" => calls[u].kind \notin Lookups
        /\ calls[u].kind = "remove" => o.kind \notin Lookups
    BY <2>1 DEF Apart, StepBy, KindsApart, Lookups
  <2> QED
    BY <2>2, <2>3, <2>4, <2>5 DEF Apart
<1>6. ASSUME NEW u \in Thread, NEW v \in Thread, u # v PROVE Apart(calls2[u], calls2[v])
  BY <1>1, <1>2, <1>5, <1>6
<1>7. HalvesHeld(calls2, pend2)
  <2> SUFFICES ASSUME NEW p \in Page, pend2[p] # NoPage
               PROVE  /\ \E u \in Thread : calls2[u].pc = "split" /\ Last(calls2[u].writes) = p
                      /\ \A u \in Thread : pend2[p] \notin WrittenBy(calls2[u])
    BY DEF HalvesHeld
  <2>1. CASE p \in WrittenBy(old) \cup G
    <3>1. /\ o.pc = "split" /\ Last(o.writes) = p /\ pend2[p] \notin WrittenBy(o)
          /\ pend2[p] \in G
      BY <2>1 DEF StepBy
    <3>2. \A u \in Thread \ {t} : pend2[p] \notin WrittenBy(calls[u])
      BY <3>1 DEF StepBy, Alone
    <3> QED
      BY <3>1, <3>2, <1>1
  <2>2. CASE p \notin WrittenBy(old) \cup G
    <3>1. pend2[p] = pend[p]
      BY <2>2 DEF StepBy
    <3>2. PICK u \in Thread : calls[u].pc = "split" /\ Last(calls[u].writes) = p
      BY <3>1, <1>2 DEF HalvesHeld
    <3>3. u # t
      <4> SUFFICES ASSUME u = t PROVE FALSE
        OBVIOUS
      <4>1. Splitting(nd, top, pend, lv, lo, old)
        BY <3>2, <1>2, StageOf
      <4>2. old.writes \in Seq(Page) /\ old.writes # <<>>
        BY <4>1 DEF Splitting, OnPath, Path
      <4>3. p \in WrittenBy(old)
        BY <3>2, <4>2, LastAndFront DEF WrittenBy
      <4> QED
        BY <2>2, <4>3
    <3>4. \A v \in Thread : pend[p] \notin WrittenBy(calls[v])
      BY <3>1, <1>2 DEF HalvesHeld
    <3>5. pend[p] \notin G
      BY DEF StepBy
    <3>6. pend[p] \notin WrittenBy(o)
      BY <3>4, <3>5 DEF StepBy
    <3> QED
      BY <3>1, <3>2, <3>3, <3>4, <3>6, <1>1
  <2> QED
    BY <2>1, <2>2
<1>8. Sound(nd2, top2, calls2, pend2, lv2, lo2, hi2)
  BY <1>1, <1>4, <1>6, <1>7 DEF Sound
<1> QED
  BY <1>8 DEF calls2

\* Pages that t has latched are not halves of others, and have no half of their
\* own unless it is t that has yet to give it a parent.
LEMMA Whole ==
  ASSUME NEW nd, NEW top, NEW calls, NEW pend, NEW lv, NEW lo, NEW hi,
         Sound(nd, top, calls, pend, lv, lo, hi), NEW t \in Thread, NEW p \in Page,
         p \in WrittenBy(calls[t]) \/ \A u \in Thread \ {t} : p \notin WrittenBy(calls[u]),
         calls[t].pc # "split" \/ p # Last(calls[t].writes)
  PROVE  pend[p] = NoPage
<1> SUFFICES ASSUME pend[p] # NoPage PROVE FALSE
  OBVIOUS
<1>1. PICK u \in Thread : calls[u].pc = "split" /\ Last(calls[u].writes) = p
  BY DEF Sound, HalvesHeld
<1>2. u # t
  BY <1>1
<1>3. Splitting(nd, top, pend, lv, lo, calls[u])
  BY <1>1, StageOf DEF Sound
<1>4. calls[u].writes \in Seq(Page) /\ calls[u].writes # <<>>
  BY <1>3 DEF Splitting, OnPath, Path
<1>5. p \in WrittenBy(calls[u])
  BY <1>1, <1>4, LastAndFront DEF WrittenBy
<1>6. Apart(calls[u], calls[t])
  BY <1>2 DEF Sound
<1> QED
  BY <1>2, <1>5, <1>6 DEF Apart

LEMMA NotHalf ==
  ASSUME NEW nd, NEW top, NEW calls, NEW pend, NEW lv, NEW lo, NEW hi,
         Sound(nd, top, calls, pend, lv, lo, hi), EntriesBounded, NEW p \in Page,
         \/ p = top
         \/ \E q : ChildOf(nd, p, q)
         \/ p \notin Pages(nd)
         \/ \E t \in Thread : p \in WrittenBy(calls[t])
  PROVE  \A z \in Page : pend[z] # p
<1> SUFFICES ASSUME NEW z \in Page, pend[z] = p PROVE FALSE
  OBVIOUS
<1>1. pend[z] # NoPage
  BY NoPageIsNone
<1>2. Tree(nd, top, pend, lv, lo, hi)
  BY DEF Sound
<1>3. p # top /\ \A q : ~ChildOf(nd, p, q)
  BY <1>1, <1>2, PendingNoChild
<1>4. p \in Pages(nd)
  BY <1>1, <1>2 DEF Tree, Halves
<1>5. \A t \in Thread : p \notin WrittenBy(calls[t])
  BY <1>1 DEF Sound, HalvesHeld
<1> QED
  BY <1>3, <1>4, <1>5

\* Pages that t has latched for writing are in the tree, and not latched by others.
LEMMA Held ==
  ASSUME NEW nd, NEW top, NEW calls, NEW pend, NEW lv, NEW lo, NEW hi,
         Sound(nd, top, calls, pend, lv, lo, hi), NEW t \in Thread, NEW p \in WrittenBy(calls[t])
  PROVE  p \in Pages(nd) /\ p \in Page /\ Alone(calls, t, p)
<1>1. p \in Pages(nd)
  BY Latched DEF Sound
<1>2. Alone(calls, t, p)
  BY DEF Sound, Apart, Alone
<1> QED
  BY <1>1, <1>2 DEF Pages

LEMMA NewlyAllocated ==
  ASSUME NEW nd, NEW top, NEW calls, NEW pend, NEW lv, NEW lo, NEW hi,
         Sound(nd, top, calls, pend, lv, lo, hi), NEW t \in Thread, NEW p \in Page,
         nd[p] = Free
  PROVE  p \notin Pages(nd) /\ Alone(calls, t, p) /\ pend[p] = NoPage
<1>1. p \notin Pages(nd)
  BY DEF Free, Pages
<1>2. ASSUME NEW u \in Thread PROVE p \notin WrittenBy(calls[u]) /\ p # calls[u].read
  <2>1. WrittenBy(calls[u]) \subseteq Pages(nd)
        /\ (calls[u].read = NoPage \/ calls[u].read \in Pages(nd))
    BY Latched DEF Sound
  <2> QED
    BY <2>1, <1>1, NoPageIsNone
<1>3. pend[p] = NoPage
  BY <1>1 DEF Sound, Tree, Halves
<1> QED
  BY <1>1, <1>2, <1>3 DEF Alone

\* The conditions on the call alone.
Onward(calls, t, G, o) ==
  /\ WrittenBy(o) \subseteq WrittenBy(calls[t]) \cup G
  /\ o.read = NoPage \/ \A u \in Thread \ {t} : o.read \notin WrittenBy(calls[u])
  /\ \/ o.header = "none" \/ o.header = calls[t].header
     \/ o.header = "read" /\ \A u \in Thread \ {t} : calls[u].header # "write"
     \/ \A u \in Thread \ {t} : calls[u].header = "none"
  /\ o.kind \in {"none", calls[t].kind} \/ \A u \in Thread \ {t} : KindsApart(o.kind, calls[u].kind)

\* t goes on with its call, and nothing changes.
LEMMA Walked ==
  ASSUME NEW nd, NEW top, NEW calls, NEW pend, NEW lv, NEW lo, NEW hi,
         Sound(nd, top, calls, pend, lv, lo, hi), NEW t \in Thread, NEW G, NEW o,
         calls[t].pc # "split",
         \A p \in G : p \in Page /\ Alone(calls, t, p) /\ \A z \in Page : pend[z] # p,
         IsCall(o), Stage(nd, top, pend, lv, lo, hi, o), Onward(calls, t, G, o)
  PROVE  Sound(nd, top, Put(calls, t, o), pend, lv, lo, hi)
<1>1. \A p \in Page : p \in WrittenBy(calls[t]) \cup G => pend[p] = NoPage
  BY Whole DEF Alone
<1>2. StepBy(nd, top, calls, pend, lv, lo, hi, t, G, o, nd, top, pend, lv, lo, hi)
  BY <1>1 DEF StepBy, Onward
<1>3. Tree(nd, top, pend, lv, lo, hi)
  BY DEF Sound
<1> QED
  BY <1>2, <1>3, Stepped

Returning(answer) == [Idle EXCEPT !.pc = "return", !.answer = answer]

LEMMA AtReturn ==
  ASSUME NEW a, NEW o, o = Returning(a)
  PROVE  /\ IsCall(o) /\ WrittenBy(o) = {} /\ o.read = NoPage /\ o.header = "none"
         /\ o.kind = "none" /\ o.pc = "return"
         /\ \A nd, top, pend, lv, lo, hi : Stage(nd, top, pend, lv, lo, hi, o)
         /\ \A calls, t, G : Onward(calls, t, G, o)
<1>1. /\ IsCall(o) /\ o.writes = <<>> /\ o.page = NoPage /\ o.read = NoPage /\ o.header = "none"
      /\ o.kind = "none" /\ o.pc = "return"
  BY DEF Returning, Idle, IsCall, NoPage
<1>2. WrittenBy(o) = {}
  BY <1>1, SetOfEmpty DEF WrittenBy
<1>3. AtRest(o)
  BY <1>1 DEF AtRest, Bare, Unwritten
<1>4. \A nd, top, pend, lv, lo, hi : Stage(nd, top, pend, lv, lo, hi, o)
  BY <1>1, <1>3 DEF Stage
<1> QED
  BY <1>1, <1>2, <1>4 DEF Onward

\* t changes pages it has latched, and returns.
LEMMA Changed ==
  ASSUME NEW nd, NEW top, NEW calls, NEW pend, NEW lv, NEW lo, NEW hi,
         Sound(nd, top, calls, pend, lv, lo, hi), NEW t \in Thread, NEW G, NEW o, NEW a,
         o = Returning(a), calls[t].pc # "split",
         \A p \in G : p \in Page /\ Alone(calls, t, p) /\ \A z \in Page : pend[z] # p,
         NEW nd2, NEW lo2, NEW hi2, Tree(nd2, top, pend, lv, lo2, hi2),
         Pages(nd) \subseteq Pages(nd2) \/ calls[t].kind = "remove",
         \A p \in Page : p \notin WrittenBy(calls[t]) /\ p \notin G =>
           nd2[p] = nd[p] /\ lo2[p] = lo[p] /\ hi2[p] = hi[p]
  PROVE  Sound(nd2, top, Put(calls, t, o), pend, lv, lo2, hi2)
<1>1. \A p \in Page : p \in WrittenBy(calls[t]) \cup G => pend[p] = NoPage
  BY Whole DEF Alone
<1>2. IsCall(o) /\ Stage(nd2, top, pend, lv, lo2, hi2, o) /\ Onward(calls, t, G, o)
  BY AtReturn
<1>3. StepBy(nd, top, calls, pend, lv, lo, hi, t, G, o, nd2, top, pend, lv, lo2, hi2)
  BY <1>1, <1>2 DEF StepBy, Onward
<1> QED
  BY <1>3, Stepped

-----------------------------------------------------------------------------
(* Latches.                                                                *)

LEMMA HeaderModes ==
  ASSUME NEW nd, NEW top, NEW pend, NEW lv, NEW lo, NEW hi, NEW o,
         Stage(nd, top, pend, lv, lo, hi, o)
  PROVE  /\ o.header \in {"none", "read", "write"}
         /\ o.header # "none" => o.pc \notin {"idle", "return", "header", "header_w"}
BY SMTT(60) DEF Stage, AtRest, AtHeader, Bare, Looking, LookupStages, Descending, AtRootForWrite,
       DescendingForWrite, Splitting, Underflowing, BesideSibling, Shrinking, OnPath

\* What a thread waits for, by where it is.
LEMMA WantsAt ==
  ASSUME NEW t \in Thread, NEW o, o = op[t]
  PROVE  /\ o.pc = "header"   => Wants(t) = [page |-> Header, mode |-> "read"]
         /\ o.pc = "header_w" => Wants(t) = [page |-> Header, mode |-> "write"]
         /\ o.pc = "root"     => Wants(t) = [page |-> o.root, mode |-> "read"]
         /\ o.pc = "root_w"   => Wants(t) = [page |-> o.root, mode |-> "write"]
         /\ o.pc = "descend"  =>
              Wants(t) = [page |-> ChosenChild(node, o.read, o.entry), mode |-> "read"]
         /\ o.pc = "search" /\ node[o.read].kind = "internal" =>
              Wants(t) = [page |-> value_at(node[o.read],
                                            find_child_idx(node[o.read], o.entry[1])),
                          mode |-> "read"]
         /\ o.pc = "leaf"     => Wants(t) = [page |-> o.target, mode |-> "write"]
         /\ o.pc = "next"     => Wants(t) = [page |-> o.target, mode |-> "read"]
         /\ o.pc = "descend_w" =>
              Wants(t) = [page |-> ChosenChild(node, Last(o.writes), o.entry), mode |-> "write"]
         /\ o.pc = "left"     => Wants(t) = [page |-> Sibling(t, -1), mode |-> "write"]
         /\ o.pc = "right"    => Wants(t) = [page |-> Sibling(t, 1), mode |-> "write"]
         /\ o.pc = "merge"    =>
              Wants(t) = [page |-> Sibling(t, IF IdxInParent(t) > 0 THEN -1 ELSE 1),
                          mode |-> "write"]
         /\ o.pc = "shrink"   => Wants(t) = [page |-> value_at(node[o.page], 0), mode |-> "write"]
         /\ /\ o.pc \notin {"header", "header_w", "root", "root_w", "descend", "leaf", "next",
                            "descend_w", "left", "right", "merge", "shrink"}
            /\ o.pc = "search" => node[o.read].kind # "internal"
            => Wants(t) = [page |-> NoPage, mode |-> "none"]
BY DEF Wants, ChosenChild, NoPage

\* A latch that is granted is not held by others, or not for writing.
LEMMA GrantedFor ==
  ASSUME NEW t \in Thread, NEW pc, Granted(t, pc), NEW p, NEW mode,
         Wants(t) = [page |-> p, mode |-> mode]
  PROVE  /\ op[t].pc = pc
         /\ mode = "write" => Alone(op, t, p)
         /\ mode = "read" => \A u \in Thread \ {t} : p \notin WrittenBy(op[u])
         /\ mode # "none" /\ p = Header => \A u \in Thread \ {t} : op[u].header # "write"
         /\ mode = "write" /\ p = Header => \A u \in Thread \ {t} : op[u].header # "read"
<1>1. op[t].pc = pc /\ \A u \in Thread \ {t} : ~WaitsFor(t, u)
  BY DEF Granted
<1>2. Wants(t).page = p /\ Wants(t).mode = mode
  OBVIOUS
<1>3. \A u : Written(u) = WrittenBy(op[u])
  BY DEF Written, WrittenBy, NoPage
<1> QED
  BY <1>1, <1>2, <1>3 DEF WaitsFor, Alone

\* The way down leads to a child whose range has the entry.
LEMMA ChildChosen ==
  ASSUME NEW nd, NEW top, NEW pend, NEW lv, NEW lo, NEW hi, Tree(nd, top, pend, lv, lo, hi),
         EntriesBounded, NEW p \in Page, nd[p].kind = "internal",
         NEW e, Within(lo, hi, p, e), NEW c, c = ChosenChild(nd, p, e)
  PROVE  /\ ChildOf(nd, c, p) /\ c \in Page /\ c \in Pages(nd)
         /\ pend[c] = NoPage => Within(lo, hi, c, e)
<1> DEFINE n == nd[p]
           i == find_child_idx_for_insert(n, e) + 1
<1>1. /\ Row(n.children, n.seps, lo[p], hi[p], lv[p], Pages(nd), lv, lo, Ends(pend, hi))
      /\ Len(n.children) = Len(n.seps) + 1 /\ Len(n.seps) \in Nat
  BY Children DEF NodeOK
<1>2. p \in Pages(nd)
  BY DEF Pages
<1>3. lo[p] \in Int /\ hi[p] \in Int
  BY <1>2, EndsAfter
<1>4. e \in Entry /\ lo[p] <= Rank(e) /\ Rank(e) < hi[p]
  BY DEF Within
<1>5. /\ i \in 1 .. Len(n.children)
      /\ From(n.seps, lo[p], i) <= Rank(e) /\ Rank(e) < To(n.seps, hi[p], i)
  <2>1. /\ find_child_idx_for_insert(n, e) \in 0 .. Len(n.seps)
        /\ From(n.seps, lo[p], i) <= Rank(e) /\ Rank(e) < To(n.seps, hi[p], i)
    BY <1>1, <1>3, <1>4, ChildSearched
  <2> QED
    BY <2>1, <1>1
<1>6. c = n.children[i]
  BY DEF ChosenChild, value_at
<1> HIDE DEF i
<1>7. /\ c \in Pages(nd) /\ ChildOf(nd, c, p)
      /\ lo[c] = From(n.seps, lo[p], i) /\ Ends(pend, hi)[c] = To(n.seps, hi[p], i)
  BY <1>1, <1>5, <1>6 DEF Row, ChildOf
<1>8. c \in Page
  BY <1>7 DEF Pages
<1>9. pend[c] = NoPage => Ends(pend, hi)[c] = hi[c]
  BY <1>8, EndsAt
<1> QED
  BY <1>4, <1>5, <1>7, <1>8, <1>9 DEF Within

-----------------------------------------------------------------------------
(* The steps that change nothing but the call.                             *)

LEMMA Gone ==
  ASSUME NEW t \in Thread, NEW o, Goto(t, o)
  PROVE  op' = Put(op, t, o)
BY DEF Goto, Put

LEMMA Now ==
  ASSUME NEW nd, NEW top, NEW calls, NEW pend, NEW lv, NEW lo, NEW hi,
         Sound(nd, top, calls, pend, lv, lo, hi), NEW t \in Thread
  PROVE  /\ Tree(nd, top, pend, lv, lo, hi) /\ IsCall(calls[t])
         /\ Stage(nd, top, pend, lv, lo, hi, calls[t])
BY DEF Sound

\* t goes on with what it has latched, and perhaps g.
LEMMA WalkedTo ==
  ASSUME NEW pend, NEW lv, NEW lo, NEW hi, Sound(node, root, op, pend, lv, lo, hi),
         NEW t \in Thread, NEW G, NEW o, op[t].pc # "split",
         \A p \in G : p \in Page /\ Alone(op, t, p) /\ \A z \in Page : pend[z] # p,
         IsCall(o), Stage(node, root, pend, lv, lo, hi, o), Onward(op, t, G, o),
         Goto(t, o), UNCHANGED <<root, node>>
  PROVE  Sound(node', root', op', pend, lv, lo, hi)
<1>1. Sound(node, root, Put(op, t, o), pend, lv, lo, hi)
  BY Walked
<1>2. op' = Put(op, t, o) /\ node' = node /\ root' = root
  BY Gone
<1> QED
  BY <1>1, <1>2

\* t returns, and nothing changes.
LEMMA JustReturned ==
  ASSUME NEW pend, NEW lv, NEW lo, NEW hi, Sound(node, root, op, pend, lv, lo, hi),
         NEW t \in Thread, NEW a, op[t].pc # "split", Finish(t, a), UNCHANGED <<root, node>>
  PROVE  Sound(node', root', op', pend, lv, lo, hi)
<1> DEFINE o == Returning(a)
<1>1. Goto(t, o)
  BY DEF Finish, Returning
<1>2. IsCall(o) /\ Stage(node, root, pend, lv, lo, hi, o) /\ Onward(op, t, {}, o)
  BY AtReturn
<1> HIDE DEF o
<1> QED
  BY <1>1, <1>2, WalkedTo

LEMMA CallKept ==
  ASSUME LookupsApart, NEW pend, NEW lv, NEW lo, NEW hi, Sound(node, root, op, pend, lv, lo, hi),
         NEW t \in Thread, NEW kind \in Updates \cup Lookups, NEW e \in Entry, Call(t, kind, e)
  PROVE  Sound(node', root', op', pend, lv, lo, hi)
<1>0. PICK o : o = [Idle EXCEPT !.pc = "header", !.kind = kind, !.entry = e]
  OBVIOUS
<1>1. /\ IsCall(o) /\ o.pc = "header" /\ o.kind = kind /\ o.entry = e /\ o.header = "none"
      /\ o.read = NoPage /\ o.writes = <<>> /\ o.page = NoPage
  BY <1>0 DEF Idle, IsCall, NoPage
<1>2. Goto(t, o) /\ op[t].pc = "idle" /\ UNCHANGED <<root, node>>
  BY <1>0 DEF Call
<1>3. WrittenBy(o) = {}
  BY <1>1, SetOfEmpty DEF WrittenBy
<1>4. Stage(node, root, pend, lv, lo, hi, o)
  BY <1>1 DEF Stage, AtHeader, Bare, Unwritten
<1>5. ASSUME NEW u \in Thread PROVE KindsApart(kind, op[u].kind)
  <2>1. op[u].kind = "none" \/ {kind, op[u].kind} \in MayOverlap
    BY DEF Call
  <2>2. {"remove", "get"} \notin MayOverlap /\ {"remove", "scan"} \notin MayOverlap
    BY DEF LookupsApart
  <2>3. {"get", "remove"} \notin MayOverlap /\ {"scan", "remove"} \notin MayOverlap
    <3>1. {"get", "remove"} = {"remove", "get"} /\ {"scan", "remove"} = {"remove", "scan"}
      OBVIOUS
    <3> QED
      BY <3>1, <2>2
  <2> QED
    BY <2>1, <2>2, <2>3 DEF KindsApart, Lookups
<1>6. Onward(op, t, {}, o)
  BY <1>1, <1>3, <1>5 DEF Onward
<1> QED
  BY <1>1, <1>2, <1>4, <1>6, WalkedTo

LEMMA LatchHeaderKept ==
  ASSUME NEW pend, NEW lv, NEW lo, NEW hi, Sound(node, root, op, pend, lv, lo, hi),
         NEW t \in Thread, LatchHeader(t)
  PROVE  Sound(node', root', op', pend, lv, lo, hi)
<1> DEFINE o == op[t]
<1>1. o.pc = "header" /\ \A u \in Thread \ {t} : op[u].header # "write"
  <2>1. o.pc = "header"
    BY DEF LatchHeader, Granted
  <2>2. Wants(t) = [page |-> Header, mode |-> "read"]
    BY <2>1, WantsAt
  <2> QED
    BY <2>1, <2>2, GrantedFor DEF LatchHeader
<1>2. UNCHANGED <<root, node>>
  BY DEF LatchHeader
<1>3. Tree(node, root, pend, lv, lo, hi) /\ IsCall(o) /\ AtHeader(o)
  BY <1>1, Now, StageOf
<1>4. Unwritten(o) /\ o.read = NoPage /\ o.entry \in Entry /\ o.kind \in Updates \cup Lookups
      /\ o.header = "none" /\ o.writes = <<>> /\ o.page = NoPage
  BY <1>3 DEF AtHeader, Bare, Unwritten
<1>5. CASE root = INVALID_PAGE_ID
  <2>1. CASE o.kind = "insert"
    <3>0. PICK o2 : o2 = [o EXCEPT !.pc = "header_w"]
      OBVIOUS
    <3>1. Goto(t, o2)
      BY <1>5, <2>1, <3>0 DEF LatchHeader
    <3>2. /\ IsCall(o2) /\ o2.pc = "header_w" /\ o2.kind = o.kind /\ o2.entry = o.entry
          /\ o2.writes = <<>> /\ o2.page = NoPage /\ o2.read = NoPage /\ o2.header = "none"
      BY <1>3, <1>4, <3>0 DEF IsCall
    <3>3. WrittenBy(o2) = {}
      BY <3>2, SetOfEmpty DEF WrittenBy
    <3>4. Stage(node, root, pend, lv, lo, hi, o2)
      BY <1>4, <2>1, <3>2 DEF Stage, AtHeader, Bare, Unwritten, Updates
    <3>5. Onward(op, t, {}, o2)
      BY <3>2, <3>3 DEF Onward
    <3> QED
      BY <1>1, <1>2, <3>1, <3>2, <3>4, <3>5, WalkedTo
  <2>2. CASE o.kind = "remove"
    <3>1. Finish(t, <<"not_found", <<>>>>)
      BY <1>5, <2>2 DEF LatchHeader
    <3> QED
      BY <1>1, <1>2, <3>1, JustReturned
  <2>3. CASE o.kind \in Lookups
    <3>1. Finish(t, <<"values", <<>>>>)
      BY <1>5, <2>3 DEF LatchHeader, Lookups
    <3> QED
      BY <1>1, <1>2, <3>1, JustReturned
  <2> QED
    BY <1>4, <2>1, <2>2, <2>3 DEF Updates
<1>6. CASE root # INVALID_PAGE_ID
  <2> DEFINE x == IF o.kind = "get" THEN "root_id" ELSE "root"
             h == IF o.kind = "get" THEN "none" ELSE "read"
  <2>0. PICK o2 : o2 = [o EXCEPT !.pc = x, !.root = root, !.header = h]
    OBVIOUS
  <2>1. Goto(t, o2)
    BY <1>6, <2>0 DEF LatchHeader
  <2>2. /\ IsCall(o2) /\ o2.pc = x /\ o2.kind = o.kind /\ o2.entry = o.entry
        /\ o2.writes = <<>> /\ o2.page = NoPage /\ o2.read = NoPage /\ o2.header = h
        /\ o2.root = root
    <3> HIDE DEF x, h
    <3> QED
      BY <1>3, <1>4, <2>0 DEF IsCall
  <2>3. root \in Pages(node) /\ root # NoPage
    BY <1>3, <1>6 DEF Tree, Typed, NoPage
  <2>4. WrittenBy(o2) = {}
    BY <2>2, SetOfEmpty DEF WrittenBy
  <2>5. CASE o.kind \in Lookups
    <3>1. Looking(node, lv, o2) /\ o2.pc \in {"root", "root_id"}
      BY <1>4, <2>2, <2>3, <2>5 DEF Looking, Unwritten
    <3>2. Stage(node, root, pend, lv, lo, hi, o2)
      BY <3>1 DEF Stage, LookupStages
    <3>3. Onward(op, t, {}, o2)
      BY <1>1, <2>2, <2>4 DEF Onward
    <3> QED
      BY <1>1, <1>2, <2>1, <2>2, <3>2, <3>3, WalkedTo
  <2>6. CASE o.kind \in Updates
    <3>1. Descending(node, root, lv, lo, hi, o2) /\ o2.pc = "root"
      BY <1>4, <2>2, <2>3, <2>6 DEF Descending, Unwritten, Updates
    <3>2. Stage(node, root, pend, lv, lo, hi, o2)
      BY <3>1 DEF Stage
    <3>3. Onward(op, t, {}, o2)
      BY <1>1, <2>2, <2>4 DEF Onward
    <3> QED
      BY <1>1, <1>2, <2>1, <2>2, <3>2, <3>3, WalkedTo
  <2> QED
    BY <1>4, <2>5, <2>6
<1> QED
  BY <1>5, <1>6

LEMMA LatchRootKept ==
  ASSUME EntriesBounded,
         NEW pend, NEW lv, NEW lo, NEW hi, Sound(node, root, op, pend, lv, lo, hi),
         NEW t \in Thread, LatchRoot(t)
  PROVE  Sound(node', root', op', pend, lv, lo, hi)
<1> DEFINE o == op[t]
           p == o.root
<1>1. o.pc = "root" /\ \A u \in Thread \ {t} : p \notin WrittenBy(op[u])
  <2>1. o.pc = "root"
    BY DEF LatchRoot, Granted
  <2>2. Wants(t) = [page |-> p, mode |-> "read"]
    BY <2>1, WantsAt
  <2> QED
    BY <2>1, <2>2, GrantedFor DEF LatchRoot
<1>2. UNCHANGED <<root, node>>
  BY DEF LatchRoot
<1>3. /\ Tree(node, root, pend, lv, lo, hi) /\ IsCall(o)
      /\ Looking(node, lv, o) \/ Descending(node, root, lv, lo, hi, o)
  BY <1>1, Now, StageOf
<1>4. Unwritten(o) /\ o.writes = <<>> /\ o.page = NoPage /\ WrittenBy(o) = {}
  BY <1>3, SetOfEmpty DEF Looking, Descending, Unwritten, WrittenBy
<1>5. CASE Looking(node, lv, o)
  <2>1. o.kind \in Lookups /\ o.entry \in Entry /\ p \in Pages(node)
    BY <1>1, <1>5 DEF Looking
  <2>2. PICK o2 : o2 = [o EXCEPT !.pc = "search", !.read = p, !.header = "none"]
    OBVIOUS
  <2>3. Goto(t, o2)
    BY <2>1, <2>2 DEF LatchRoot, Lookups
  <2>4. /\ IsCall(o2) /\ o2.pc = "search" /\ o2.kind = o.kind /\ o2.entry = o.entry
        /\ o2.writes = o.writes /\ o2.page = o.page /\ o2.read = p /\ o2.header = "none"
    BY <1>3, <2>2 DEF IsCall
  <2>5. Looking(node, lv, o2)
    BY <1>4, <2>1, <2>4 DEF Looking, Unwritten
  <2>6. Stage(node, root, pend, lv, lo, hi, o2)
    BY <2>4, <2>5 DEF Stage, LookupStages
  <2>7. Onward(op, t, {}, o2)
    BY <1>1, <2>4 DEF Onward, WrittenBy
  <2> QED
    BY <1>1, <1>2, <2>3, <2>4, <2>6, <2>7, WalkedTo
<1>6. CASE Descending(node, root, lv, lo, hi, o)
  <2>1. /\ o.kind \in Updates /\ o.entry \in Entry /\ o.header = "read" /\ p = root
        /\ root # NoPage /\ o.read = NoPage
    BY <1>1, <1>6 DEF Descending
  <2>2. p \in Pages(node) /\ p \in Page
    BY <1>3, <2>1 DEF Tree, Typed, Pages
  <2>3. CASE node[p].kind = "leaf"
    <3>1. PICK o2 : o2 = [o EXCEPT !.pc = "leaf", !.target = p]
      OBVIOUS
    <3>2. Goto(t, o2)
      BY <2>1, <2>3, <3>1 DEF LatchRoot, Updates
    <3>3. /\ IsCall(o2) /\ o2.pc = "leaf" /\ o2.kind = o.kind /\ o2.entry = o.entry
          /\ o2.writes = o.writes /\ o2.page = o.page /\ o2.read = o.read
          /\ o2.header = o.header /\ o2.root = o.root /\ o2.target = p
      BY <1>3, <3>1 DEF IsCall
    <3>4. lv[p] = 0
      BY <1>3, <2>2, <2>3, Lowest
    <3>5. Descending(node, root, lv, lo, hi, o2)
      BY <1>4, <2>1, <3>3, <3>4 DEF Descending, Unwritten
    <3>6. Stage(node, root, pend, lv, lo, hi, o2)
      BY <3>3, <3>5 DEF Stage
    <3>7. Onward(op, t, {}, o2)
      BY <2>1, <3>3 DEF Onward, WrittenBy
    <3> QED
      BY <1>1, <1>2, <3>2, <3>3, <3>6, <3>7, WalkedTo
  <2>4. CASE node[p].kind # "leaf"
    <3>1. PICK o2 : o2 = [o EXCEPT !.pc = "descend", !.read = p]
      OBVIOUS
    <3>2. Goto(t, o2)
      BY <2>1, <2>4, <3>1 DEF LatchRoot, Updates
    <3>3. /\ IsCall(o2) /\ o2.pc = "descend" /\ o2.kind = o.kind /\ o2.entry = o.entry
          /\ o2.writes = o.writes /\ o2.page = o.page /\ o2.read = p
          /\ o2.header = o.header /\ o2.root = o.root
      BY <1>3, <3>1 DEF IsCall
    <3>4. node[p].kind = "internal"
      BY <1>3, <2>2, <2>4, Lowest
    <3>5. pend[p] = NoPage
      BY <1>1, <2>2, Whole
    <3>6. Within(lo, hi, p, o.entry)
      <4>1. lo[p] = Bottom /\ Ends(pend, hi)[p] = Ceiling
        BY <1>3, <2>1 DEF Tree, Rooted
      <4>2. hi[p] = Ceiling
        BY <2>2, <3>5, <4>1, EndsAt
      <4>3. Bottom \in Int /\ Ceiling \in Int /\ Rank(o.entry) \in Int
            /\ Bottom < Rank(o.entry) /\ Rank(o.entry) < Ceiling
        BY <2>1, Ranked
      <4> QED
        BY <2>1, <4>1, <4>2, <4>3 DEF Within
    <3>7. Descending(node, root, lv, lo, hi, o2)
      BY <1>4, <2>1, <2>2, <3>3, <3>4, <3>6 DEF Descending, Unwritten
    <3>8. Stage(node, root, pend, lv, lo, hi, o2)
      BY <3>3, <3>7 DEF Stage
    <3>9. Onward(op, t, {}, o2)
      BY <1>1, <2>1, <3>3 DEF Onward, WrittenBy
    <3> QED
      BY <1>1, <1>2, <3>2, <3>3, <3>8, <3>9, WalkedTo
  <2> QED
    BY <2>3, <2>4
<1> QED
  BY <1>3, <1>5, <1>6

LEMMA DescendKept ==
  ASSUME EntriesBounded,
         NEW pend, NEW lv, NEW lo, NEW hi, Sound(node, root, op, pend, lv, lo, hi),
         NEW t \in Thread, Descend(t)
  PROVE  Sound(node', root', op', pend, lv, lo, hi)
<1> DEFINE o == op[t]
           p == o.read
           c == ChosenChild(node, p, o.entry)
<1>1. o.pc = "descend"
  BY DEF Descend, Granted
<1>2. Wants(t) = [page |-> c, mode |-> "read"]
  BY <1>1, WantsAt
<1>3. \A u \in Thread \ {t} : c \notin WrittenBy(op[u])
  BY <1>2, GrantedFor DEF Descend
<1>4. /\ Tree(node, root, pend, lv, lo, hi) /\ IsCall(o) /\ Stage(node, root, pend, lv, lo, hi, o)
      /\ Descending(node, root, lv, lo, hi, o)
  BY <1>1, Now, StageOf
<1>5. /\ Unwritten(o) /\ o.entry \in Entry /\ o.kind \in Updates
      /\ p \in Page /\ node[p].kind = "internal" /\ Within(lo, hi, p, o.entry)
      /\ o.header # "none" => o.header = "read" /\ o.root = root /\ root # NoPage
  BY <1>1, <1>4 DEF Descending
<1>6. /\ ChildOf(node, c, p) /\ c \in Page /\ c \in Pages(node)
      /\ pend[c] = NoPage => Within(lo, hi, c, o.entry)
  BY <1>4, <1>5, ChildChosen
<1>7. UNCHANGED <<root, node>> /\ Wants(t).page = c
  BY <1>2 DEF Descend
<1>8. lv[c] + 1 = lv[p] /\ lv[c] \in Nat
  BY <1>4, <1>6, ChildRange
<1>9. ASSUME NEW u \in Thread \ {t} PROVE p \notin WrittenBy(op[u])
  <2>1. Apart(op[u], op[t])
    BY DEF Sound
  <2> QED
    BY <2>1 DEF Apart
<1> HIDE DEF c
<1>10. CASE node[c].kind = "leaf"
  <2>1. PICK o2 : o2 = [o EXCEPT !.pc = "leaf", !.target = c]
    OBVIOUS
  <2>2. Goto(t, o2)
    BY <1>7, <1>10, <2>1 DEF Descend
  <2>3. /\ IsCall(o2) /\ o2.pc = "leaf" /\ o2.kind = o.kind /\ o2.entry = o.entry
        /\ o2.writes = o.writes /\ o2.page = o.page /\ o2.read = o.read
        /\ o2.header = o.header /\ o2.root = o.root /\ o2.target = c
    BY <1>4, <2>1 DEF IsCall
  <2>4. lv[p] = 1
    <3>1. lv[c] = 0
      BY <1>4, <1>6, <1>10, Lowest
    <3> QED
      BY <1>8, <3>1
  <2>5. Descending(node, root, lv, lo, hi, o2)
    BY <1>5, <2>3, <2>4 DEF Descending, Unwritten, c
  <2>6. Stage(node, root, pend, lv, lo, hi, o2)
    BY <2>3, <2>5 DEF Stage
  <2>7. Onward(op, t, {}, o2)
    BY <1>9, <2>3 DEF Onward, WrittenBy
  <2> QED
    BY <1>1, <1>7, <2>2, <2>3, <2>6, <2>7, WalkedTo
<1>11. CASE node[c].kind # "leaf"
  <2>1. PICK o2 : o2 = [o EXCEPT !.read = c, !.header = "none"]
    OBVIOUS
  <2>2. Goto(t, o2)
    BY <1>7, <1>11, <2>1 DEF Descend
  <2>3. /\ IsCall(o2) /\ o2.pc = o.pc /\ o2.kind = o.kind /\ o2.entry = o.entry
        /\ o2.writes = o.writes /\ o2.page = o.page /\ o2.read = c
        /\ o2.header = "none" /\ o2.root = o.root
    BY <1>4, <2>1 DEF IsCall
  <2>4. node[c].kind = "internal" /\ pend[c] = NoPage
    BY <1>1, <1>3, <1>4, <1>6, <1>11, Lowest, Whole
  <2>5. Descending(node, root, lv, lo, hi, o2)
    BY <1>1, <1>5, <1>6, <2>3, <2>4 DEF Descending, Unwritten
  <2>6. Stage(node, root, pend, lv, lo, hi, o2)
    BY <1>1, <2>3, <2>5 DEF Stage
  <2>7. Onward(op, t, {}, o2)
    BY <1>3, <2>3 DEF Onward, WrittenBy
  <2> QED
    BY <1>1, <1>7, <2>2, <2>3, <2>6, <2>7, WalkedTo
<1> QED
  BY <1>10, <1>11

-----------------------------------------------------------------------------
(* Insert and remove at a leaf.                                            *)

LEMMA RetryKept ==
  ASSUME NEW pend, NEW lv, NEW lo, NEW hi, Sound(node, root, op, pend, lv, lo, hi),
         NEW t \in Thread, op[t].pc = "leaf", Retry(t), UNCHANGED <<root, node>>
  PROVE  Sound(node', root', op', pend, lv, lo, hi)
<1> DEFINE o == op[t]
<1>1. PICK o2 : o2 = [Idle EXCEPT !.pc = "header_w", !.kind = o.kind, !.entry = o.entry]
  OBVIOUS
<1>2. Goto(t, o2)
  BY <1>1 DEF Retry
<1>3. /\ IsCall(o2) /\ o2.pc = "header_w" /\ o2.kind = o.kind /\ o2.entry = o.entry
      /\ o2.writes = <<>> /\ o2.page = NoPage /\ o2.read = NoPage /\ o2.header = "none"
  BY <1>1 DEF Idle, IsCall, NoPage
<1>4. Descending(node, root, lv, lo, hi, o)
  BY Now, StageOf
<1>5. WrittenBy(o2) = {}
  BY <1>3, SetOfEmpty DEF WrittenBy
<1>6. Stage(node, root, pend, lv, lo, hi, o2)
  BY <1>3, <1>4 DEF Stage, AtHeader, Bare, Unwritten, Descending
<1>7. Onward(op, t, {}, o2)
  BY <1>3, <1>5 DEF Onward
<1> QED
  BY <1>2, <1>3, <1>6, <1>7, WalkedTo

\* A leaf that t has latched, and where its entry belongs.
LeafHeld(pend, lo, hi, t, p) ==
  /\ p \in Page /\ node[p].kind = "leaf"
  /\ p \in WrittenBy(op[t]) \/ (Alone(op, t, p) /\ \A z \in Page : pend[z] # p)
  /\ Within(lo, hi, p, op[t].entry)
  /\ op[t].kind \in Updates /\ op[t].pc # "split"

LEMMA LeafReached ==
  ASSUME EntriesBounded,
         NEW pend, NEW lv, NEW lo, NEW hi, Sound(node, root, op, pend, lv, lo, hi),
         NEW t \in Thread, Granted(t, "leaf")
  PROVE  LeafHeld(pend, lo, hi, t, op[t].target)
<1> DEFINE o == op[t]
           p == o.target
<1>1. o.pc = "leaf"
  BY DEF Granted
<1>2. Wants(t) = [page |-> p, mode |-> "write"]
  BY <1>1, WantsAt
<1>3. Alone(op, t, p)
  BY <1>2, GrantedFor
<1>4. Tree(node, root, pend, lv, lo, hi) /\ Descending(node, root, lv, lo, hi, o)
  BY <1>1, Now, StageOf
<1>5. o.entry \in Entry /\ o.kind \in Updates
  BY <1>4 DEF Descending
<1>6. CASE o.read = NoPage /\ o.header = "read" /\ p = root /\ lv[root] = 0
  <2>1. p \in Pages(node) /\ p \in Page /\ root # NoPage
    BY <1>4, <1>6 DEF Tree, Typed, Pages, Descending
  <2>2. node[p].kind = "leaf" /\ pend[p] = NoPage /\ \A z \in Page : pend[z] # p
    BY <1>1, <1>3, <1>4, <1>6, <2>1, Lowest, Whole, NotHalf DEF Alone
  <2>3. lo[p] = Bottom /\ Ends(pend, hi)[p] = Ceiling
    BY <1>4, <1>6, <2>1 DEF Tree, Rooted
  <2>4. hi[p] = Ceiling
    BY <2>1, <2>2, <2>3, EndsAt
  <2>5. Bottom \in Int /\ Ceiling \in Int /\ Rank(o.entry) \in Int
        /\ Bottom < Rank(o.entry) /\ Rank(o.entry) < Ceiling
    BY <1>5, Ranked
  <2>6. Within(lo, hi, p, o.entry)
    BY <1>5, <2>3, <2>4, <2>5 DEF Within
  <2> QED
    BY <1>1, <1>3, <1>5, <2>1, <2>2, <2>6 DEF LeafHeld
<1>7. CASE /\ o.read \in Page /\ node[o.read].kind = "internal" /\ lv[o.read] = 1
           /\ Within(lo, hi, o.read, o.entry) /\ p = ChosenChild(node, o.read, o.entry)
  <2>1. /\ ChildOf(node, p, o.read) /\ p \in Page /\ p \in Pages(node)
        /\ pend[p] = NoPage => Within(lo, hi, p, o.entry)
    BY <1>4, <1>7, ChildChosen
  <2>2. pend[p] = NoPage /\ \A z \in Page : pend[z] # p
    BY <1>1, <1>3, <2>1, Whole, NotHalf DEF Alone
  <2>3. lv[p] = 0
    <3>1. lv[p] + 1 = lv[o.read] /\ lv[p] \in Nat
      BY <1>4, <2>1, ChildRange
    <3> QED
      BY <3>1, <1>7
  <2>4. node[p].kind = "leaf"
    BY <1>4, <2>1, <2>3, Lowest
  <2> QED
    BY <1>1, <1>3, <1>5, <2>1, <2>2, <2>4 DEF LeafHeld
<1> QED
  BY <1>1, <1>4, <1>6, <1>7 DEF Descending

\* What is changed about a leaf that t has latched, when t returns.
LEMMA LeafChanged ==
  ASSUME NEW pend, NEW lv, NEW lo, NEW hi, Sound(node, root, op, pend, lv, lo, hi),
         NEW t \in Thread, NEW p, LeafHeld(pend, lo, hi, t, p), NEW n, n.kind = "leaf",
         Tree(Put(node, p, n), root, pend, lv, lo, hi),
         node' = [node EXCEPT ![p] = n], NEW a, Finish(t, a), UNCHANGED root
  PROVE  Sound(node', root', op', pend, lv, lo, hi)
<1> DEFINE G == IF p \in WrittenBy(op[t]) THEN {} ELSE {p}
<1>1. PICK o : o = Returning(a)
  OBVIOUS
<1>2. PICK nd2 : nd2 = Put(node, p, n)
  OBVIOUS
<1>3. p \in Page /\ op[t].pc # "split"
      /\ \A z \in G : z \in Page /\ Alone(op, t, z) /\ \A x \in Page : pend[x] # z
  BY DEF LeafHeld
<1>4. node \in [Page -> PageRecords]
  BY Now DEF Tree, Typed
<1>5. nd2[p].kind = "leaf" /\ \A z \in Page : z # p => nd2[z] = node[z]
  BY <1>2, <1>3, <1>4 DEF Put
<1>6. Pages(node) \subseteq Pages(nd2)
  <2> SUFFICES ASSUME NEW z \in Pages(node) PROVE z \in Pages(nd2)
    OBVIOUS
  <2>1. z \in Page /\ node[z].kind # "free"
    BY DEF Pages
  <2>2. nd2[z].kind # "free"
    BY <1>5, <2>1
  <2> QED
    BY <2>1, <2>2 DEF Pages
<1>7. \A z \in Page : z \notin WrittenBy(op[t]) /\ z \notin G =>
        nd2[z] = node[z] /\ lo[z] = lo[z] /\ hi[z] = hi[z]
  BY <1>5
<1> HIDE DEF G
<1>8. Sound(nd2, root, Put(op, t, o), pend, lv, lo, hi)
  BY <1>1, <1>2, <1>3, <1>6, <1>7, Changed
<1>9. op' = Put(op, t, o) /\ root' = root /\ node' = nd2
  <2>1. Goto(t, o)
    BY <1>1 DEF Finish, Returning
  <2> QED
    BY <1>2, <2>1, Gone DEF Put
<1> QED
  BY <1>8, <1>9

LEMMA Still ==
  ASSUME NEW pend, NEW lv, NEW lo, NEW hi, Sound(node, root, op, pend, lv, lo, hi),
         UNCHANGED <<root, node, op>>
  PROVE  Sound(node', root', op', pend, lv, lo, hi)
<1>1. node' = node /\ root' = root /\ op' = op
  OBVIOUS
<1> QED
  BY <1>1

LEMMA PresentKept ==
  ASSUME NEW pend, NEW lv, NEW lo, NEW hi, Sound(node, root, op, pend, lv, lo, hi),
         NEW t \in Thread, NEW p, LeafHeld(pend, lo, hi, t, p), InsertPresent(t, p)
  PROVE  Sound(node', root', op', pend, lv, lo, hi)
<1>1. p \in Page /\ node[p].kind = "leaf" /\ op[t].pc # "split"
  BY DEF LeafHeld
<1>2. node[p] \in LeafRecords
  BY <1>1, Now, LeafRecord
<1>3. \A i : ~is_idx_tombstoned(node[p], i)
  BY <1>2, LeafFields
<1>4. Finish(t, <<"duplicate", <<>>>>) /\ UNCHANGED <<root, node>>
  BY <1>3 DEF InsertPresent
<1> QED
  BY <1>1, <1>4, JustReturned

LEMMA GainedKept ==
  ASSUME EntriesBounded,
         NEW pend, NEW lv, NEW lo, NEW hi, Sound(node, root, op, pend, lv, lo, hi),
         NEW t \in Thread, NEW p, LeafHeld(pend, lo, hi, t, p), ~HasEntry(node[p], op[t].entry),
         node' = [node EXCEPT ![p] = WithEntry(node[p], op[t].entry)],
         NEW a, Finish(t, a), UNCHANGED root
  PROVE  Sound(node', root', op', pend, lv, lo, hi)
<1> DEFINE e == op[t].entry
<1>1. PICK n : n = WithEntry(node[p], e)
  OBVIOUS
<1>2. p \in Page /\ node[p].kind = "leaf" /\ e \in Entry /\ lo[p] <= Rank(e) /\ Rank(e) < hi[p]
  BY DEF LeafHeld, Within
<1>3. Tree(node, root, pend, lv, lo, hi)
  BY Now
<1>4. /\ n = LeafWith(n.entries, node[p].next)
      /\ Tree(Put(node, p, n), root, pend, lv, lo, hi)
  BY <1>1, <1>2, <1>3, LeafGains
<1>5. n.kind = "leaf"
  BY <1>4 DEF LeafWith
<1>6. node' = [node EXCEPT ![p] = n]
  BY <1>1
<1> QED
  BY <1>4, <1>5, <1>6, LeafChanged

LEMMA LostKept ==
  ASSUME EntriesBounded, NoTombstones,
         NEW pend, NEW lv, NEW lo, NEW hi, Sound(node, root, op, pend, lv, lo, hi),
         NEW t \in Thread, NEW p, LeafHeld(pend, lo, hi, t, p), ~Absent(node[p], op[t].entry),
         node' = [node EXCEPT ![p] = WithoutEntry(node[p], op[t].entry)],
         NEW a, Finish(t, a), UNCHANGED root
  PROVE  Sound(node', root', op', pend, lv, lo, hi)
<1> DEFINE e == op[t].entry
<1>1. PICK n : n = WithoutEntry(node[p], e)
  OBVIOUS
<1>2. p \in Page /\ node[p].kind = "leaf" /\ e \in Entry /\ TombCap = 0
  BY DEF LeafHeld, Within, NoTombstones
<1>3. Tree(node, root, pend, lv, lo, hi)
  BY Now
<1>4. n.kind = "leaf" /\ Tree(Put(node, p, n), root, pend, lv, lo, hi)
  BY <1>1, <1>2, <1>3, LeafLoses
<1>5. node' = [node EXCEPT ![p] = n]
  BY <1>1
<1> QED
  BY <1>4, <1>5, LeafChanged

LEMMA NeverEvicts ==
  ASSUME NoTombstones
  PROVE  \A leaf, e : ~DeletePanics(leaf, e)
BY DEF NoTombstones, DeletePanics

LEMMA InsertOptimisticKept ==
  ASSUME EntriesBounded,
         NEW pend, NEW lv, NEW lo, NEW hi, Sound(node, root, op, pend, lv, lo, hi),
         NEW t \in Thread, InsertOptimistic(t)
  PROVE  Sound(node', root', op', pend, lv, lo, hi)
<1> DEFINE p == op[t].target
           e == op[t].entry
<1>1. Granted(t, "leaf") /\ op[t].pc = "leaf"
  BY DEF InsertOptimistic, Granted
<1>2. LeafHeld(pend, lo, hi, t, p)
  BY <1>1, LeafReached
<1>3. CASE InsertPresent(t, p)
  BY <1>2, <1>3, PresentKept
<1>4. CASE /\ ~HasEntry(node[p], e)
           /\ node' = [node EXCEPT ![p] = WithEntry(node[p], e)]
           /\ Finish(t, Ok) /\ UNCHANGED <<root, panicked>>
  BY <1>2, <1>4, GainedKept
<1>5. CASE Retry(t) /\ UNCHANGED <<root, node, panicked>>
  BY <1>1, <1>5, RetryKept
<1> QED
  BY <1>3, <1>4, <1>5 DEF InsertOptimistic

LEMMA RemoveOptimisticKept ==
  ASSUME EntriesBounded, NoTombstones,
         NEW pend, NEW lv, NEW lo, NEW hi, Sound(node, root, op, pend, lv, lo, hi),
         NEW t \in Thread, RemoveOptimistic(t)
  PROVE  Sound(node', root', op', pend, lv, lo, hi)
<1> DEFINE p == op[t].target
           e == op[t].entry
<1>1. Granted(t, "leaf") /\ op[t].pc = "leaf"
  BY DEF RemoveOptimistic, Granted
<1>2. LeafHeld(pend, lo, hi, t, p)
  BY <1>1, LeafReached
<1>3. CASE Finish(t, <<"not_found", <<>>>>) /\ UNCHANGED <<root, node, panicked>>
  BY <1>1, <1>3, JustReturned
<1>4. CASE /\ ~Absent(node[p], e)
           /\ node' = [node EXCEPT ![p] = WithoutEntry(node[p], e)]
           /\ Finish(t, Ok) /\ UNCHANGED <<root, panicked>>
  BY <1>2, <1>4, LostKept
<1>5. CASE Retry(t) /\ UNCHANGED <<root, node, panicked>>
  BY <1>1, <1>5, RetryKept
<1>6. ~DeletePanics(node[p], e)
  BY NeverEvicts
<1> QED
  BY <1>3, <1>4, <1>5, <1>6 DEF RemoveOptimistic

-----------------------------------------------------------------------------
(* The way down with write latches.                                        *)

LEMMA LatchHeaderForWriteKept ==
  ASSUME NEW pend, NEW lv, NEW lo, NEW hi, Sound(node, root, op, pend, lv, lo, hi),
         NEW t \in Thread, LatchHeaderForWrite(t)
  PROVE  Sound(node', root', op', pend, lv, lo, hi)
<1> DEFINE o == op[t]
<1>1. o.pc = "header_w"
  BY DEF LatchHeaderForWrite, Granted
<1>2. \A u \in Thread \ {t} : op[u].header = "none"
  <2>1. Wants(t) = [page |-> Header, mode |-> "write"]
    BY <1>1, WantsAt
  <2>2. \A u \in Thread \ {t} : op[u].header # "write" /\ op[u].header # "read"
    BY <2>1, GrantedFor DEF LatchHeaderForWrite
  <2>3. \A u \in Thread : op[u].header \in {"none", "read", "write"}
    BY Now, HeaderModes
  <2> QED
    BY <2>2, <2>3
<1>3. Tree(node, root, pend, lv, lo, hi) /\ IsCall(o) /\ AtHeader(o)
  BY <1>1, Now, StageOf
<1>4. Unwritten(o) /\ o.read = NoPage /\ o.entry \in Entry /\ o.kind \in Updates
      /\ o.writes = <<>> /\ o.page = NoPage
  BY <1>1, <1>3 DEF AtHeader, Bare, Unwritten
<1>5. CASE root = INVALID_PAGE_ID
  <2>1. UNCHANGED <<root, node, op>>
    BY <1>5 DEF LatchHeaderForWrite, Panic
  <2> QED
    BY <2>1, Still
<1>6. CASE root # INVALID_PAGE_ID
  <2>1. PICK o2 : o2 = [o EXCEPT !.pc = "root_w", !.root = root, !.header = "write"]
    OBVIOUS
  <2>2. Goto(t, o2) /\ UNCHANGED <<root, node>>
    BY <1>6, <2>1 DEF LatchHeaderForWrite
  <2>3. /\ IsCall(o2) /\ o2.pc = "root_w" /\ o2.kind = o.kind /\ o2.entry = o.entry
        /\ o2.writes = o.writes /\ o2.page = o.page /\ o2.read = o.read
        /\ o2.header = "write" /\ o2.root = root
    BY <1>3, <2>1 DEF IsCall
  <2>4. AtRootForWrite(root, o2)
    BY <1>4, <1>6, <2>3 DEF AtRootForWrite, Unwritten, NoPage
  <2>5. Stage(node, root, pend, lv, lo, hi, o2)
    BY <2>3, <2>4 DEF Stage
  <2>6. Onward(op, t, {}, o2)
    BY <1>2, <1>4, <2>3 DEF Onward, WrittenBy
  <2> QED
    BY <1>1, <2>2, <2>3, <2>5, <2>6, WalkedTo
<1> QED
  BY <1>5, <1>6

LEMMA TopRange ==
  ASSUME EntriesBounded,
         NEW nd, NEW top, NEW pend, NEW lv, NEW lo, NEW hi, Tree(nd, top, pend, lv, lo, hi),
         top # NoPage, pend[top] = NoPage, NEW e \in Entry
  PROVE  Within(lo, hi, top, e)
<1>1. top \in Page
  BY DEF Tree, Typed, Pages
<1>2. lo[top] = Bottom /\ Ends(pend, hi)[top] = Ceiling
  BY DEF Tree, Rooted
<1>3. hi[top] = Ceiling
  BY <1>1, <1>2, EndsAt
<1>4. Rank(e) \in Int /\ Bottom < Rank(e) /\ Rank(e) < Ceiling /\ Bottom \in Int
  BY Ranked
<1> QED
  BY <1>2, <1>3, <1>4 DEF Within

LEMMA LatchRootForWriteKept ==
  ASSUME EntriesBounded,
         NEW pend, NEW lv, NEW lo, NEW hi, Sound(node, root, op, pend, lv, lo, hi),
         NEW t \in Thread, LatchRootForWrite(t)
  PROVE  Sound(node', root', op', pend, lv, lo, hi)
<1> DEFINE o == op[t]
           p == o.root
           x == Below(p)
<1>1. o.pc = "root_w" /\ UNCHANGED <<root, node>>
  BY DEF LatchRootForWrite, Granted
<1>2. Alone(op, t, p)
  <2>1. Wants(t) = [page |-> p, mode |-> "write"]
    BY <1>1, WantsAt
  <2> QED
    BY <2>1, GrantedFor DEF LatchRootForWrite
<1>3. Tree(node, root, pend, lv, lo, hi) /\ IsCall(o) /\ AtRootForWrite(root, o)
  BY <1>1, Now, StageOf
<1>4. /\ o.read = NoPage /\ o.entry \in Entry /\ o.kind \in Updates /\ o.page = NoPage
      /\ o.header = "write" /\ p = root /\ root # NoPage
  BY <1>3 DEF AtRootForWrite, Unwritten
<1>5. p \in Pages(node) /\ p \in Page
  BY <1>3, <1>4 DEF Tree, Typed, Pages
<1>6. pend[p] = NoPage /\ \A z \in Page : pend[z] # p
  BY <1>1, <1>2, <1>4, <1>5, Whole, NotHalf DEF Alone
<1>7. x \in {"at_leaf", "descend_w"} /\ node[p].kind = IF x = "at_leaf" THEN "leaf" ELSE "internal"
  <2>1. node[p].kind = "leaf" \/ node[p].kind = "internal"
    BY <1>3, <1>5, Lowest
  <2> QED
    BY <2>1 DEF Below
<1> HIDE DEF x
<1>8. PICK w : w = <<p>>
  OBVIOUS
<1>9. Path(node, lv, w) /\ Last(w) = p /\ w[1] = p /\ ToSet(w) = {p}
  <2>1. lv[p] \in Nat
    BY <1>3, <1>5 DEF Tree, Typed
  <2> QED
    BY <1>5, <1>8, <2>1, PathBegun
<1>10. PICK o2 : o2 = [o EXCEPT !.pc = x, !.writes = w]
  OBVIOUS
<1>11. Goto(t, o2)
  BY <1>8, <1>10 DEF LatchRootForWrite, x
<1>12. /\ IsCall(o2) /\ o2.pc = x /\ o2.kind = o.kind /\ o2.entry = o.entry
       /\ o2.writes = w /\ o2.page = o.page /\ o2.read = o.read
       /\ o2.header = o.header /\ o2.root = p
  BY <1>3, <1>10 DEF IsCall
<1>13. OnPath(node, root, lv, o2, w)
  BY <1>4, <1>5, <1>9, <1>12 DEF OnPath
<1>14. DescendingForWrite(node, root, lv, lo, hi, o2)
  <2>1. Within(lo, hi, p, o.entry)
    BY <1>3, <1>4, <1>6, TopRange
  <2> QED
    BY <1>4, <1>7, <1>9, <1>12, <1>13, <2>1 DEF DescendingForWrite
<1>15. Stage(node, root, pend, lv, lo, hi, o2)
  BY <1>7, <1>12, <1>14 DEF Stage
<1>16. Onward(op, t, {p}, o2)
  BY <1>4, <1>9, <1>12 DEF Onward, WrittenBy
<1>17. \A z \in {p} : z \in Page /\ Alone(op, t, z) /\ \A y \in Page : pend[y] # z
  BY <1>2, <1>5, <1>6
<1> QED
  BY <1>1, <1>11, <1>12, <1>15, <1>16, <1>17, WalkedTo

LEMMA DescendForWriteKept ==
  ASSUME EntriesBounded,
         NEW pend, NEW lv, NEW lo, NEW hi, Sound(node, root, op, pend, lv, lo, hi),
         NEW t \in Thread, DescendForWrite(t)
  PROVE  Sound(node', root', op', pend, lv, lo, hi)
<1> DEFINE o == op[t]
           w == o.writes
           p == Last(w)
           c == ChosenChild(node, p, o.entry)
           x == Below(c)
<1>1. o.pc = "descend_w" /\ UNCHANGED <<root, node>>
  BY DEF DescendForWrite, Granted
<1>2. Wants(t) = [page |-> c, mode |-> "write"]
  BY <1>1, WantsAt
<1>3. Alone(op, t, c) /\ Wants(t).page = c
  BY <1>2, GrantedFor DEF DescendForWrite
<1>4. /\ Tree(node, root, pend, lv, lo, hi) /\ IsCall(o)
      /\ DescendingForWrite(node, root, lv, lo, hi, o)
  BY <1>1, Now, StageOf
<1>5. /\ o.page = NoPage /\ o.kind \in Updates /\ OnPath(node, root, lv, o, w)
      /\ Within(lo, hi, p, o.entry) /\ node[p].kind = "internal"
      /\ o.kind = "remove" /\ o.header = "none" => is_delete_safe(node[w[1]])
  BY <1>1, <1>4 DEF DescendingForWrite
<1>6. /\ Path(node, lv, w) /\ o.entry \in Entry /\ o.read = NoPage /\ o.root \in Page
      /\ \/ o.header = "write" /\ o.root = root /\ w[1] = root
         \/ o.header = "none" /\ lv[w[1]] < lv[o.root]
  BY <1>5 DEF OnPath
<1>7. w \in Seq(Page) /\ w # <<>> /\ p \in Pages(node) /\ p \in Page
  BY <1>4, <1>6, PathLevels DEF Pages
<1>8. /\ ChildOf(node, c, p) /\ c \in Page /\ c \in Pages(node)
      /\ pend[c] = NoPage => Within(lo, hi, c, o.entry)
  BY <1>4, <1>5, <1>7, ChildChosen
<1>9. pend[c] = NoPage /\ \A z \in Page : pend[z] # c
  BY <1>1, <1>3, <1>8, Whole, NotHalf DEF Alone
<1>10. x \in {"at_leaf", "descend_w"} /\ node[c].kind = IF x = "at_leaf" THEN "leaf" ELSE "internal"
  <2>1. node[c].kind = "leaf" \/ node[c].kind = "internal"
    BY <1>4, <1>8, Lowest
  <2> QED
    BY <2>1 DEF Below
<1>11. lv[c] < lv[o.root]
  <2>1. lv[c] + 1 = lv[p] /\ lv[c] \in Nat /\ lv[p] \in Nat
    BY <1>4, <1>8, ChildRange
  <2>2. lv[p] <= lv[w[1]] /\ lv[w[1]] \in Nat
    <3>1. p \in ToSet(w) /\ w[1] \in ToSet(w)
      BY <1>7, LastAndFront
    <3> QED
      BY <1>4, <1>6, <3>1, PathLevels
  <2>3. lv[o.root] \in Nat
    BY <1>4, <1>6 DEF Tree, Typed
  <2>4. lv[w[1]] <= lv[o.root]
    BY <1>6, <2>2, <2>3
  <2> QED
    BY <2>1, <2>2, <2>3, <2>4
<1>12. \A z \in {c} : z \in Page /\ Alone(op, t, z) /\ \A y \in Page : pend[y] # z
  BY <1>3, <1>8, <1>9
<1> HIDE DEF c, x, p
<1>13. CASE Safe(o.kind, node[c])
  <2>1. PICK v : v = <<c>>
    OBVIOUS
  <2>2. Path(node, lv, v) /\ Last(v) = c /\ v[1] = c /\ ToSet(v) = {c}
    <3>1. lv[c] \in Nat
      BY <1>4, <1>8 DEF Tree, Typed
    <3> QED
      BY <1>8, <2>1, <3>1, PathBegun
  <2>3. PICK o2 : o2 = [o EXCEPT !.pc = x, !.writes = v, !.header = "none"]
    OBVIOUS
  <2>4. Goto(t, o2)
    BY <1>3, <1>13, <2>1, <2>3 DEF DescendForWrite, x
  <2>5. /\ IsCall(o2) /\ o2.pc = x /\ o2.kind = o.kind /\ o2.entry = o.entry
        /\ o2.writes = v /\ o2.page = o.page /\ o2.read = o.read
        /\ o2.header = "none" /\ o2.root = o.root
    BY <1>4, <2>3 DEF IsCall
  <2>6. OnPath(node, root, lv, o2, v)
    BY <1>6, <1>11, <2>2, <2>5 DEF OnPath
  <2>7. o.kind = "remove" => is_delete_safe(node[c])
    BY <1>13 DEF Safe
  <2>8. DescendingForWrite(node, root, lv, lo, hi, o2)
    BY <1>5, <1>8, <1>9, <1>10, <2>2, <2>5, <2>6, <2>7 DEF DescendingForWrite
  <2>9. Stage(node, root, pend, lv, lo, hi, o2)
    BY <1>10, <2>5, <2>8 DEF Stage
  <2>10. Onward(op, t, {c}, o2)
    BY <1>5, <1>6, <2>2, <2>5 DEF Onward, WrittenBy
  <2> QED
    BY <1>1, <1>12, <2>4, <2>5, <2>9, <2>10, WalkedTo
<1>14. CASE ~Safe(o.kind, node[c])
  <2>1. PICK v : v = Append(w, c)
    OBVIOUS
  <2>2. /\ Path(node, lv, v) /\ Last(v) = c /\ v[1] = w[1]
        /\ ToSet(v) = ToSet(w) \cup {c}
    BY <1>4, <1>6, <1>7, <1>8, <2>1, PathExtended, LastAppended DEF p
  <2>3. PICK o2 : o2 = [o EXCEPT !.pc = x, !.writes = v]
    OBVIOUS
  <2>4. Goto(t, o2)
    BY <1>3, <1>14, <2>1, <2>3 DEF DescendForWrite, x
  <2>5. /\ IsCall(o2) /\ o2.pc = x /\ o2.kind = o.kind /\ o2.entry = o.entry
        /\ o2.writes = v /\ o2.page = o.page /\ o2.read = o.read
        /\ o2.header = o.header /\ o2.root = o.root
    BY <1>4, <2>3 DEF IsCall
  <2>6. OnPath(node, root, lv, o2, v)
    BY <1>6, <2>2, <2>5 DEF OnPath
  <2>7. DescendingForWrite(node, root, lv, lo, hi, o2)
    BY <1>5, <1>8, <1>9, <1>10, <2>2, <2>5, <2>6 DEF DescendingForWrite
  <2>8. Stage(node, root, pend, lv, lo, hi, o2)
    BY <1>10, <2>5, <2>7 DEF Stage
  <2>9. Onward(op, t, {c}, o2)
    BY <1>5, <1>6, <2>2, <2>5 DEF Onward, WrittenBy
  <2> QED
    BY <1>1, <1>12, <2>4, <2>5, <2>8, <2>9, WalkedTo
<1> QED
  BY <1>13, <1>14

-----------------------------------------------------------------------------
(* Lookups.                                                                *)

LEMMA PinRootKept ==
  ASSUME NEW pend, NEW lv, NEW lo, NEW hi, Sound(node, root, op, pend, lv, lo, hi),
         NEW t \in Thread, PinRoot(t)
  PROVE  Sound(node', root', op', pend, lv, lo, hi)
<1> DEFINE o == op[t]
<1>1. o.pc = "root_id" /\ UNCHANGED <<root, node>>
  BY DEF PinRoot
<1>2. IsCall(o) /\ Looking(node, lv, o)
  BY <1>1, Now, StageOf DEF LookupStages
<1>3. PICK o2 : o2 = [o EXCEPT !.pc = "root"]
  OBVIOUS
<1>4. Goto(t, o2)
  BY <1>3 DEF PinRoot
<1>5. /\ IsCall(o2) /\ o2.pc = "root" /\ o2.kind = o.kind /\ o2.entry = o.entry
      /\ o2.writes = o.writes /\ o2.page = o.page /\ o2.read = o.read
      /\ o2.header = o.header /\ o2.root = o.root
  BY <1>2, <1>3 DEF IsCall
<1>6. Looking(node, lv, o2)
  BY <1>1, <1>2, <1>5 DEF Looking, Unwritten
<1>7. Stage(node, root, pend, lv, lo, hi, o2)
  BY <1>5, <1>6 DEF Stage
<1>8. Onward(op, t, {}, o2)
  BY <1>1, <1>2, <1>5 DEF Onward, WrittenBy, Looking
<1> QED
  BY <1>1, <1>4, <1>5, <1>7, <1>8, WalkedTo

LEMMA SearchKept ==
  ASSUME EntriesBounded,
         NEW pend, NEW lv, NEW lo, NEW hi, Sound(node, root, op, pend, lv, lo, hi),
         NEW t \in Thread, Search(t)
  PROVE  Sound(node', root', op', pend, lv, lo, hi)
<1> DEFINE o == op[t]
           p == o.read
           i == find_child_idx(node[p], o.entry[1]) + 1
           c == node[p].children[i]
<1>1. o.pc = "search" /\ node[p].kind # "leaf"
  BY DEF Search, IsLeaf
<1>2. Tree(node, root, pend, lv, lo, hi) /\ IsCall(o) /\ Looking(node, lv, o)
  BY <1>1, Now, StageOf DEF LookupStages
<1>3. /\ p \in Pages(node) /\ p \in Page /\ o.entry \in Entry /\ Unwritten(o)
      /\ o.header = "none" /\ o.kind \in Lookups
  BY <1>1, <1>2 DEF Looking, Pages
<1>4. node[p].kind = "internal" /\ node[p] # Free
  BY <1>1, <1>2, <1>3, Lowest DEF Pages, Free
<1>5. Wants(t) = [page |-> c, mode |-> "read"]
  BY <1>1, <1>4, WantsAt DEF value_at
<1>6. Granted(t, "search") /\ Goto(t, [o EXCEPT !.read = c]) /\ UNCHANGED <<root, node>>
  <2>1. Granted(t, "search") /\ Goto(t, [o EXCEPT !.read = Wants(t).page])
        /\ UNCHANGED <<root, node>>
    BY <1>1, <1>4 DEF Search
  <2>2. Wants(t).page = c
    BY <1>5
  <2> QED
    BY <2>1, <2>2
<1>7. \A u \in Thread \ {t} : c \notin WrittenBy(op[u])
  BY <1>5, <1>6, GrantedFor
<1>8. c \in Pages(node)
  <2>1. /\ Row(node[p].children, node[p].seps, lo[p], hi[p], lv[p], Pages(node), lv, lo,
               Ends(pend, hi))
        /\ Len(node[p].children) = Len(node[p].seps) + 1 /\ Len(node[p].seps) \in Nat
    BY <1>2, <1>3, <1>4, Children DEF NodeOK
  <2>2. find_child_idx(node[p], o.entry[1]) \in 0 .. Len(node[p].seps)
    BY <1>3, <2>1, ChildLookedUp
  <2>3. i \in 1 .. Len(node[p].children)
    BY <2>1, <2>2
  <2> HIDE DEF i
  <2> QED
    BY <2>1, <2>3 DEF Row
<1> HIDE DEF c, i
<1>9. PICK o2 : o2 = [o EXCEPT !.read = c]
  OBVIOUS
<1>10. /\ IsCall(o2) /\ o2.pc = o.pc /\ o2.kind = o.kind /\ o2.entry = o.entry
       /\ o2.writes = o.writes /\ o2.page = o.page /\ o2.read = c
       /\ o2.header = o.header
  BY <1>2, <1>9 DEF IsCall
<1>11. Looking(node, lv, o2)
  BY <1>1, <1>3, <1>8, <1>10 DEF Looking, Unwritten
<1>12. Stage(node, root, pend, lv, lo, hi, o2)
  BY <1>1, <1>10, <1>11 DEF Stage, LookupStages
<1>13. Onward(op, t, {}, o2)
  BY <1>7, <1>10 DEF Onward, WrittenBy
<1>14. Goto(t, o2) /\ UNCHANGED <<root, node>>
  BY <1>6, <1>9
<1> QED
  BY <1>1, <1>10, <1>12, <1>13, <1>14, WalkedTo

LEMMA ReadLeafKept ==
  ASSUME EntriesBounded,
         NEW pend, NEW lv, NEW lo, NEW hi, Sound(node, root, op, pend, lv, lo, hi),
         NEW t \in Thread, ReadLeaf(t)
  PROVE  Sound(node', root', op', pend, lv, lo, hi)
<1> DEFINE o == op[t]
           p == o.read
           q == node[p].next
           all == o.found \o Matching(o, node[p])
<1>1. o.pc = "walk" \/ (o.pc = "search" /\ node[p].kind = "leaf")
  BY DEF ReadLeaf
<1>2. Tree(node, root, pend, lv, lo, hi) /\ IsCall(o) /\ Looking(node, lv, o)
  BY <1>1, Now, StageOf DEF LookupStages
<1>3. /\ p \in Pages(node) /\ p \in Page /\ o.entry \in Entry /\ Unwritten(o)
      /\ o.header = "none" /\ o.kind \in Lookups /\ o.pc # "split"
  BY <1>1, <1>2 DEF Looking, Pages
<1>4. node[p].kind = "leaf" /\ lv[p] = 0
  BY <1>1, <1>2, <1>3, Lowest DEF Looking
<1>5. q # NoPage => q \in Pages(node) /\ lv[q] = 0
  <2> SUFFICES ASSUME q # NoPage PROVE q \in Pages(node) /\ lv[q] = 0
    OBVIOUS
  <2>1. q \in Pages(node) /\ node[q].kind = "leaf"
    BY <1>2, <1>3, <1>4, NextLeaf
  <2> QED
    BY <1>2, <2>1, Lowest
<1>6. UNCHANGED <<root, node>>
  BY DEF ReadLeaf
<1>7. \A u \in Thread \ {t} : p \notin WrittenBy(op[u])
  <2> SUFFICES ASSUME NEW u \in Thread \ {t} PROVE p \notin WrittenBy(op[u])
    OBVIOUS
  <2>1. Apart(op[u], op[t])
    BY DEF Sound
  <2> QED
    BY <2>1 DEF Apart
<1> HIDE DEF q, all
<1>8. CASE Finish(t, <<"values", all>>)
  BY <1>3, <1>6, <1>8, JustReturned
<1>9. CASE /\ o.kind = "get" /\ q # NoPage
           /\ Goto(t, [o EXCEPT !.pc = "next", !.target = q, !.found = all])
  <2>1. PICK o2 : o2 = [o EXCEPT !.pc = "next", !.target = q, !.found = all]
    OBVIOUS
  <2>2. /\ IsCall(o2) /\ o2.pc = "next" /\ o2.kind = o.kind /\ o2.entry = o.entry
        /\ o2.writes = o.writes /\ o2.page = o.page /\ o2.read = p
        /\ o2.header = o.header /\ o2.target = q
    BY <1>2, <2>1 DEF IsCall
  <2>3. Looking(node, lv, o2)
    BY <1>3, <1>4, <1>5, <1>9, <2>2 DEF Looking, Unwritten
  <2>4. Stage(node, root, pend, lv, lo, hi, o2)
    BY <2>2, <2>3 DEF Stage, LookupStages
  <2>5. Onward(op, t, {}, o2)
    BY <1>7, <2>2 DEF Onward, WrittenBy
  <2>6. Goto(t, o2)
    BY <1>9, <2>1
  <2> QED
    BY <1>3, <1>6, <2>2, <2>4, <2>5, <2>6, WalkedTo
<1>10. CASE /\ q # NoPage
            /\ Goto(t, [o EXCEPT !.pc = "next_id", !.target = q, !.found = all,
                                 !.read = INVALID_PAGE_ID])
  <2>1. PICK o2 : o2 = [o EXCEPT !.pc = "next_id", !.target = q, !.found = all,
                                 !.read = INVALID_PAGE_ID]
    OBVIOUS
  <2>2. /\ IsCall(o2) /\ o2.pc = "next_id" /\ o2.kind = o.kind /\ o2.entry = o.entry
        /\ o2.writes = o.writes /\ o2.page = o.page /\ o2.read = NoPage
        /\ o2.header = o.header /\ o2.target = q
    BY <1>2, <2>1 DEF IsCall, NoPage
  <2>3. Looking(node, lv, o2)
    BY <1>3, <1>5, <1>10, <2>2 DEF Looking, Unwritten
  <2>4. Stage(node, root, pend, lv, lo, hi, o2)
    BY <2>2, <2>3 DEF Stage, LookupStages
  <2>5. Onward(op, t, {}, o2)
    BY <2>2 DEF Onward, WrittenBy
  <2>6. Goto(t, o2)
    BY <1>10, <2>1
  <2> QED
    BY <1>3, <1>6, <2>2, <2>4, <2>5, <2>6, WalkedTo
<1> QED
  BY <1>8, <1>9, <1>10 DEF ReadLeaf, q, all, NoPage

LEMMA PinNextKept ==
  ASSUME NEW pend, NEW lv, NEW lo, NEW hi, Sound(node, root, op, pend, lv, lo, hi),
         NEW t \in Thread, PinNext(t)
  PROVE  Sound(node', root', op', pend, lv, lo, hi)
<1> DEFINE o == op[t]
<1>1. o.pc = "next_id" /\ UNCHANGED <<root, node>>
  BY DEF PinNext
<1>2. IsCall(o) /\ Looking(node, lv, o)
  BY <1>1, Now, StageOf DEF LookupStages
<1>3. PICK o2 : o2 = [o EXCEPT !.pc = "next"]
  OBVIOUS
<1>4. Goto(t, o2)
  BY <1>3 DEF PinNext
<1>5. /\ IsCall(o2) /\ o2.pc = "next" /\ o2.kind = o.kind /\ o2.entry = o.entry
      /\ o2.writes = o.writes /\ o2.page = o.page /\ o2.read = o.read
      /\ o2.header = o.header /\ o2.target = o.target
  BY <1>2, <1>3 DEF IsCall
<1>6. Looking(node, lv, o2)
  BY <1>1, <1>2, <1>5 DEF Looking, Unwritten
<1>7. Stage(node, root, pend, lv, lo, hi, o2)
  BY <1>5, <1>6 DEF Stage, LookupStages
<1>8. \A u \in Thread \ {t} : o.read \notin WrittenBy(op[u])
  <2> SUFFICES ASSUME NEW u \in Thread \ {t} PROVE o.read \notin WrittenBy(op[u])
    OBVIOUS
  <2>1. Apart(op[u], op[t])
    BY DEF Sound
  <2> QED
    BY <2>1 DEF Apart
<1>9. Onward(op, t, {}, o2)
  BY <1>5, <1>8 DEF Onward, WrittenBy
<1> QED
  BY <1>1, <1>4, <1>5, <1>7, <1>9, WalkedTo

LEMMA LatchNextKept ==
  ASSUME NEW pend, NEW lv, NEW lo, NEW hi, Sound(node, root, op, pend, lv, lo, hi),
         NEW t \in Thread, LatchNext(t)
  PROVE  Sound(node', root', op', pend, lv, lo, hi)
<1> DEFINE o == op[t]
           q == o.target
<1>1. o.pc = "next" /\ UNCHANGED <<root, node>>
  BY DEF LatchNext, Granted
<1>2. IsCall(o) /\ Looking(node, lv, o)
  BY <1>1, Now, StageOf DEF LookupStages
<1>3. /\ q \in Pages(node) /\ lv[q] = 0 /\ o.entry \in Entry /\ Unwritten(o)
      /\ o.header = "none" /\ o.kind \in Lookups
  BY <1>1, <1>2 DEF Looking
<1>4. node[q] # Free
  BY <1>3 DEF Pages, Free
<1>5. \A u \in Thread \ {t} : q \notin WrittenBy(op[u])
  <2>1. Wants(t) = [page |-> q, mode |-> "read"]
    BY <1>1, WantsAt
  <2> QED
    BY <2>1, GrantedFor DEF LatchNext
<1>6. PICK o2 : o2 = [o EXCEPT !.pc = "walk", !.read = q, !.target = INVALID_PAGE_ID]
  OBVIOUS
<1>7. Goto(t, o2)
  BY <1>4, <1>6 DEF LatchNext
<1>8. /\ IsCall(o2) /\ o2.pc = "walk" /\ o2.kind = o.kind /\ o2.entry = o.entry
      /\ o2.writes = o.writes /\ o2.page = o.page /\ o2.read = q
      /\ o2.header = o.header
  BY <1>2, <1>6 DEF IsCall
<1>9. Looking(node, lv, o2)
  BY <1>3, <1>8 DEF Looking, Unwritten
<1>10. Stage(node, root, pend, lv, lo, hi, o2)
  BY <1>8, <1>9 DEF Stage, LookupStages
<1>11. Onward(op, t, {}, o2)
  BY <1>5, <1>8 DEF Onward, WrittenBy
<1> QED
  BY <1>1, <1>7, <1>8, <1>10, <1>11, WalkedTo

LEMMA IdleAtRest ==
  ASSUME NEW o, o = Idle
  PROVE  /\ IsCall(o) /\ o.pc = "idle" /\ AtRest(o) /\ WrittenBy(o) = {} /\ o.read = NoPage
         /\ o.header = "none" /\ o.kind = "none"
<1>1. /\ IsCall(o) /\ o.pc = "idle" /\ o.writes = <<>> /\ o.page = NoPage /\ o.read = NoPage
      /\ o.header = "none" /\ o.kind = "none"
  BY DEF Idle, IsCall, NoPage
<1>2. WrittenBy(o) = {}
  BY <1>1, SetOfEmpty DEF WrittenBy
<1> QED
  BY <1>1, <1>2 DEF AtRest, Bare, Unwritten

LEMMA ReturnKept ==
  ASSUME NEW pend, NEW lv, NEW lo, NEW hi, Sound(node, root, op, pend, lv, lo, hi),
         NEW t \in Thread, Return(t)
  PROVE  Sound(node', root', op', pend, lv, lo, hi)
<1>1. PICK o : o = Idle
  OBVIOUS
<1>2. op[t].pc = "return" /\ Goto(t, o) /\ UNCHANGED <<root, node>>
  BY <1>1 DEF Return
<1>3. IsCall(o) /\ Stage(node, root, pend, lv, lo, hi, o) /\ Onward(op, t, {}, o)
  BY <1>1, IdleAtRest DEF Stage, Onward
<1> QED
  BY <1>2, <1>3, WalkedTo

-----------------------------------------------------------------------------
(* Splits.                                                                 *)

LEMMA PutAt ==
  ASSUME NEW R, NEW f \in [Page -> R], NEW x \in Page, NEW v
  PROVE  /\ Put(f, x, v)[x] = v
         /\ \A y \in Page : y # x => Put(f, x, v)[y] = f[y]
         /\ v \in R => Put(f, x, v) \in [Page -> R]
BY DEF Put

\* A path that ends in a page that has changed is still one.
LEMMA PathSame ==
  ASSUME NEW nd, NEW lv, NEW w, Path(nd, lv, w), NEW nd2, NEW lv2,
         \A p \in ToSet(w) : p \in Pages(nd2) /\ lv2[p] = lv[p],
         \A p \in ToSet(w) : p # Last(w) => nd2[p] = nd[p],
         \A i \in 1 .. Len(w) - 1 : w[i] # Last(w)
  PROVE  Path(nd2, lv2, w)
<1>1. w \in Seq(Page) /\ w # <<>>
      /\ \A i \in 1 .. Len(w) : w[i] \in Pages(nd) /\ lv[w[i]] + i = lv[w[1]] + 1
  BY DEF Path
<1>2. Len(w) \in Nat /\ Len(w) >= 1 /\ \A i \in 1 .. Len(w) : w[i] \in ToSet(w)
  BY <1>1, LastAndFront, SetOfSeq
<1>3. \A i \in 1 .. Len(w) : w[i] \in Pages(nd2) /\ lv2[w[i]] + i = lv2[w[1]] + 1
  <2>1. \A i \in 1 .. Len(w) : w[i] \in Pages(nd2) /\ lv2[w[i]] = lv[w[i]]
    BY <1>2
  <2>2. lv2[w[1]] = lv[w[1]]
    BY <1>2, <2>1
  <2> QED
    BY <1>1, <2>1, <2>2
<1>4. \A i \in 1 .. Len(w) - 1 : ChildOf(nd2, w[i + 1], w[i])
  <2> SUFFICES ASSUME NEW i \in 1 .. Len(w) - 1 PROVE ChildOf(nd2, w[i + 1], w[i])
    OBVIOUS
  <2>1. ChildOf(nd, w[i + 1], w[i])
    BY DEF Path
  <2>2. i \in 1 .. Len(w)
    BY <1>2
  <2>3. nd2[w[i]] = nd[w[i]]
    BY <1>2, <2>2
  <2> QED
    BY <2>1, <2>3 DEF ChildOf
<1> QED
  BY <1>1, <1>3, <1>4 DEF Path

\* What is above the last page of a path is at a higher level.
LEMMA PathApart ==
  ASSUME NEW nd, NEW top, NEW pend, NEW lv, NEW lo, NEW hi, Tree(nd, top, pend, lv, lo, hi),
         NEW w, Path(nd, lv, w)
  PROVE  /\ \A i \in 1 .. Len(w) - 1 : w[i] # Last(w)
         /\ Last(w) \notin ToSet(Front(w))
<1> DEFINE n == Len(w)
           z == lv[w[n]]
           y == lv[w[1]]
<1>1. w \in Seq(Page) /\ w # <<>>
      /\ \A i \in 1 .. n : w[i] \in Pages(nd) /\ lv[w[i]] + i = y + 1
  BY DEF Path
<1>2. n \in Nat /\ n >= 1 /\ Last(w) = w[n] /\ Front(w) \in Seq(Page) /\ Len(Front(w)) = n - 1
      /\ \A i \in 1 .. n - 1 : Front(w)[i] = w[i]
  BY <1>1, LastAndFront
<1>3. ASSUME NEW i \in 1 .. n - 1 PROVE w[i] # w[n]
  <2> DEFINE x == lv[w[i]]
  <2>1. x + i = y + 1 /\ z + n = y + 1 /\ i \in Nat /\ i < n
    <3>1. i \in 1 .. n /\ n \in 1 .. n
      BY <1>2
    <3> QED
      BY <3>1, <1>1, <1>2
  <2>2. x \in Nat /\ y \in Nat /\ z \in Nat
    <3>1. i \in 1 .. n /\ n \in 1 .. n /\ 1 \in 1 .. n
      BY <1>2
    <3>2. \A p \in Pages(nd) : lv[p] \in Nat
      BY DEF Tree, Typed, Pages
    <3> QED
      BY <3>1, <3>2, <1>1
  <2> SUFFICES ASSUME w[i] = w[n] PROVE FALSE
    OBVIOUS
  <2>3. x = z
    OBVIOUS
  <2> HIDE DEF x, y, z, n
  <2> QED
    BY <2>1, <2>2, <2>3, <1>2
<1>4. Last(w) \notin ToSet(Front(w))
  <2> SUFFICES ASSUME Last(w) \in ToSet(Front(w)) PROVE FALSE
    OBVIOUS
  <2>1. PICK i \in 1 .. Len(Front(w)) : Front(w)[i] = Last(w)
    BY <1>2, SetOfSeq
  <2> QED
    BY <2>1, <1>2, <1>3
<1> QED
  BY <1>2, <1>3, <1>4

LEMMA PagesGrow ==
  ASSUME NEW nd, NEW nd2, \A p \in Page : nd2[p] = nd[p] \/ nd2[p].kind # "free"
  PROVE  Pages(nd) \subseteq Pages(nd2)
BY DEF Pages

\* No page begins elsewhere than before, and none ends elsewhere but those t has
\* latched for writing.
Steady(t, lo, hi, lo2, hi2) ==
  \A p \in Pages(node) : lo2[p] = lo[p] /\ (p \notin WrittenBy(op[t]) => hi2[p] = hi[p])

LEMMA InsertFirstKept ==
  ASSUME EntriesBounded,
         NEW pend, NEW lv, NEW lo, NEW hi, Sound(node, root, op, pend, lv, lo, hi),
         NEW t \in Thread, InsertFirst(t)
  PROVE  \E pend2, lv2, lo2, hi2 :
           /\ Sound(node', root', op', pend2, lv2, lo2, hi2)
           /\ Steady(t, lo, hi, lo2, hi2)
<1> DEFINE e == op[t].entry
<1>1. op[t].pc = "header_w" /\ root = NoPage
  BY DEF InsertFirst, Granted, NoPage
<1>2. \A u \in Thread \ {t} : op[u].header = "none"
  <2>1. Wants(t) = [page |-> Header, mode |-> "write"]
    BY <1>1, WantsAt
  <2>2. \A u \in Thread \ {t} : op[u].header # "write" /\ op[u].header # "read"
    BY <2>1, GrantedFor DEF InsertFirst
  <2>3. \A u \in Thread : op[u].header \in {"none", "read", "write"}
    BY Now, HeaderModes
  <2> QED
    BY <2>2, <2>3
<1>3. PICK p \in Page :
        /\ NewPage(p) /\ root' = p
        /\ node' = [node EXCEPT ![p] = insert_at(EmptyLeaf(INVALID_PAGE_ID), 1, e)]
  BY DEF InsertFirst
<1>4. node[p] = Free /\ \A u \in Thread : p # op[u].root
  BY <1>3 DEF NewPage, IsNew
<1>5. /\ Tree(node, root, pend, lv, lo, hi) /\ e \in Entry
      /\ Tree(node, NoPage, pend, lv, lo, hi)
  BY <1>1, Now, StageOf DEF AtHeader
<1>6. /\ node \in [Page -> PageRecords] /\ lv \in [Page -> Nat] /\ lo \in [Page -> Int]
      /\ hi \in [Page -> Int]
  BY <1>5 DEF Tree, Typed
<1>7. p \notin Pages(node) /\ Alone(op, t, p) /\ pend[p] = NoPage /\ \A z \in Page : pend[z] # p
  BY <1>4, NewlyAllocated, NotHalf
<1>8. PICK nd2 : nd2 = Put(node, p, insert_at(EmptyLeaf(INVALID_PAGE_ID), 1, e))
  OBVIOUS
<1>9. PICK lv2 : lv2 = Put(lv, p, 0)
  OBVIOUS
<1>10. PICK lo2 : lo2 = Put(lo, p, Bottom)
  OBVIOUS
<1>11. PICK hi2 : hi2 = Put(hi, p, Ceiling)
  OBVIOUS
<1>12. PICK o : o = Returning(Ok)
  OBVIOUS
<1>13. Tree(nd2, p, pend, lv2, lo2, hi2)
  BY <1>5, <1>8, <1>9, <1>10, <1>11, TreePlanted
<1>14. \A z \in Page : z # p => nd2[z] = node[z] /\ lv2[z] = lv[z] /\ lo2[z] = lo[z] /\ hi2[z] = hi[z]
  <2>1. \A z \in Page : z # p => nd2[z] = node[z]
    BY <1>6, <1>8 DEF Put
  <2>2. \A z \in Page : z # p => lv2[z] = lv[z]
    BY <1>6, <1>9 DEF Put
  <2>3. \A z \in Page : z # p => lo2[z] = lo[z] /\ hi2[z] = hi[z]
    BY <1>6, <1>10, <1>11 DEF Put
  <2> QED
    BY <2>1, <2>2, <2>3
<1>15. Pages(node) \subseteq Pages(nd2)
  BY <1>5 DEF Tree, Rooted
<1>16. IsCall(o) /\ Stage(nd2, p, pend, lv2, lo2, hi2, o) /\ Onward(op, t, {p}, o)
  BY <1>12, AtReturn
<1>17. \A z \in Page : z \in WrittenBy(op[t]) \cup {p} => pend[z] = NoPage
  BY <1>1, <1>7, Whole
<1>18. StepBy(node, root, op, pend, lv, lo, hi, t, {p}, o, nd2, p, pend, lv2, lo2, hi2)
  BY <1>2, <1>4, <1>7, <1>14, <1>15, <1>16, <1>17 DEF StepBy, Onward
<1>19. Sound(nd2, p, Put(op, t, o), pend, lv2, lo2, hi2)
  BY <1>13, <1>18, Stepped
<1>20. op' = Put(op, t, o) /\ root' = p /\ node' = nd2
  <2>1. Goto(t, o)
    BY <1>12 DEF InsertFirst, Finish, Returning
  <2> QED
    BY <2>1, <1>3, <1>8, Gone DEF Put
<1>21. Steady(t, lo, hi, lo2, hi2)
  BY <1>7, <1>14 DEF Steady, Pages
<1> QED
  BY <1>19, <1>20, <1>21

LEMMA AtLeaf ==
  ASSUME NEW pend, NEW lv, NEW lo, NEW hi, Sound(node, root, op, pend, lv, lo, hi),
         NEW t \in Thread, op[t].pc = "at_leaf", NEW w, w = op[t].writes
  PROVE  /\ LeafHeld(pend, lo, hi, t, Last(w))
         /\ DescendingForWrite(node, root, lv, lo, hi, op[t])
         /\ op[t].page = NoPage /\ OnPath(node, root, lv, op[t], w) /\ Path(node, lv, w)
         /\ WrittenBy(op[t]) = ToSet(w) /\ ToSet(w) \subseteq Pages(node)
         /\ w \in Seq(Page) /\ w # <<>> /\ Last(w) \in ToSet(w)
<1> DEFINE o == op[t]
<1>1. Tree(node, root, pend, lv, lo, hi) /\ DescendingForWrite(node, root, lv, lo, hi, o)
  BY Now, StageOf
<1>2. /\ o.page = NoPage /\ o.kind \in Updates /\ OnPath(node, root, lv, o, w)
      /\ Within(lo, hi, Last(w), o.entry) /\ node[Last(w)].kind = "leaf"
  BY <1>1 DEF DescendingForWrite
<1>3. Path(node, lv, w)
  BY <1>2 DEF OnPath
<1>4. w \in Seq(Page) /\ w # <<>> /\ Last(w) \in ToSet(w) /\ Last(w) \in Page
  BY <1>3, LastAndFront DEF Path
<1>5. WrittenBy(o) = ToSet(w) /\ ToSet(w) \subseteq Pages(node)
  BY <1>1, <1>2, PathLatched DEF AllWritten
<1>6. LeafHeld(pend, lo, hi, t, Last(w))
  BY <1>2, <1>4, <1>5 DEF LeafHeld
<1> QED
  BY <1>1, <1>2, <1>3, <1>4, <1>5, <1>6

LEMMA LeafSplitKept ==
  ASSUME EntriesBounded,
         NEW pend, NEW lv, NEW lo, NEW hi, Sound(node, root, op, pend, lv, lo, hi),
         NEW t \in Thread, op[t].pc = "at_leaf", op[t].kind = "insert",
         NEW p, p = Last(op[t].writes), ~HasEntry(node[p], op[t].entry),
         size(node[p]) + 1 = LeafMax,
         NEW full, full = WithEntry(node[p], op[t].entry),
         NEW q \in Page, NewPage(q), UNCHANGED root,
         node' = [node EXCEPT ![p] = LeftLeaf(full, q), ![q] = RightLeaf(full)],
         Goto(t, [op[t] EXCEPT !.pc = "split", !.answer = Ok,
                               !.split = <<Separator(node'[q]), q>>])
  PROVE  \E pend2, lv2, lo2, hi2 :
           /\ Sound(node', root', op', pend2, lv2, lo2, hi2)
           /\ Steady(t, lo, hi, lo2, hi2)
<1> DEFINE o == op[t]
           e == o.entry
<1>1. PICK w : w = o.writes
  OBVIOUS
<1>2. /\ LeafHeld(pend, lo, hi, t, p) /\ o.page = NoPage /\ OnPath(node, root, lv, o, w)
      /\ Path(node, lv, w) /\ WrittenBy(o) = ToSet(w) /\ ToSet(w) \subseteq Pages(node)
      /\ w \in Seq(Page) /\ w # <<>> /\ p \in ToSet(w) /\ p = Last(w)
  BY <1>1, AtLeaf
<1>3. /\ Tree(node, root, pend, lv, lo, hi) /\ IsCall(o)
      /\ p \in Page /\ node[p].kind = "leaf" /\ e \in Entry /\ lo[p] <= Rank(e) /\ Rank(e) < hi[p]
  BY <1>2, Now DEF LeafHeld, Within
<1>4. pend[p] = NoPage /\ \A z \in Page : pend[z] # p
  BY <1>2, <1>3, Whole, NotHalf
<1>5. node[q] = Free /\ \A u \in Thread : q # op[u].root
  BY DEF NewPage, IsNew
<1>6. q \notin Pages(node) /\ Alone(op, t, q) /\ pend[q] = NoPage /\ \A z \in Page : pend[z] # q
  BY <1>5, NewlyAllocated, NotHalf
<1>7. PICK nd2 : nd2 = Put(Put(node, p, LeftLeaf(full, q)), q, RightLeaf(full))
  OBVIOUS
<1>8. PICK x : x = Rank(Separator(nd2[q]))
  OBVIOUS
<1>9. PICK pend2 : pend2 = Put(pend, p, q)
  OBVIOUS
<1>10. PICK lv2 : lv2 = Put(lv, q, lv[p])
  OBVIOUS
<1>11. PICK lo2 : lo2 = Put(lo, q, x)
  OBVIOUS
<1>12. PICK hi2 : hi2 = Put(Put(hi, p, x), q, hi[p])
  OBVIOUS
<1>13. Separator(nd2[q]) \in Entry /\ q # p /\ Tree(nd2, root, pend2, lv2, lo2, hi2)
  <2>1. /\ Separator(nd2[q]) \in Entry /\ q # p
        /\ Tree(nd2, root, Put(pend, p, q), Put(lv, q, lv[p]), Put(lo, q, x),
                Put(Put(hi, p, x), q, hi[p]))
    BY ONLY <1>3, <1>4, <1>5, <1>7, <1>8, LeafHalved, EntriesBounded, q \in Page,
            ~HasEntry(node[p], e), size(node[p]) + 1 = LeafMax, full = WithEntry(node[p], e)
  <2> QED
    BY <2>1, <1>9, <1>10, <1>11, <1>12
<1>14. /\ node \in [Page -> PageRecords] /\ lv \in [Page -> Nat] /\ lo \in [Page -> Int]
       /\ hi \in [Page -> Int] /\ pend \in [Page -> Page \cup {NoPage}]
  BY <1>3 DEF Tree, Typed
<1>15. \A z \in Page : z # p /\ z # q => nd2[z] = node[z]
  BY <1>7, <1>14 DEF Put
<1>16. \A z \in Page : z # p /\ z # q => pend2[z] = pend[z] /\ lo2[z] = lo[z] /\ hi2[z] = hi[z]
  <2>1. \A z \in Page : z # p => pend2[z] = pend[z]
    BY <1>9, <1>14 DEF Put
  <2>2. \A z \in Page : z # q => lo2[z] = lo[z]
    BY <1>11, <1>14 DEF Put
  <2>3. \A z \in Page : z # p /\ z # q => hi2[z] = hi[z]
    BY <1>12, <1>14 DEF Put
  <2> QED
    BY <2>1, <2>2, <2>3
<1>17. \A z \in Page : z # q => lv2[z] = lv[z]
  BY <1>10, <1>14 DEF Put
<1>18. pend2[p] = q /\ pend2[q] = NoPage /\ lo2[q] = x
  <2>1. pend2[p] = q
    BY <1>3, <1>9, <1>14 DEF Put
  <2>2. pend2[q] = pend[q]
    BY <1>9, <1>13, <1>14 DEF Put
  <2>3. lo2[q] = x
    BY <1>11, <1>14 DEF Put
  <2> QED
    BY <1>6, <2>1, <2>2, <2>3
<1>19. p \in Pages(nd2) /\ Pages(node) \subseteq Pages(nd2)
  <2>1. pend2[p] # NoPage
    BY <1>18, NoPageIsNone
  <2>2. Halves(nd2, pend2, lv2, lo2, hi2)
    BY <1>13 DEF Tree
  <2>3. p \in Pages(nd2)
    BY <1>3, <2>1, <2>2 DEF Halves
  <2> QED
    BY <1>6, <1>15, <2>3 DEF Pages
<1>20. node' = nd2
  BY <1>7 DEF Put
<1>21. PICK o2 : o2 = [o EXCEPT !.pc = "split", !.answer = Ok,
                                !.split = <<Separator(nd2[q]), q>>]
  OBVIOUS
<1>22. Goto(t, o2)
  BY <1>20, <1>21
<1>23. /\ IsCall(o2) /\ o2.pc = "split" /\ o2.kind = o.kind /\ o2.entry = o.entry
       /\ o2.writes = w /\ o2.page = o.page /\ o2.read = o.read
       /\ o2.header = o.header /\ o2.root = o.root
       /\ o2.split = <<Separator(nd2[q]), q>>
  BY <1>1, <1>3, <1>21 DEF IsCall
<1>24. OnPath(nd2, root, lv2, o2, w)
  <2>1. \A z \in ToSet(w) : z \in Pages(nd2) /\ lv2[z] = lv[z]
    BY <1>2, <1>6, <1>17, <1>19 DEF Pages
  <2>2. \A z \in ToSet(w) : z # Last(w) => nd2[z] = node[z]
    BY <1>2, <1>6, <1>15 DEF Pages
  <2>3. \A i \in 1 .. Len(w) - 1 : w[i] # Last(w)
    BY <1>2, <1>3, PathApart
  <2>4. Path(nd2, lv2, w)
    BY <1>2, <2>1, <2>2, <2>3, PathSame
  <2>5. lv2[w[1]] = lv[w[1]] /\ lv2[o.root] = lv[o.root]
    <3>1. w[1] \in ToSet(w) /\ o.root \in Page /\ o.root # q
      BY <1>2, <1>5, LastAndFront DEF OnPath
    <3> QED
      BY <3>1, <2>1, <1>17
  <2> QED
    BY <1>2, <1>23, <2>4, <2>5 DEF OnPath
<1>25. Splitting(nd2, root, pend2, lv2, lo2, o2)
  BY <1>2, <1>8, <1>13, <1>18, <1>23, <1>24 DEF Splitting
<1>26. Stage(nd2, root, pend2, lv2, lo2, hi2, o2)
  BY <1>23, <1>25 DEF Stage
<1>27. WrittenBy(o2) = ToSet(w) /\ o2.read = NoPage /\ q \notin ToSet(w)
  BY <1>2, <1>6, <1>23 DEF WrittenBy, OnPath
<1>28. Onward(op, t, {q}, o2)
  BY <1>2, <1>23, <1>27 DEF Onward
<1>29. \A z \in Page : z \in WrittenBy(op[t]) \cup {q} /\ pend2[z] # NoPage =>
         o2.pc = "split" /\ Last(o2.writes) = z /\ pend2[z] \notin WrittenBy(o2)
         /\ pend2[z] \in {q}
  <2> SUFFICES ASSUME NEW z \in Page, z \in WrittenBy(op[t]) \cup {q}, pend2[z] # NoPage
               PROVE  z = p
    BY <1>2, <1>18, <1>23, <1>27
  <2>1. z # q
    BY <1>18
  <2>2. pend[z] = NoPage
    BY <2>1, Whole
  <2> QED
    BY <2>1, <2>2, <1>16
<1>30. \A z \in Page : z \notin WrittenBy(op[t]) /\ z \notin {q} =>
         nd2[z] = node[z] /\ pend2[z] = pend[z] /\ lo2[z] = lo[z] /\ hi2[z] = hi[z]
  BY <1>2, <1>15, <1>16
<1>31. StepBy(node, root, op, pend, lv, lo, hi, t, {q}, o2, nd2, root, pend2, lv2, lo2, hi2)
  BY <1>5, <1>6, <1>17, <1>19, <1>23, <1>26, <1>28, <1>29, <1>30 DEF StepBy, Onward
<1>32. Sound(nd2, root, Put(op, t, o2), pend2, lv2, lo2, hi2)
  BY <1>13, <1>31, Stepped
<1>33. op' = Put(op, t, o2) /\ root' = root
  BY <1>22, Gone
<1>34. Sound(node', root', op', pend2, lv2, lo2, hi2)
  BY <1>20, <1>32, <1>33
<1>35. Steady(t, lo, hi, lo2, hi2)
  BY <1>2, <1>6, <1>11, <1>14, <1>16 DEF Steady, Pages, Put
<1> QED
  BY <1>34, <1>35

LEMMA InsertAtLeafKept ==
  ASSUME EntriesBounded,
         NEW pend, NEW lv, NEW lo, NEW hi, Sound(node, root, op, pend, lv, lo, hi),
         NEW t \in Thread, InsertAtLeaf(t)
  PROVE  \E pend2, lv2, lo2, hi2 :
           /\ Sound(node', root', op', pend2, lv2, lo2, hi2)
           /\ Steady(t, lo, hi, lo2, hi2)
<1> DEFINE p == Last(op[t].writes)
           e == op[t].entry
           full == WithEntry(node[p], e)
<1>1. op[t].pc = "at_leaf" /\ op[t].kind = "insert"
  BY DEF InsertAtLeaf
<1>2. LeafHeld(pend, lo, hi, t, p)
  BY <1>1, AtLeaf
<1>0. Steady(t, lo, hi, lo, hi)
  BY DEF Steady
<1>3. CASE InsertPresent(t, p)
  BY <1>0, <1>2, <1>3, PresentKept
<1>4. CASE Panic
  BY <1>0, <1>4, Still DEF Panic
<1>5. CASE /\ ~HasEntry(node[p], e)
           /\ node' = [node EXCEPT ![p] = full]
           /\ Finish(t, Ok) /\ UNCHANGED <<root, panicked>>
  BY <1>0, <1>2, <1>5, GainedKept
<1>6. CASE /\ ~HasEntry(node[p], e)
           /\ size(node[p]) + 1 = LeafMax
           /\ \E q \in Page :
                /\ NewPage(q)
                /\ node' = [node EXCEPT ![p] = LeftLeaf(full, q), ![q] = RightLeaf(full)]
                /\ Goto(t, [op[t] EXCEPT !.pc = "split", !.answer = Ok,
                                         !.split = <<Separator(node'[q]), q>>])
           /\ UNCHANGED <<root, panicked>>
  <2>1. PICK q \in Page :
          /\ NewPage(q)
          /\ node' = [node EXCEPT ![p] = LeftLeaf(full, q), ![q] = RightLeaf(full)]
          /\ Goto(t, [op[t] EXCEPT !.pc = "split", !.answer = Ok,
                                   !.split = <<Separator(node'[q]), q>>])
    BY <1>6
  <2>2. p = Last(op[t].writes) /\ full = WithEntry(node[p], op[t].entry)
        /\ ~HasEntry(node[p], op[t].entry) /\ size(node[p]) + 1 = LeafMax /\ UNCHANGED root
    BY SMTT(60), <1>6
  <2> HIDE DEF p, e, full
  <2> QED
    BY <1>1, <2>1, <2>2, LeafSplitKept
<1>7. \/ InsertPresent(t, p)
      \/ ~HasEntry(node[p], e) /\ size(node[p]) >= LeafMax /\ Panic
      \/ /\ ~HasEntry(node[p], e)
         /\ size(node[p]) + 1 < LeafMax
         /\ node' = [node EXCEPT ![p] = full]
         /\ Finish(t, Ok)
         /\ UNCHANGED <<root, panicked>>
      \/ /\ ~HasEntry(node[p], e)
         /\ size(node[p]) + 1 = LeafMax
         /\ \E q \in Page :
              /\ NewPage(q)
              /\ node' = [node EXCEPT ![p] = LeftLeaf(full, q), ![q] = RightLeaf(full)]
              /\ Goto(t, [op[t] EXCEPT !.pc = "split", !.answer = Ok,
                                       !.split = <<Separator(node'[q]), q>>])
         /\ UNCHANGED <<root, panicked>>
  BY DEF InsertAtLeaf, LeftLeaf, RightLeaf
<1> QED
  BY ZenonT(60), <1>3, <1>4, <1>5, <1>6, <1>7

\* The page that was split, the last of the write set, and its half.
LEMMA AtSplit ==
  ASSUME EntriesBounded,
         NEW pend, NEW lv, NEW lo, NEW hi, Sound(node, root, op, pend, lv, lo, hi),
         NEW t \in Thread, op[t].pc = "split", NEW w, w = op[t].writes
  PROVE  /\ op[t].page = NoPage /\ op[t].kind = "insert" /\ op[t].read = NoPage
         /\ OnPath(node, root, lv, op[t], w) /\ Path(node, lv, w)
         /\ WrittenBy(op[t]) = ToSet(w) /\ ToSet(w) \subseteq Pages(node)
         /\ w \in Seq(Page) /\ w # <<>> /\ Last(w) \in ToSet(w)
         /\ pend[Last(w)] = op[t].split[2] /\ op[t].split[2] \in Page
         /\ op[t].split[1] \in Entry /\ Rank(op[t].split[1]) = lo[op[t].split[2]]
         /\ \A z \in ToSet(w) : z # Last(w) => pend[z] = NoPage
         /\ \A z \in ToSet(w), y \in Page : pend[y] # z
<1> DEFINE o == op[t]
<1>1. Tree(node, root, pend, lv, lo, hi) /\ Splitting(node, root, pend, lv, lo, o)
  BY Now, StageOf DEF Splitting
<1>2. /\ o.page = NoPage /\ o.kind = "insert" /\ OnPath(node, root, lv, o, w)
      /\ pend[Last(w)] = o.split[2] /\ o.split[2] \in Page
      /\ o.split[1] \in Entry /\ Rank(o.split[1]) = lo[o.split[2]]
  BY <1>1 DEF Splitting
<1>3. Path(node, lv, w) /\ o.read = NoPage
  BY <1>2 DEF OnPath
<1>4. w \in Seq(Page) /\ w # <<>> /\ Last(w) \in ToSet(w)
  BY <1>3, LastAndFront DEF Path
<1>5. WrittenBy(o) = ToSet(w) /\ ToSet(w) \subseteq Pages(node)
  BY <1>1, <1>2, PathLatched DEF AllWritten
<1>6. \A z \in ToSet(w) : z \in Page /\ z \in WrittenBy(op[t])
  BY <1>5 DEF Pages
<1>7. \A z \in ToSet(w) : z # Last(w) => pend[z] = NoPage
  BY <1>6, Whole
<1>8. \A z \in ToSet(w), y \in Page : pend[y] # z
  BY <1>6, NotHalf
<1> QED
  BY <1>2, <1>3, <1>4, <1>5, <1>7, <1>8

LEMMA SplitRootKept ==
  ASSUME EntriesBounded,
         NEW pend, NEW lv, NEW lo, NEW hi, Sound(node, root, op, pend, lv, lo, hi),
         NEW t \in Thread, SplitRoot(t)
  PROVE  \E pend2, lv2, lo2, hi2 :
           /\ Sound(node', root', op', pend2, lv2, lo2, hi2)
           /\ Steady(t, lo, hi, lo2, hi2)
<1> DEFINE o == op[t]
<1>1. PICK w : w = o.writes
  OBVIOUS
<1>2. PICK left : left = Last(w)
  OBVIOUS
<1>3. PICK s, q : s = o.split[1] /\ q = o.split[2]
  OBVIOUS
<1>4. o.pc = "split" /\ Len(w) = 1
  BY <1>1 DEF SplitRoot
<1>5. /\ OnPath(node, root, lv, o, w) /\ Path(node, lv, w)
      /\ WrittenBy(o) = ToSet(w) /\ ToSet(w) \subseteq Pages(node)
      /\ w \in Seq(Page) /\ w # <<>> /\ left \in ToSet(w)
      /\ pend[left] = q /\ q \in Page /\ s \in Entry /\ Rank(s) = lo[q]
      /\ \A z \in ToSet(w) : z # left => pend[z] = NoPage
  BY <1>1, <1>2, <1>3, <1>4, AtSplit
<1>6. CASE left # o.root
  <2>1. Panic
    BY <1>1, <1>2, <1>6 DEF SplitRoot
  <2>2. Steady(t, lo, hi, lo, hi)
    BY DEF Steady
  <2> QED
    BY <2>1, <2>2, Still DEF Panic
<1>7. CASE left = o.root
  <2>1. Tree(node, root, pend, lv, lo, hi) /\ left \in Page
    BY <1>5, Now DEF Pages
  <2>2. /\ node \in [Page -> PageRecords] /\ lv \in [Page -> Nat] /\ lo \in [Page -> Int]
        /\ hi \in [Page -> Int] /\ pend \in [Page -> Page \cup {NoPage}]
    BY <2>1 DEF Tree, Typed
  <2>3. o.header = "write" /\ left = root /\ root # NoPage
    <3>1. w[1] = left
      BY <1>2, <1>4, <1>5, LastAndFront
    <3>2. ~(lv[left] < lv[o.root])
      BY <1>7, <2>1, <2>2
    <3>3. o.header = "write" /\ o.root = root
      BY <1>5, <3>1, <3>2 DEF OnPath
    <3> QED
      BY <1>7, <2>1, <3>3, NoPageIsNone
  <2>4. \A u \in Thread \ {t} : op[u].header = "none"
    BY <2>3 DEF Sound, Apart
  <2>5. PICK p \in Page : /\ NewPage(p) /\ root' = p
                          /\ node' = [node EXCEPT ![p] = InternalNode(<<left, q>>, <<s>>)]
    BY <1>1, <1>2, <1>3, <1>7 DEF SplitRoot
  <2>6. node[p] = Free /\ \A u \in Thread : p # op[u].root
    BY <2>5 DEF NewPage, IsNew
  <2>7. p \notin Pages(node) /\ Alone(op, t, p) /\ pend[p] = NoPage /\ \A z \in Page : pend[z] # p
    BY <2>6, NewlyAllocated, NotHalf
  <2>8. PICK nd2 : nd2 = [node EXCEPT ![p] = InternalNode(<<root, q>>, <<s>>)]
    OBVIOUS
  <2>9. PICK pend2 : pend2 = [pend EXCEPT ![root] = NoPage]
    OBVIOUS
  <2>10. PICK lv2 : lv2 = [lv EXCEPT ![p] = lv[root] + 1]
    OBVIOUS
  <2>11. PICK lo2 : lo2 = [lo EXCEPT ![p] = Bottom]
    OBVIOUS
  <2>12. PICK hi2 : hi2 = [hi EXCEPT ![p] = Ceiling]
    OBVIOUS
  <2>13. PICK o2 : o2 = Returning(o.answer)
    OBVIOUS
  <2>14. Tree(nd2, p, pend2, lv2, lo2, hi2)
    <3>1. q = pend[root]
      BY <1>5, <2>3
    <3> QED
      BY <1>5, <2>1, <2>3, <2>7, <2>8, <2>9, <2>10, <2>11, <2>12, <3>1, Grown
  <2>15. \A z \in Page : z # p => nd2[z] = node[z]
    BY <2>2, <2>8
  <2>16. \A z \in Page : z # p => lv2[z] = lv[z]
    BY <2>2, <2>10
  <2>17. \A z \in Page : z # p => lo2[z] = lo[z] /\ hi2[z] = hi[z]
    BY <2>2, <2>11, <2>12
  <2>18. pend2[left] = NoPage /\ \A z \in Page : z # left => pend2[z] = pend[z]
    BY <2>1, <2>2, <2>3, <2>9
  <2>19. Pages(node) \subseteq Pages(nd2)
    BY <2>7, <2>15 DEF Pages
  <2>20. IsCall(o2) /\ Stage(nd2, p, pend2, lv2, lo2, hi2, o2) /\ Onward(op, t, {p}, o2)
    BY <2>13, AtReturn
  <2>21. \A z \in Page : z \in WrittenBy(op[t]) \cup {p} => pend2[z] = NoPage
    BY <1>5, <2>7, <2>18
  <2>22. \A z \in Page : z \notin WrittenBy(op[t]) /\ z \notin {p} =>
           nd2[z] = node[z] /\ pend2[z] = pend[z] /\ lo2[z] = lo[z] /\ hi2[z] = hi[z]
    BY <1>5, <2>15, <2>17, <2>18
  <2>23. StepBy(node, root, op, pend, lv, lo, hi, t, {p}, o2, nd2, p, pend2, lv2, lo2, hi2)
    BY <2>4, <2>6, <2>7, <2>16, <2>19, <2>20, <2>21, <2>22 DEF StepBy, Onward
  <2>24. Sound(nd2, p, Put(op, t, o2), pend2, lv2, lo2, hi2)
    BY <2>14, <2>23, Stepped
  <2>25. op' = Put(op, t, o2) /\ root' = p /\ node' = nd2
    <3>1. Goto(t, o2)
      BY <1>1, <1>2, <1>7, <2>13 DEF SplitRoot, Finish, Returning
    <3> QED
      BY <3>1, <2>3, <2>5, <2>8, Gone
  <2>26. Sound(node', root', op', pend2, lv2, lo2, hi2)
    BY <2>24, <2>25
  <2>27. Steady(t, lo, hi, lo2, hi2)
    BY <2>7, <2>17 DEF Steady, Pages
  <2> QED
    BY <2>26, <2>27
<1> QED
  BY <1>6, <1>7

\* A page of the write set and the one below it.
LEMMA Above ==
  ASSUME EntriesBounded,
         NEW pend, NEW lv, NEW lo, NEW hi, Tree(node, root, pend, lv, lo, hi),
         NEW w, Path(node, lv, w), Len(w) > 1, NEW p, p = Last(Front(w)), NEW l, l = Last(w)
  PROVE  /\ ChildOf(node, l, p) /\ l # p /\ p \in Page /\ l \in Page
         /\ node[p].kind = "internal" /\ p \in ToSet(Front(w))
         /\ Path(node, lv, Front(w)) /\ Front(w)[1] = w[1]
         /\ ToSet(w) = ToSet(Front(w)) \cup {l} /\ Front(w) \in Seq(Page) /\ Front(w) # <<>>
<1>1. /\ Path(node, lv, Front(w)) /\ Front(w)[1] = w[1] /\ ChildOf(node, l, p)
      /\ ToSet(w) = ToSet(Front(w)) \cup {l}
  BY PathShortened
<1>2. l # p /\ p \in Page /\ l \in Page /\ node[p].kind = "internal"
  BY <1>1, ChildRange DEF ChildOf, Pages
<1>3. Front(w) \in Seq(Page) /\ Front(w) # <<>> /\ p \in ToSet(Front(w))
  BY <1>1, LastAndFront DEF Path
<1> QED
  BY <1>1, <1>2, <1>3

LEMMA InsertIntoParentKept ==
  ASSUME EntriesBounded,
         NEW pend, NEW lv, NEW lo, NEW hi, Sound(node, root, op, pend, lv, lo, hi),
         NEW t \in Thread, InsertIntoParent(t)
  PROVE  \E pend2, lv2, lo2, hi2 :
           /\ Sound(node', root', op', pend2, lv2, lo2, hi2)
           /\ Steady(t, lo, hi, lo2, hi2)
<1> DEFINE o == op[t]
<1>1. PICK w : w = o.writes
  OBVIOUS
<1>2. PICK l, p : l = Last(w) /\ p = Last(Front(w))
  OBVIOUS
<1>3. PICK s, q : s = o.split[1] /\ q = o.split[2]
  OBVIOUS
<1>4. /\ o.pc = "split" /\ Len(w) > 1 /\ UNCHANGED root /\ Finish(t, o.answer)
      /\ node' = [node EXCEPT ![p] = insert_after(@, l, s, q)]
  BY <1>1, <1>2, <1>3 DEF InsertIntoParent
<1>5. /\ Path(node, lv, w) /\ WrittenBy(o) = ToSet(w)
      /\ l \in ToSet(w) /\ pend[l] = q /\ q \in Page /\ s \in Entry /\ Rank(s) = lo[q]
      /\ \A z \in ToSet(w) : z # l => pend[z] = NoPage
  BY <1>1, <1>2, <1>3, <1>4, AtSplit
<1>6. Tree(node, root, pend, lv, lo, hi)
  BY Now
<1>7. /\ node \in [Page -> PageRecords] /\ pend \in [Page -> Page \cup {NoPage}]
  BY <1>6 DEF Tree, Typed
<1>8. ChildOf(node, l, p) /\ p \in Page /\ l \in Page /\ p \in ToSet(w)
  BY <1>2, <1>4, <1>5, <1>6, Above
<1>9. PICK n : n = insert_after(node[p], l, s, q)
  OBVIOUS
<1>10. PICK nd2 : nd2 = Put(node, p, n)
  OBVIOUS
<1>11. PICK pend2 : pend2 = Put(pend, l, NoPage)
  OBVIOUS
<1>12. PICK o2 : o2 = Returning(o.answer)
  OBVIOUS
<1>13. Tree(nd2, root, pend2, lv, lo, hi)
  BY <1>5, <1>6, <1>8, <1>9, <1>10, <1>11, ParentGains
<1>14. n.kind = "internal"
  <2>1. \E u \in Seq(Page), v \in Seq(Entry) : n = InternalNode(u, v)
    BY <1>5, <1>6, <1>8, <1>9, ParentGains
  <2> QED
    BY <2>1, NodeMade
<1>15. nd2[p] = n /\ \A z \in Page : z # p => nd2[z] = node[z]
  BY <1>7, <1>8, <1>10 DEF Put
<1>16. pend2[l] = NoPage /\ \A z \in Page : z # l => pend2[z] = pend[z]
  BY <1>7, <1>8, <1>11 DEF Put
<1>17. Pages(node) \subseteq Pages(nd2)
  BY <1>14, <1>15, PagesGrow
<1>18. IsCall(o2) /\ Stage(nd2, root, pend2, lv, lo, hi, o2) /\ Onward(op, t, {}, o2)
  BY <1>12, AtReturn
<1>19. \A z \in Page : z \in WrittenBy(op[t]) \cup {} => pend2[z] = NoPage
  BY <1>5, <1>16
<1>20. \A z \in Page : z \notin WrittenBy(op[t]) => nd2[z] = node[z] /\ pend2[z] = pend[z]
  BY <1>5, <1>8, <1>15, <1>16
<1>21. StepBy(node, root, op, pend, lv, lo, hi, t, {}, o2, nd2, root, pend2, lv, lo, hi)
  BY <1>17, <1>18, <1>19, <1>20 DEF StepBy, Onward
<1>22. Sound(nd2, root, Put(op, t, o2), pend2, lv, lo, hi)
  BY <1>13, <1>21, Stepped
<1>23. op' = Put(op, t, o2) /\ root' = root /\ node' = nd2
  <2>1. Goto(t, o2)
    BY <1>4, <1>12 DEF Finish, Returning
  <2> QED
    BY <2>1, <1>4, <1>9, <1>10, Gone DEF Put
<1>24. Sound(node', root', op', pend2, lv, lo, hi)
  BY <1>22, <1>23
<1>25. Steady(t, lo, hi, lo, hi)
  BY DEF Steady
<1> QED
  BY <1>24, <1>25

LEMMA SplitParentKept ==
  ASSUME EntriesBounded,
         NEW pend, NEW lv, NEW lo, NEW hi, Sound(node, root, op, pend, lv, lo, hi),
         NEW t \in Thread, SplitParent(t)
  PROVE  \E pend2, lv2, lo2, hi2 :
           /\ Sound(node', root', op', pend2, lv2, lo2, hi2)
           /\ Steady(t, lo, hi, lo2, hi2)
<1> DEFINE o == op[t]
<1>1. PICK w : w = o.writes
  OBVIOUS
<1>2. PICK l, p : l = Last(w) /\ p = Last(Front(w))
  OBVIOUS
<1>3. PICK s, q : s = o.split[1] /\ q = o.split[2]
  OBVIOUS
<1>4. PICK promoted : promoted = PromotedBySplit(node[p], l, s, q)
  OBVIOUS
<1>5. /\ o.pc = "split" /\ Len(w) > 1 /\ UNCHANGED root /\ size(node[p]) >= InternalMax
      /\ \E z \in Page :
           /\ NewPage(z)
           /\ node' = [node EXCEPT ![p] = LeftOfSplit(node[p], l, s, q),
                                   ![z] = RightOfSplit(node[p], l, s, q)]
           /\ Goto(t, [o EXCEPT !.writes = Front(@), !.split = <<promoted, z>>])
  BY <1>1, <1>2, <1>3, <1>4 DEF SplitParent
<1>6. PICK z \in Page :
        /\ NewPage(z)
        /\ node' = [node EXCEPT ![p] = LeftOfSplit(node[p], l, s, q),
                                ![z] = RightOfSplit(node[p], l, s, q)]
        /\ Goto(t, [o EXCEPT !.writes = Front(@), !.split = <<promoted, z>>])
  BY <1>5
<1>7. /\ o.page = NoPage /\ o.kind = "insert" /\ o.read = NoPage /\ OnPath(node, root, lv, o, w)
      /\ Path(node, lv, w) /\ WrittenBy(o) = ToSet(w) /\ ToSet(w) \subseteq Pages(node)
      /\ l \in ToSet(w) /\ pend[l] = q /\ q \in Page /\ s \in Entry /\ Rank(s) = lo[q]
      /\ \A y \in ToSet(w) : y # l => pend[y] = NoPage
      /\ \A x \in ToSet(w), y \in Page : pend[y] # x
  BY <1>1, <1>2, <1>3, <1>5, AtSplit, SMTT(60)
<1>8. Tree(node, root, pend, lv, lo, hi) /\ IsCall(o)
  BY Now
<1>9. /\ node \in [Page -> PageRecords] /\ lv \in [Page -> Nat] /\ lo \in [Page -> Int]
      /\ hi \in [Page -> Int] /\ pend \in [Page -> Page \cup {NoPage}]
  BY <1>8 DEF Tree, Typed
<1>10. PICK v : v = Front(w)
  OBVIOUS
<1>11. /\ ChildOf(node, l, p) /\ l # p /\ p \in Page /\ l \in Page /\ node[p].kind = "internal"
       /\ p \in ToSet(v) /\ p = Last(v) /\ Path(node, lv, v) /\ v[1] = w[1]
       /\ ToSet(w) = ToSet(v) \cup {l} /\ p \in ToSet(w)
  BY <1>2, <1>5, <1>7, <1>8, <1>10, Above
<1>12. node[z] = Free /\ \A u \in Thread : z # op[u].root
  BY <1>6 DEF NewPage, IsNew
<1>13. z \notin Pages(node) /\ Alone(op, t, z) /\ pend[z] = NoPage /\ \A y \in Page : pend[y] # z
  BY <1>12, NewlyAllocated, NotHalf
<1>14. z # p /\ z # l /\ z \notin ToSet(w)
  BY <1>7, <1>11, <1>13
<1>15. PICK nd2 : nd2 = Put(Put(node, p, LeftOfSplit(node[p], l, s, q)),
                            z, RightOfSplit(node[p], l, s, q))
  OBVIOUS
<1>16. PICK x : x = Rank(promoted)
  OBVIOUS
<1>17. PICK pend1 : pend1 = Put(pend, l, NoPage)
  OBVIOUS
<1>18. PICK pend2 : pend2 = Put(pend1, p, z)
  OBVIOUS
<1>19. PICK lv2 : lv2 = Put(lv, z, lv[p])
  OBVIOUS
<1>20. PICK lo2 : lo2 = Put(lo, z, x)
  OBVIOUS
<1>21. PICK hi2 : hi2 = Put(Put(hi, p, x), z, hi[p])
  OBVIOUS
<1>22. promoted \in Entry /\ Tree(nd2, root, pend2, lv2, lo2, hi2)
  <2>1. pend[p] = NoPage /\ \A r \in Page : pend[r] # p
    BY <1>7, <1>11
  <2>2. num_children(node[p]) >= InternalMax
    BY <1>5, <1>11 DEF size
  <2> QED
    BY <1>4, <1>7, <1>8, <1>11, <1>12, <1>15, <1>16, <1>17, <1>18, <1>19, <1>20, <1>21,
       <2>1, <2>2, ParentHalved
<1>23. \A y \in Page : y # p /\ y # z => nd2[y] = node[y]
  BY <1>9, <1>15 DEF Put
<1>24. \A y \in Page : y # z => lv2[y] = lv[y]
  BY <1>9, <1>19 DEF Put
<1>25. lo2[z] = x /\ \A y \in Page : y # z => lo2[y] = lo[y]
  BY <1>9, <1>20 DEF Put
<1>26. \A y \in Page : y # p /\ y # z => hi2[y] = hi[y]
  BY <1>9, <1>21 DEF Put
<1>27. /\ pend1[l] = NoPage /\ pend1 \in [Page -> Page \cup {NoPage}]
       /\ \A y \in Page : y # l => pend1[y] = pend[y]
  BY <1>9, <1>11, <1>17 DEF Put
<1>28. pend2[p] = z /\ \A y \in Page : y # p => pend2[y] = pend1[y]
  BY <1>11, <1>18, <1>27 DEF Put
<1>29. p \in Pages(nd2) /\ Pages(node) \subseteq Pages(nd2)
  <2>1. pend2[p] # NoPage
    BY <1>28, NoPageIsNone
  <2>2. Halves(nd2, pend2, lv2, lo2, hi2)
    BY <1>22 DEF Tree
  <2>3. p \in Pages(nd2)
    BY <1>11, <2>1, <2>2 DEF Halves
  <2> QED
    BY <1>13, <1>23, <2>3 DEF Pages
<1>30. PICK o2 : o2 = [o EXCEPT !.writes = v, !.split = <<promoted, z>>]
  OBVIOUS
<1>31. Goto(t, o2)
  BY <1>1, <1>6, <1>10, <1>30
<1>32. /\ IsCall(o2) /\ o2.pc = "split" /\ o2.kind = o.kind /\ o2.entry = o.entry
       /\ o2.writes = v /\ o2.page = o.page /\ o2.read = o.read
       /\ o2.header = o.header /\ o2.root = o.root /\ o2.split = <<promoted, z>>
  BY <1>5, <1>8, <1>30 DEF IsCall
<1>33. OnPath(nd2, root, lv2, o2, v)
  <2>1. \A y \in ToSet(v) : y \in Pages(nd2) /\ lv2[y] = lv[y]
    BY <1>7, <1>11, <1>13, <1>24, <1>29 DEF Pages
  <2>2. \A y \in ToSet(v) : y # Last(v) => nd2[y] = node[y]
    BY <1>7, <1>11, <1>13, <1>23 DEF Pages
  <2>3. \A i \in 1 .. Len(v) - 1 : v[i] # Last(v)
    BY <1>8, <1>11, PathApart
  <2>4. Path(nd2, lv2, v)
    BY <1>11, <2>1, <2>2, <2>3, PathSame
  <2>5. lv2[v[1]] = lv[v[1]] /\ lv2[o.root] = lv[o.root]
    <3>1. v[1] \in ToSet(v) /\ o.root \in Page /\ o.root # z
      BY <1>7, <1>11, <1>12, LastAndFront DEF OnPath, Path
    <3> QED
      BY <3>1, <2>1, <1>24
  <2> QED
    BY <1>7, <1>11, <1>32, <2>4, <2>5 DEF OnPath
<1>34. Splitting(nd2, root, pend2, lv2, lo2, o2)
  BY <1>7, <1>11, <1>16, <1>22, <1>25, <1>28, <1>32, <1>33 DEF Splitting
<1>35. Stage(nd2, root, pend2, lv2, lo2, hi2, o2)
  BY <1>32, <1>34 DEF Stage
<1>36. WrittenBy(o2) = ToSet(v) /\ o2.read = NoPage /\ z \notin ToSet(v)
  BY <1>7, <1>11, <1>14, <1>32 DEF WrittenBy
<1>37. Onward(op, t, {z}, o2)
  BY <1>7, <1>11, <1>32, <1>36 DEF Onward
<1>38. \A y \in Page : y \in WrittenBy(op[t]) \cup {z} /\ pend2[y] # NoPage =>
         o2.pc = "split" /\ Last(o2.writes) = y /\ pend2[y] \notin WrittenBy(o2)
         /\ pend2[y] \in {z}
  <2> SUFFICES ASSUME NEW y \in Page, y \in WrittenBy(op[t]) \cup {z}, pend2[y] # NoPage
               PROVE  y = p
    BY <1>11, <1>28, <1>32, <1>36
  <2>1. y # z
    BY <1>13, <1>14, <1>27, <1>28
  <2> QED
    BY <2>1, <1>7, <1>27, <1>28
<1>39. \A y \in Page : y \notin WrittenBy(op[t]) /\ y \notin {z} =>
         nd2[y] = node[y] /\ pend2[y] = pend[y] /\ lo2[y] = lo[y] /\ hi2[y] = hi[y]
  BY <1>7, <1>11, <1>23, <1>25, <1>26, <1>27, <1>28
<1>40. StepBy(node, root, op, pend, lv, lo, hi, t, {z}, o2, nd2, root, pend2, lv2, lo2, hi2)
  BY <1>12, <1>13, <1>24, <1>29, <1>32, <1>35, <1>37, <1>38, <1>39 DEF StepBy, Onward
<1>41. Sound(nd2, root, Put(op, t, o2), pend2, lv2, lo2, hi2)
  BY <1>22, <1>40, Stepped
<1>42. op' = Put(op, t, o2) /\ root' = root /\ node' = nd2
  BY <1>5, <1>6, <1>15, <1>31, Gone DEF Put
<1>43. Sound(node', root', op', pend2, lv2, lo2, hi2)
  BY <1>41, <1>42
<1>44. Steady(t, lo, hi, lo2, hi2)
  BY <1>7, <1>11, <1>13, <1>25, <1>26 DEF Steady, Pages
<1> QED
  BY <1>43, <1>44

-----------------------------------------------------------------------------
(* What a thread waits for.                                                *)

\* A page that underflows, its parent p, and its place among p's children.
LEMMA AtSibling ==
  ASSUME EntriesBounded,
         NEW pend, NEW lv, NEW lo, NEW hi, Sound(node, root, op, pend, lv, lo, hi),
         NEW t \in Thread, op[t].pc \in {"left", "right", "merge"},
         NEW w, w = op[t].writes, NEW x, x = op[t].page, NEW p, p = Parent(t)
  PROVE  /\ op[t].kind = "remove" /\ op[t].read = NoPage
         /\ w \in Seq(Page) /\ w # <<>> /\ x \in Page /\ p \in Page /\ p = Last(w)
         /\ OnPath(node, root, lv, op[t], Append(w, x)) /\ Path(node, lv, Append(w, x))
         /\ Path(node, lv, w) /\ Append(w, x)[1] = w[1]
         /\ ChildOf(node, x, p) /\ x # p /\ node[p].kind = "internal" /\ p \in ToSet(w)
         /\ WrittenBy(op[t]) = ToSet(w) \cup {x} /\ WrittenBy(op[t]) \subseteq Pages(node)
         /\ \A z \in WrittenBy(op[t]) : pend[z] = NoPage /\ \A y \in Page : pend[y] # z
         /\ Len(node[p].children) \in Nat /\ Len(node[p].seps) \in Nat
         /\ Len(node[p].children) = Len(node[p].seps) + 1 /\ Len(node[p].children) > 1
         /\ num_children(node[p]) = Len(node[p].children)
         /\ IdxInParent(t) \in Nat /\ IdxInParent(t) + 1 \in 1 .. Len(node[p].children)
         /\ node[p].children[IdxInParent(t) + 1] = x
         /\ op[t].pc = "left" => IdxInParent(t) > 0
         /\ op[t].pc = "right" => IdxInParent(t) + 1 < Len(node[p].children)
<1> DEFINE o == op[t]
<1>1. Tree(node, root, pend, lv, lo, hi) /\ BesideSibling(node, root, lv, o)
  BY Now, StageOf
<1>2. PICK v : v = Append(w, x)
  OBVIOUS
<1>3. /\ x \in Page /\ o.kind = "remove" /\ w # <<>> /\ w \in Seq(Page)
      /\ OnPath(node, root, lv, o, v)
      /\ num_children(node[Last(w)]) > 1
      /\ o.pc = "left" => value_idx(node[Last(w)], x) > 0
      /\ o.pc = "right" => value_idx(node[Last(w)], x) + 1 < num_children(node[Last(w)])
  BY <1>1, <1>2 DEF BesideSibling
<1>4. Path(node, lv, v) /\ o.read = NoPage
  BY <1>3 DEF OnPath
<1>5. v \in Seq(Page) /\ Last(v) = x /\ Front(v) = w /\ ToSet(v) = ToSet(w) \cup {x} /\ v[1] = w[1]
  BY <1>2, <1>3, LastAppended
<1>6. Len(v) > 1
  BY <1>2, <1>3
<1>7. p = Last(w) /\ IdxInParent(t) = value_idx(node[p], x)
  BY DEF Parent, IdxInParent
<1>8. /\ ChildOf(node, x, p) /\ x # p /\ p \in Page /\ node[p].kind = "internal"
      /\ p \in ToSet(w) /\ Path(node, lv, w)
  BY <1>1, <1>4, <1>5, <1>6, <1>7, Above
<1>9. WrittenBy(o) = ToSet(w) \cup {x} /\ WrittenBy(o) \subseteq Pages(node)
  BY <1>1, <1>2, <1>3, <1>5, PathLatched, ZenonT(60) DEF AllWritten
<1>10. \A z \in WrittenBy(o) : pend[z] = NoPage /\ \A y \in Page : pend[y] # z
  <2>1. \A z \in WrittenBy(o) : z \in Page
    BY <1>9 DEF Pages
  <2>2. o.pc # "split"
    OBVIOUS
  <2> QED
    BY <2>1, <2>2, Whole, NotHalf
<1>11. /\ Len(node[p].children) \in Nat /\ Len(node[p].seps) \in Nat
       /\ Len(node[p].children) = Len(node[p].seps) + 1
  BY <1>1, <1>8, Children
<1>12. PICK i \in 1 .. Len(node[p].children) :
         node[p].children[i] = x /\ value_idx(node[p], x) = i - 1
  BY <1>1, <1>8, Placed
<1>13. IdxInParent(t) + 1 = i /\ IdxInParent(t) \in Nat
  BY <1>7, <1>11, <1>12
<1> QED
  BY <1>2, <1>3, <1>4, <1>5, <1>7, <1>8, <1>9, <1>10, <1>11, <1>12, <1>13 DEF num_children

\* The sibling at distance d, and the pair of them from left to right.
LEMMA Flanked ==
  ASSUME EntriesBounded,
         NEW pend, NEW lv, NEW lo, NEW hi, Sound(node, root, op, pend, lv, lo, hi),
         NEW t \in Thread, op[t].pc \in {"left", "right", "merge"},
         NEW p, p = Parent(t), NEW d \in {-1, 1},
         d = -1 => IdxInParent(t) > 0,
         d = 1 => IdxInParent(t) + 1 < num_children(node[p]),
         NEW s, s = Sibling(t, d),
         NEW l, l = (IF d < 0 THEN s ELSE op[t].page),
         NEW r, r = (IF d < 0 THEN op[t].page ELSE s),
         NEW m, m = IdxInParent(t) + (IF d < 0 THEN 0 ELSE 1)
  PROVE  /\ m \in 1 .. Len(node[p].seps)
         /\ l = node[p].children[m] /\ r = node[p].children[m + 1]
         /\ ChildOf(node, s, p)
<1> DEFINE i == IdxInParent(t)
           n == Len(node[p].seps)
<1>1. /\ n \in Nat /\ Len(node[p].children) = n + 1 /\ i \in Nat /\ i + 1 \in 1 .. n + 1
      /\ node[p].children[i + 1] = op[t].page
      /\ num_children(node[p]) = n + 1 /\ p \in Page /\ node[p].kind = "internal"
  BY AtSibling
<1>2. s = node[p].children[i + d + 1]
  BY DEF Sibling, Parent, value_at
<1>3. CASE d = -1
  <2>1. i > 0 /\ m = i /\ l = s /\ r = op[t].page
    BY <1>1, <1>3
  <2>2. i + d + 1 = i /\ i \in 1 .. n /\ i \in 1 .. n + 1
    BY <1>1, <1>3, <2>1
  <2> QED
    BY <1>1, <1>2, <2>1, <2>2 DEF ChildOf
<1>4. CASE d = 1
  <2>1. i + 1 < n + 1 /\ m = i + 1 /\ l = op[t].page /\ r = s
    BY <1>1, <1>4
  <2>2. i + d + 1 = i + 2 /\ i + 1 \in 1 .. n /\ i + 2 \in 1 .. n + 1 /\ (i + 1) + 1 = i + 2
    BY <1>1, <1>4, <2>1
  <2> QED
    BY <1>1, <1>2, <2>1, <2>2 DEF ChildOf
<1> QED
  BY <1>3, <1>4

\* What is latched beside the page that underflowed is a child of the same parent.
LEMMA WantsSibling ==
  ASSUME EntriesBounded,
         NEW pend, NEW lv, NEW lo, NEW hi, Sound(node, root, op, pend, lv, lo, hi),
         NEW t \in Thread, op[t].pc \in {"left", "right", "merge"}
  PROVE  ChildOf(node, Wants(t).page, Parent(t))
<1>1. PICK o, p : o = op[t] /\ p = Parent(t)
  OBVIOUS
<1>2. /\ IdxInParent(t) \in Nat
      /\ num_children(node[p]) > 1 /\ num_children(node[p]) \in Nat
      /\ o.pc = "left" => IdxInParent(t) > 0
      /\ o.pc = "right" => IdxInParent(t) + 1 < num_children(node[p])
  BY <1>1, AtSibling
<1>3. PICK d \in {-1, 1} : /\ Wants(t).page = Sibling(t, d)
                           /\ d = -1 => IdxInParent(t) > 0
                           /\ d = 1 => IdxInParent(t) + 1 < num_children(node[p])
  <2>1. CASE o.pc = "left"
    BY <1>1, <1>2, <2>1, WantsAt
  <2>2. CASE o.pc = "right"
    BY <1>1, <1>2, <2>2, WantsAt
  <2>3. CASE o.pc = "merge" /\ IdxInParent(t) > 0
    BY <1>1, <2>3, WantsAt
  <2>4. CASE o.pc = "merge" /\ ~(IdxInParent(t) > 0)
    <3>1. IdxInParent(t) = 0
      BY <1>2, <2>4
    <3> QED
      BY <1>1, <1>2, <2>4, <3>1, WantsAt
  <2> QED
    BY <1>1, <2>1, <2>2, <2>3, <2>4
<1> QED
  BY <1>1, <1>3, Flanked

\* What o may wait for: the header, the root while it holds the header, or a
\* child of a page it holds.
MayWant(o, p) ==
  \/ p \in {Header, NoPage}
  \/ p = root /\ o.header # "none" /\ Unwritten(o) /\ o.read = NoPage
  \/ \E q \in Page : q \in WrittenBy(o) \cup {o.read} /\ ChildOf(node, p, q)

LEMMA WantsBelow ==
  ASSUME EntriesBounded,
         NEW pend, NEW lv, NEW lo, NEW hi, Sound(node, root, op, pend, lv, lo, hi),
         NEW t \in Thread, op[t].kind \notin Lookups
  PROVE  MayWant(op[t], Wants(t).page)
<1>1. PICK o : o = op[t]
  OBVIOUS
<1>2. Tree(node, root, pend, lv, lo, hi) /\ Stage(node, root, pend, lv, lo, hi, o)
  BY <1>1, Now
<1>3. CASE o.pc \in {"idle", "return", "at_leaf", "split", "underflow"}
  <2>1. Wants(t).page = NoPage
    BY <1>1, <1>3, WantsAt
  <2> QED
    BY <2>1 DEF MayWant
<1>4. CASE o.pc \in {"header", "header_w"}
  <2>1. Wants(t).page = Header
    BY <1>1, <1>4, WantsAt
  <2> QED
    BY <2>1 DEF MayWant
<1>5. CASE o.pc = "root" /\ Descending(node, root, lv, lo, hi, o)
  <2>1. Wants(t).page = o.root
    BY <1>1, <1>5, WantsAt
  <2>2. o.root = root /\ o.header = "read" /\ o.read = NoPage /\ Unwritten(o)
    BY <1>5 DEF Descending
  <2> QED
    BY <1>1, <2>1, <2>2 DEF MayWant
<1>6. CASE o.pc = "descend" /\ Descending(node, root, lv, lo, hi, o)
  <2>1. o.read \in Page /\ node[o.read].kind = "internal" /\ Within(lo, hi, o.read, o.entry)
    BY <1>6 DEF Descending
  <2>2. Wants(t).page = ChosenChild(node, o.read, o.entry)
    BY <1>1, <1>6, WantsAt
  <2>3. ChildOf(node, Wants(t).page, o.read)
    BY <1>2, <2>1, <2>2, ChildChosen
  <2> QED
    BY <1>1, <2>1, <2>3 DEF MayWant
<1>7. CASE o.pc = "leaf" /\ Descending(node, root, lv, lo, hi, o)
  <2>1. Wants(t).page = o.target
    BY <1>1, <1>7, WantsAt
  <2>2. CASE o.read = NoPage /\ o.header = "read" /\ o.target = root
    BY <1>1, <1>7, <2>1, <2>2 DEF MayWant, Descending
  <2>3. CASE /\ o.read \in Page /\ node[o.read].kind = "internal"
             /\ Within(lo, hi, o.read, o.entry) /\ o.target = ChosenChild(node, o.read, o.entry)
    <3>1. ChildOf(node, Wants(t).page, o.read)
      BY <1>2, <2>1, <2>3, ChildChosen
    <3> QED
      BY <1>1, <2>3, <3>1 DEF MayWant
  <2> QED
    BY <1>7, <2>2, <2>3 DEF Descending
<1>8. CASE o.pc = "root_w"
  <2>1. Wants(t).page = o.root
    BY <1>1, <1>8, WantsAt
  <2>2. AtRootForWrite(root, o)
    BY <1>2, <1>8, StageOf
  <2> QED
    BY <1>1, <2>1, <2>2 DEF MayWant, AtRootForWrite
<1>9. CASE o.pc = "descend_w"
  <2>1. DescendingForWrite(node, root, lv, lo, hi, o)
    BY <1>2, <1>9, StageOf
  <2>2. PICK q : q = Last(o.writes)
    OBVIOUS
  <2>3. /\ o.page = NoPage /\ OnPath(node, root, lv, o, o.writes)
        /\ Within(lo, hi, q, o.entry) /\ node[q].kind = "internal"
    BY <1>9, <2>1, <2>2 DEF DescendingForWrite
  <2>4. q \in ToSet(o.writes) /\ q \in Page
    BY <2>2, <2>3, LastAndFront DEF OnPath, Path
  <2>5. Wants(t).page = ChosenChild(node, q, o.entry)
    BY <1>1, <1>9, <2>2, WantsAt
  <2>6. ChildOf(node, Wants(t).page, q)
    BY <1>2, <2>3, <2>4, <2>5, ChildChosen
  <2> QED
    BY <1>1, <2>4, <2>6 DEF MayWant, WrittenBy
<1>10. CASE o.pc \in {"left", "right", "merge"}
  <2>1. Parent(t) \in ToSet(o.writes) /\ Parent(t) \in Page
    BY <1>1, <1>10, AtSibling
  <2>2. ChildOf(node, Wants(t).page, Parent(t))
    BY <1>1, <1>10, WantsSibling
  <2> QED
    BY <1>1, <2>1, <2>2 DEF MayWant, WrittenBy
<1>11. CASE o.pc = "shrink"
  <2>1. /\ o.page = root /\ root # NoPage /\ node[root].kind = "internal"
        /\ num_children(node[root]) = 1
    BY <1>2, <1>11, StageOf DEF Shrinking
  <2>2. root \in Page
    BY <1>2, <2>1 DEF Tree, Typed, Pages
  <2>3. Wants(t).page = node[root].children[1]
    BY <1>1, <1>11, <2>1, WantsAt DEF value_at
  <2>4. ChildOf(node, Wants(t).page, root)
    BY <2>1, <2>2, <2>3 DEF ChildOf, num_children
  <2>5. root \in WrittenBy(o)
    BY <2>1 DEF WrittenBy
  <2> QED
    BY <1>1, <2>2, <2>4, <2>5 DEF MayWant
<1>12. ~Looking(node, lv, o)
  BY <1>1 DEF Looking
<1> QED
  BY <1>2, <1>3, <1>4, <1>5, <1>6, <1>7, <1>8, <1>9, <1>10, <1>11, <1>12 DEF Stage

\* The root while the header is latched for writing, and the child of a page
\* that is latched for writing, nobody else has pinned.
LEMMA Unpinned ==
  ASSUME EntriesBounded,
         NEW pend, NEW lv, NEW lo, NEW hi, Sound(node, root, op, pend, lv, lo, hi),
         NEW t \in Thread, op[t].kind = "remove", NEW p \in Page, Alone(op, t, p),
         \/ p = root /\ op[t].header = "write"
         \/ \E q \in WrittenBy(op[t]) : ChildOf(node, p, q)
  PROVE  ~PinnedByOther(t, p)
<1> SUFFICES ASSUME NEW u \in Thread \ {t}, p \in Written(u) \cup {op[u].read, Wants(u).page}
             PROVE  FALSE
  BY DEF PinnedByOther
<1>1. Tree(node, root, pend, lv, lo, hi) /\ u \in Thread /\ t # u
  BY Now
<1>2. Apart(op[t], op[u]) /\ Apart(op[u], op[t])
  BY <1>1 DEF Sound
<1>3. p = Wants(u).page
  BY DEF Alone, Written, WrittenBy, NoPage
<1>4. MayWant(op[u], p)
  BY <1>1, <1>2, <1>3, WantsBelow DEF Apart
<1>5. p # Header /\ p # NoPage
  BY PageAssumption, NoPageIsNone DEF Header
<1>6. CASE p = root /\ op[u].header # "none"
  <2>1. op[t].header # "write"
    BY <1>2, <1>6 DEF Apart
  <2> QED
    BY <2>1, <1>1, <1>6, TopNoChild
<1>7. CASE \E q \in Page : q \in WrittenBy(op[u]) \cup {op[u].read} /\ ChildOf(node, p, q)
  <2>1. PICK q \in Page : q \in WrittenBy(op[u]) \cup {op[u].read} /\ ChildOf(node, p, q)
    BY <1>7
  <2>2. p # root
    BY <1>1, <2>1, TopNoChild
  <2>3. PICK z \in WrittenBy(op[t]) : ChildOf(node, p, z)
    BY <2>2
  <2>4. z = q
    BY <1>1, <2>1, <2>3, OneParent
  <2> QED
    BY <1>2, <2>1, <2>3, <2>4 DEF Apart
<1> QED
  BY <1>4, <1>5, <1>6, <1>7 DEF MayWant

-----------------------------------------------------------------------------
(* Removal with write latches.                                             *)

\* t changes pages it has latched and goes on.
LEMMA Moved ==
  ASSUME NEW nd, NEW top, NEW calls, NEW pend, NEW lv, NEW lo, NEW hi,
         Sound(nd, top, calls, pend, lv, lo, hi), NEW t \in Thread, NEW G, NEW o,
         calls[t].pc # "split",
         \A p \in G : p \in Page /\ Alone(calls, t, p) /\ \A z \in Page : pend[z] # p,
         NEW nd2, NEW lo2, NEW hi2, Tree(nd2, top, pend, lv, lo2, hi2),
         Pages(nd) \subseteq Pages(nd2) \/ calls[t].kind = "remove",
         \A p \in Page : p \notin WrittenBy(calls[t]) /\ p \notin G =>
           nd2[p] = nd[p] /\ lo2[p] = lo[p] /\ hi2[p] = hi[p],
         IsCall(o), Stage(nd2, top, pend, lv, lo2, hi2, o), Onward(calls, t, G, o)
  PROVE  Sound(nd2, top, Put(calls, t, o), pend, lv, lo2, hi2)
<1>1. \A p \in Page : p \in WrittenBy(calls[t]) \cup G => pend[p] = NoPage
  BY Whole DEF Alone
<1>2. StepBy(nd, top, calls, pend, lv, lo, hi, t, G, o, nd2, top, pend, lv, lo2, hi2)
  BY <1>1 DEF StepBy, Onward
<1> QED
  BY <1>2, Stepped

\* The page p is popped and a sibling is looked for.
LEMMA BesideMade ==
  ASSUME EntriesBounded,
         NEW pend, NEW lv, NEW lo, NEW hi, Tree(node, root, pend, lv, lo, hi),
         NEW w, Path(node, lv, w), Len(w) > 1, NEW p, p = Last(w), NEW v, v = Front(w),
         NEW q, q = Last(v), num_children(node[q]) > 1, NEW nd2, nd2[q] = node[q],
         NEW o, o.pc = FirstSide(p, q), o.page = p, o.writes = v, o.kind = "remove",
         OnPath(nd2, root, lv, o, w)
  PROVE  /\ o.pc \in {"left", "right"} /\ Stage(nd2, root, pend, lv, lo, hi, o)
         /\ WrittenBy(o) = ToSet(w) /\ o.read = NoPage
<1>1. /\ ChildOf(node, p, q) /\ p \in Page /\ q \in Page /\ node[q].kind = "internal"
      /\ ToSet(w) = ToSet(v) \cup {p} /\ v \in Seq(Page) /\ v # <<>>
  BY Above
<1>2. w = Append(v, p)
  BY PathShortened
<1>3. PICK i \in 1 .. Len(node[q].children) : value_idx(node[q], p) = i - 1
  BY <1>1, Placed
<1>4. Len(node[q].children) \in Nat
  BY <1>1, Children
<1>5. o.pc \in {"left", "right"}
  BY DEF FirstSide
<1>6. o.pc = "left" => value_idx(node[q], p) > 0
  BY DEF FirstSide
<1>7. o.pc = "right" => value_idx(node[q], p) + 1 < num_children(node[q])
  <2> SUFFICES ASSUME o.pc = "right" PROVE value_idx(node[q], p) + 1 < num_children(node[q])
    OBVIOUS
  <2>1. ~(value_idx(node[q], p) > 0)
    BY DEF FirstSide
  <2>2. i = 1
    BY <1>3, <1>4, <2>1
  <2> QED
    BY <1>3, <1>4, <2>2 DEF num_children
<1>8. BesideSibling(nd2, root, lv, o)
  BY <1>1, <1>2, <1>6, <1>7 DEF BesideSibling
<1>9. Stage(nd2, root, pend, lv, lo, hi, o)
  BY <1>5, <1>8 DEF Stage
<1>10. WrittenBy(o) = ToSet(w) /\ o.read = NoPage
  BY <1>1, NoPageIsNone DEF WrittenBy, OnPath
<1> QED
  BY <1>5, <1>9, <1>10

\* A root leaf that has become empty is deleted.
LEMMA EmptiedKept ==
  ASSUME EntriesBounded,
         NEW pend, NEW lv, NEW lo, NEW hi, Sound(node, root, op, pend, lv, lo, hi),
         NEW t \in Thread, op[t].pc = "at_leaf", op[t].kind = "remove",
         NEW w, w = op[t].writes, Front(w) = <<>>, NEW p, p = Last(w),
         ~is_delete_safe(node[p]), NEW after, \A z \in Page : z # p => after[z] = node[z],
         after = [z \in Page |-> after[z]],
         root' = INVALID_PAGE_ID, Deleting(t, p, after, Returned(Ok))
  PROVE  Sound(node', root', op', pend, lv, lo, hi)
<1> DEFINE o == op[t]
<1>1. /\ LeafHeld(pend, lo, hi, t, p) /\ DescendingForWrite(node, root, lv, lo, hi, o)
      /\ OnPath(node, root, lv, o, w) /\ WrittenBy(o) = ToSet(w) /\ w \in Seq(Page) /\ w # <<>>
      /\ p \in ToSet(w) /\ ToSet(w) \subseteq Pages(node)
  BY AtLeaf
<1>2. Tree(node, root, pend, lv, lo, hi) /\ node \in [Page -> PageRecords]
  BY Now DEF Tree, Typed
<1>3. Len(w) = 1 /\ w[1] = p
  BY <1>1, LastAndFront
<1>4. o.header = "write" /\ root = p
  BY <1>1, <1>3 DEF DescendingForWrite, OnPath
<1>5. p \in Page /\ node[p].kind = "leaf" /\ p \in WrittenBy(o)
  BY <1>1 DEF LeafHeld
<1>6. pend[p] = NoPage
  BY <1>5, Whole
<1>7. Pages(node) = {p} /\ \A z \in Page : pend[z] = NoPage
  BY <1>2, <1>4, <1>5, <1>6, TopAlone
<1>8. Alone(op, t, p)
  BY <1>5, Held
<1>9. ~PinnedByOther(t, p)
  BY <1>4, <1>5, <1>8, Unpinned
<1>10. PICK nd2 : nd2 = [after EXCEPT ![p] = Free]
  OBVIOUS
<1>11. nd2[p] = Free /\ \A z \in Page : z # p => nd2[z] = node[z]
  BY <1>5, <1>10
<1>12. nd2 = [z \in Page |-> nd2[z]]
  BY <1>10
<1>13. nd2 \in [Page -> PageRecords] /\ Pages(nd2) = {}
  <2>1. \A z \in Page : nd2[z] \in PageRecords
    BY <1>2, <1>11 DEF PageRecords
  <2>2. Free.kind = "free"
    BY DEF Free
  <2>3. Pages(nd2) = {}
    BY <1>7, <1>11, <2>2 DEF Pages
  <2> QED
    BY <1>12, <2>1, <2>3
<1>14. Tree(nd2, NoPage, pend, lv, lo, hi)
  BY <1>2, <1>4, <1>5, <1>6, <1>13, Felled
<1>15. PICK o2 : o2 = Returning(Ok)
  OBVIOUS
<1>16. IsCall(o2) /\ Stage(nd2, NoPage, pend, lv, lo, hi, o2) /\ Onward(op, t, {}, o2)
  BY <1>15, AtReturn
<1>17. \A u \in Thread \ {t} : op[u].header = "none"
  BY <1>4 DEF Sound, Apart
<1>18. StepBy(node, root, op, pend, lv, lo, hi, t, {}, o2, nd2, NoPage, pend, lv, lo, hi)
  BY <1>5, <1>7, <1>11, <1>16, <1>17 DEF StepBy, Onward
<1>19. Sound(nd2, NoPage, Put(op, t, o2), pend, lv, lo, hi)
  BY <1>14, <1>18, Stepped
<1>20. node' = nd2 /\ root' = NoPage /\ op' = Put(op, t, o2)
  BY <1>9, <1>10, <1>15, Gone DEF Deleting, Returned, Returning, NoPage
<1> QED
  BY <1>19, <1>20

\* A leaf that is not the only page underflows.
LEMMA DeficientKept ==
  ASSUME EntriesBounded, NoTombstones,
         NEW pend, NEW lv, NEW lo, NEW hi, Sound(node, root, op, pend, lv, lo, hi),
         NEW t \in Thread, op[t].pc = "at_leaf", op[t].kind = "remove",
         NEW w, w = op[t].writes, Front(w) # <<>>, NEW p, p = Last(w),
         ~Absent(node[p], op[t].entry), num_children(node[Last(Front(w))]) > 1,
         node' = [node EXCEPT ![p] = WithoutEntry(node[p], op[t].entry)], UNCHANGED root,
         Goto(t, [op[t] EXCEPT !.pc = FirstSide(p, Last(Front(w))),
                               !.answer = Ok, !.page = p, !.writes = Front(w)])
  PROVE  Sound(node', root', op', pend, lv, lo, hi)
<1> DEFINE o == op[t]
           e == op[t].entry
<1>1. /\ LeafHeld(pend, lo, hi, t, p)
      /\ OnPath(node, root, lv, o, w) /\ Path(node, lv, w) /\ WrittenBy(o) = ToSet(w)
      /\ w \in Seq(Page) /\ w # <<>> /\ p \in ToSet(w) /\ ToSet(w) \subseteq Pages(node)
  BY AtLeaf
<1>2. /\ Tree(node, root, pend, lv, lo, hi) /\ IsCall(o)
      /\ p \in Page /\ node[p].kind = "leaf" /\ e \in Entry
  BY <1>1, Now DEF LeafHeld, Within
<1>3. node \in [Page -> PageRecords]
  BY <1>2 DEF Tree, Typed
<1>4. Len(w) > 1
  <2>1. Len(w) \in Nat /\ Len(w) >= 1 /\ Front(w) \in Seq(Page) /\ Len(Front(w)) = Len(w) - 1
    BY <1>1, LastAndFront
  <2> QED
    BY <2>1
<1>5. PICK v : v = Front(w)
  OBVIOUS
<1>6. PICK q : q = Last(v)
  OBVIOUS
<1>7. q # p /\ q \in Page
  BY <1>1, <1>2, <1>4, <1>5, <1>6, Above
<1>8. PICK n : n = WithoutEntry(node[p], e)
  OBVIOUS
<1>9. PICK nd2 : nd2 = Put(node, p, n)
  OBVIOUS
<1>10. n.kind = "leaf" /\ Tree(nd2, root, pend, lv, lo, hi)
  BY <1>2, <1>8, <1>9, LeafLoses DEF NoTombstones
<1>11. nd2[p] = n /\ \A z \in Page : z # p => nd2[z] = node[z]
  BY <1>2, <1>3, <1>9 DEF Put
<1>12. Pages(node) \subseteq Pages(nd2)
  BY <1>10, <1>11, PagesGrow
<1>13. PICK o2 : o2 = [o EXCEPT !.pc = FirstSide(p, q), !.answer = Ok, !.page = p, !.writes = v]
  OBVIOUS
<1>14. /\ IsCall(o2) /\ o2.pc = FirstSide(p, q) /\ o2.kind = o.kind /\ o2.entry = o.entry
       /\ o2.writes = v /\ o2.page = p /\ o2.read = o.read
       /\ o2.header = o.header /\ o2.root = o.root
  BY <1>2, <1>13 DEF IsCall
<1>15. OnPath(nd2, root, lv, o2, w)
  <2>1. \A i \in 1 .. Len(w) - 1 : w[i] # Last(w)
    BY <1>1, <1>2, PathApart
  <2>2. \A z \in ToSet(w) : z \in Pages(nd2) /\ (z # Last(w) => nd2[z] = node[z])
    BY <1>1, <1>11, <1>12 DEF Pages
  <2>3. Path(nd2, lv, w)
    BY <1>1, <2>1, <2>2, PathSame
  <2> QED
    BY <1>1, <1>14, <2>3 DEF OnPath
<1>16. /\ Stage(nd2, root, pend, lv, lo, hi, o2) /\ WrittenBy(o2) = ToSet(w)
       /\ o2.read = NoPage
  BY <1>1, <1>2, <1>4, <1>5, <1>6, <1>7, <1>11, <1>14, <1>15, BesideMade
<1>17. Onward(op, t, {}, o2)
  BY <1>1, <1>14, <1>16 DEF Onward
<1>18. \A z \in Page : z \notin WrittenBy(op[t]) => nd2[z] = node[z]
  BY <1>1, <1>11
<1>19. Sound(nd2, root, Put(op, t, o2), pend, lv, lo, hi)
  BY <1>10, <1>12, <1>14, <1>16, <1>17, <1>18, Moved
<1>20. node' = nd2 /\ root' = root /\ op' = Put(op, t, o2)
  BY <1>5, <1>6, <1>8, <1>9, <1>13, Gone DEF Put
<1> QED
  BY <1>19, <1>20

LEMMA RemoveAtLeafKept ==
  ASSUME EntriesBounded, NoTombstones,
         NEW pend, NEW lv, NEW lo, NEW hi, Sound(node, root, op, pend, lv, lo, hi),
         NEW t \in Thread, RemoveAtLeaf(t)
  PROVE  Sound(node', root', op', pend, lv, lo, hi)
<1> DEFINE o == op[t]
           e == op[t].entry
<1>1. PICK w : w = o.writes
  OBVIOUS
<1>2. PICK p : p = Last(w)
  OBVIOUS
<1>3. o.pc = "at_leaf" /\ o.kind = "remove"
  BY DEF RemoveAtLeaf
<1>4. LeafHeld(pend, lo, hi, t, p)
  BY <1>1, <1>2, <1>3, AtLeaf
<1>5. PICK after : after = [node EXCEPT ![p] = WithoutEntry(node[p], e)]
  OBVIOUS
<1>6. ~DeletePanics(node[p], e)
  BY NeverEvicts
<1>7. CASE Finish(t, <<"not_found", <<>>>>) /\ UNCHANGED <<root, node, panicked>>
  BY <1>3, <1>7, JustReturned
<1>8. CASE ~Absent(node[p], e) /\ node' = after /\ Finish(t, Ok) /\ UNCHANGED <<root, panicked>>
  <2>1. node' = [node EXCEPT ![p] = WithoutEntry(node[p], e)]
    BY <1>5, <1>8
  <2> QED
    BY <1>4, <1>8, <2>1, LostKept
<1>9. CASE /\ ~is_delete_safe(node[p]) /\ Front(w) = <<>>
           /\ root' = INVALID_PAGE_ID /\ Deleting(t, p, after, Returned(Ok))
  <2>1. node \in [Page -> PageRecords]
    BY Now DEF Tree, Typed
  <2>2. /\ \A z \in Page : z # p => after[z] = node[z]
        /\ after = [z \in Page |-> after[z]]
    BY <1>5, <2>1
  <2> QED
    BY <1>1, <1>2, <1>3, <1>9, <2>2, EmptiedKept
<1>10. CASE /\ ~Absent(node[p], e) /\ Front(w) # <<>> /\ num_children(node[Last(Front(w))]) > 1
            /\ node' = after /\ UNCHANGED root
            /\ Goto(t, [op[t] EXCEPT !.pc = FirstSide(p, Last(Front(w))),
                                     !.answer = Ok, !.page = p, !.writes = Front(w)])
  <2>1. node' = [node EXCEPT ![p] = WithoutEntry(node[p], op[t].entry)]
    BY <1>5, <1>10
  <2> QED
    BY <1>1, <1>2, <1>3, <1>10, <2>1, DeficientKept
<1>11. CASE Panic
  BY <1>11, Still DEF Panic
<1>12. \/ Absent(node[p], e) /\ Finish(t, <<"not_found", <<>>>>) /\ UNCHANGED <<root, node, panicked>>
       \/ ~Absent(node[p], e) /\ node' = after /\ Finish(t, Ok) /\ UNCHANGED <<root, panicked>>
       \/ /\ ~is_delete_safe(node[p]) /\ Front(w) = <<>>
          /\ root' = INVALID_PAGE_ID /\ Deleting(t, p, after, Returned(Ok))
       \/ /\ ~Absent(node[p], e) /\ Front(w) # <<>> /\ num_children(node[Last(Front(w))]) > 1
          /\ node' = after /\ UNCHANGED <<root, panicked>>
          /\ Goto(t, [op[t] EXCEPT !.pc = FirstSide(p, Last(Front(w))),
                                   !.answer = Ok, !.page = p, !.writes = Front(w)])
       \/ Panic
  BY <1>1, <1>2, <1>5, <1>6 DEF RemoveAtLeaf
<1> QED
  BY <1>7, <1>8, <1>9, <1>10, <1>11, <1>12

-----------------------------------------------------------------------------
(* With a sibling.                                                         *)

\* The sibling that has been latched.
LEMMA SiblingHeld ==
  ASSUME EntriesBounded,
         NEW pend, NEW lv, NEW lo, NEW hi, Sound(node, root, op, pend, lv, lo, hi),
         NEW t \in Thread, NEW pc, Granted(t, pc), op[t].pc # "split",
         NEW s, Wants(t) = [page |-> s, mode |-> "write"], NEW p, ChildOf(node, s, p)
  PROVE  /\ s \in Page /\ s \in Pages(node) /\ Alone(op, t, s) /\ pend[s] = NoPage
         /\ \A z \in Page : pend[z] # s
<1>1. Tree(node, root, pend, lv, lo, hi)
  BY Now
<1>2. s \in Pages(node) /\ s \in Page
  BY <1>1, ChildRange DEF Pages
<1>3. Alone(op, t, s)
  BY GrantedFor
<1>4. pend[s] = NoPage
  BY <1>2, <1>3, Whole DEF Alone
<1>5. \A z \in Page : pend[z] # s
  BY <1>2, NotHalf
<1> QED
  BY <1>2, <1>3, <1>4, <1>5

\* The next sibling's turn.
LEMMA TurnKept ==
  ASSUME EntriesBounded,
         NEW pend, NEW lv, NEW lo, NEW hi, Sound(node, root, op, pend, lv, lo, hi),
         NEW t \in Thread, op[t].pc \in {"left", "right"}, NEW pc \in {"right", "merge"},
         pc = "right" => HasRight(t),
         Goto(t, [op[t] EXCEPT !.pc = pc]), UNCHANGED <<root, node>>
  PROVE  Sound(node', root', op', pend, lv, lo, hi)
<1> DEFINE o == op[t]
<1>1. IsCall(o) /\ BesideSibling(node, root, lv, o)
  BY Now, StageOf
<1>2. PICK o2 : o2 = [o EXCEPT !.pc = pc]
  OBVIOUS
<1>3. /\ IsCall(o2) /\ o2.pc = pc /\ o2.kind = o.kind /\ o2.entry = o.entry
      /\ o2.writes = o.writes /\ o2.page = o.page /\ o2.read = o.read
      /\ o2.header = o.header /\ o2.root = o.root
  BY <1>1, <1>2 DEF IsCall
<1>4. BesideSibling(node, root, lv, o2)
  BY <1>1, <1>3 DEF BesideSibling, OnPath, HasRight, IdxInParent, Parent
<1>5. Stage(node, root, pend, lv, lo, hi, o2)
  BY <1>3, <1>4 DEF Stage
<1>6. WrittenBy(o2) = WrittenBy(o) /\ o2.read = NoPage
  BY <1>1, <1>3 DEF WrittenBy, BesideSibling, OnPath
<1>7. Onward(op, t, {}, o2)
  BY <1>3, <1>6 DEF Onward
<1> QED
  BY <1>2, <1>3, <1>5, <1>7, WalkedTo

\* t changes pages it has latched, and returns.
LEMMA ReturnedWith ==
  ASSUME NEW pend, NEW lv, NEW lo, NEW hi, Sound(node, root, op, pend, lv, lo, hi),
         NEW t \in Thread, op[t].pc # "split", NEW G,
         \A p \in G : p \in Page /\ Alone(op, t, p) /\ \A z \in Page : pend[z] # p,
         NEW nd2, NEW lo2, NEW hi2, Tree(nd2, root, pend, lv, lo2, hi2),
         Pages(node) \subseteq Pages(nd2),
         \A p \in Page : p \notin WrittenBy(op[t]) /\ p \notin G =>
           nd2[p] = node[p] /\ lo2[p] = lo[p] /\ hi2[p] = hi[p],
         node' = nd2, UNCHANGED root, NEW answer, Finish(t, answer)
  PROVE  Sound(node', root', op', pend, lv, lo2, hi2)
<1>1. PICK o2 : o2 = Returning(answer)
  OBVIOUS
<1>2. Sound(nd2, root, Put(op, t, o2), pend, lv, lo2, hi2)
  <2>1. IsCall(o2) /\ Stage(nd2, root, pend, lv, lo2, hi2, o2) /\ Onward(op, t, G, o2)
    BY <1>1, AtReturn
  <2> QED
    BY <2>1, Moved
<1>3. op' = Put(op, t, o2)
  BY <1>1, Gone DEF Finish, Returning
<1> QED
  BY <1>2, <1>3

\* What is moved between the children l and r of p, under the separator x.
LEMMA PairChanged ==
  ASSUME EntriesBounded,
         NEW pend, NEW lv, NEW lo, NEW hi, Sound(node, root, op, pend, lv, lo, hi),
         NEW t \in Thread, op[t].pc # "split",
         NEW s \in Page, Alone(op, t, s), \A z \in Page : pend[z] # s,
         NEW p \in WrittenBy(op[t]), NEW l \in Page, NEW r \in Page,
         l \in WrittenBy(op[t]) \cup {s}, r \in WrittenBy(op[t]) \cup {s},
         NEW a, a.kind # "free", NEW b, b.kind # "free", NEW c, c.kind # "free",
         NEW nd2, nd2 = Put(Put(Put(node, l, a), r, b), p, c), l # r, l # p, r # p,
         NEW x, Tree(nd2, root, pend, lv, Put(lo, r, x), Put(hi, l, x)),
         node' = nd2, UNCHANGED root, NEW answer, Finish(t, answer)
  PROVE  Sound(node', root', op', pend, lv, Put(lo, r, x), Put(hi, l, x))
<1>1. /\ node \in [Page -> PageRecords] /\ lo \in [Page -> Int] /\ hi \in [Page -> Int]
  BY Now DEF Tree, Typed
<1>2. p \in Page
  BY Held
<1>3. PICK lo2 : lo2 = Put(lo, r, x)
  OBVIOUS
<1>4. PICK hi2 : hi2 = Put(hi, l, x)
  OBVIOUS
<1>5. /\ nd2[l] = a /\ nd2[r] = b /\ nd2[p] = c
      /\ \A z \in Page : z # l /\ z # r /\ z # p => nd2[z] = node[z]
  BY <1>1, <1>2 DEF Put
<1>6. \A z \in Page : z # r => lo2[z] = lo[z]
  BY <1>1, <1>3 DEF Put
<1>7. \A z \in Page : z # l => hi2[z] = hi[z]
  BY <1>1, <1>4 DEF Put
<1>8. \A z \in Page : z \notin WrittenBy(op[t]) /\ z \notin {s} =>
        nd2[z] = node[z] /\ lo2[z] = lo[z] /\ hi2[z] = hi[z]
  BY <1>5, <1>6, <1>7
<1>9. Pages(node) \subseteq Pages(nd2)
  <2>1. \A z \in Page : nd2[z] = node[z] \/ nd2[z].kind # "free"
    BY <1>5
  <2> QED
    BY <2>1, PagesGrow
<1> DEFINE G == {s}
<1>11. /\ \A z \in G : z \in Page /\ Alone(op, t, z) /\ \A y \in Page : pend[y] # z
       /\ \A z \in Page : z \notin WrittenBy(op[t]) /\ z \notin G =>
            nd2[z] = node[z] /\ lo2[z] = lo[z] /\ hi2[z] = hi[z]
  BY <1>8
<1> HIDE DEF G
<1>12. Tree(nd2, root, pend, lv, lo2, hi2)
  BY <1>3, <1>4
<1>13. Sound(node', root', op', pend, lv, lo2, hi2)
  BY <1>9, <1>11, <1>12, ReturnedWith, SMTT(60)
<1> QED
  BY <1>3, <1>4, <1>13

LEMMA SepReplaced ==
  ASSUME NEW n, NEW u, NEW w, n = InternalNode(u, w), NEW m, NEW s
  PROVE  [n EXCEPT !.seps[m] = s] = InternalNode(u, Put(w, m, s))
BY DEF InternalNode, Put

\* Where the entries of two leaves are cut.
LEMMA CutBetween ==
  ASSUME NEW left \in LeafRecords, NEW right \in LeafRecords, Redistribute(left, right)
  PROVE  /\ CutAt(left, right) \in Nat /\ CutAt(left, right) >= 1
         /\ CutAt(left, right) < Len(left.entries) + Len(right.entries)
<1> DEFINE a == Len(left.entries)
           b == Len(right.entries)
           h == LeafMax \div 2
<1>1. /\ a \in Nat /\ b \in Nat /\ live_size(left) = a /\ live_size(right) = b
      /\ left.kind = "leaf" /\ right.kind = "leaf"
  BY LeafFields
<1>2. min_size(left) = h /\ min_size(right) = h
  BY <1>1 DEF min_size
<1>3. LeafMax \in Nat /\ LeafMax >= 2
  BY SizeAssumption
<1>4. h \in Nat /\ h >= 1 /\ h <= LeafMax
  BY <1>3
<1>5. a + b > LeafMax
  BY <1>1 DEF Redistribute
<1>6. CutAt(left, right) = IF a < h THEN h ELSE a + b - h
  BY <1>1, <1>2 DEF CutAt
<1> DEFINE c == CutAt(left, right)
<1> HIDE DEF a, b, h, c
<1>7. c \in Nat /\ c >= 1 /\ c < a + b
  <2>1. c = IF a < h THEN h ELSE a + b - h
    BY <1>6 DEF c
  <2> QED
    BY <2>1, <1>1, <1>3, <1>4, <1>5
<1> QED
  BY <1>7 DEF a, b, c

\* The children l and r of p, one of them the page that underflows and the other
\* the sibling s that has been latched.
LEMMA PairHeld ==
  ASSUME EntriesBounded,
         NEW pend, NEW lv, NEW lo, NEW hi, Sound(node, root, op, pend, lv, lo, hi),
         NEW t \in Thread, NEW pc \in {"left", "right", "merge"}, Granted(t, pc),
         NEW p, p = Parent(t), NEW d \in {-1, 1},
         d = -1 => IdxInParent(t) > 0,
         d = 1 => IdxInParent(t) + 1 < num_children(node[p]),
         NEW s, s = Sibling(t, d), Wants(t) = [page |-> s, mode |-> "write"],
         NEW l, l = (IF d < 0 THEN s ELSE op[t].page),
         NEW r, r = (IF d < 0 THEN op[t].page ELSE s),
         NEW m, m = IdxInParent(t) + (IF d < 0 THEN 0 ELSE 1)
  PROVE  /\ op[t].pc = pc /\ p \in WrittenBy(op[t]) /\ op[t].page \in WrittenBy(op[t])
         /\ p \in Page /\ node[p].kind = "internal" /\ m \in 1 .. Len(node[p].seps)
         /\ l = node[p].children[m] /\ r = node[p].children[m + 1]
         /\ pend[l] = NoPage /\ pend[r] = NoPage /\ l \in Page /\ r \in Page
         /\ l \in WrittenBy(op[t]) \cup {s} /\ r \in WrittenBy(op[t]) \cup {s}
         /\ s \in Page /\ Alone(op, t, s) /\ \A z \in Page : pend[z] # s
         /\ Adjacent(node, root, pend, lv, lo, hi, p, m, l, r)
         /\ IsLeaf(op[t].page) <=> node[l].kind = "leaf"
         /\ node[l].kind = "leaf" => node[r].kind = "leaf"
         /\ node[l].kind # "leaf" => node[l].kind = "internal" /\ node[r].kind = "internal"
<1> DEFINE o == op[t]
<1>1. op[t].pc = pc
  BY DEF Granted
<1>a. PICK w : w = op[t].writes
  OBVIOUS
<1>b. PICK x : x = op[t].page
  OBVIOUS
<1>2. /\ x \in Page /\ p \in Page /\ node[p].kind = "internal"
      /\ p \in ToSet(w) /\ WrittenBy(op[t]) = ToSet(w) \cup {x}
      /\ \A z \in WrittenBy(op[t]) : pend[z] = NoPage
  BY <1>1, <1>a, <1>b, AtSibling, SMTT(60)
<1>3. /\ m \in 1 .. Len(node[p].seps) /\ ChildOf(node, s, p)
      /\ l = node[p].children[m] /\ r = node[p].children[m + 1]
  BY <1>1, Flanked
<1>4. s \in Page /\ Alone(op, t, s) /\ pend[s] = NoPage /\ \A z \in Page : pend[z] # s
  BY <1>1, <1>3, SiblingHeld
<1>5. l \in {s, x} /\ r \in {s, x} /\ x \in {l, r}
  BY <1>b
<1>6. /\ pend[l] = NoPage /\ pend[r] = NoPage /\ l \in Page /\ r \in Page
      /\ l \in WrittenBy(o) \cup {s} /\ r \in WrittenBy(o) \cup {s}
  BY <1>2, <1>4, <1>5
<1>7. Tree(node, root, pend, lv, lo, hi)
  BY Now
<1>8. Adjacent(node, root, pend, lv, lo, hi, p, m, l, r)
  BY <1>2, <1>3, <1>6, <1>7, Neighbours
<1>9. l \in Pages(node) /\ r \in Pages(node) /\ lv[l] = lv[r]
  BY <1>8 DEF Adjacent
<1>10. /\ lv[l] = 0 <=> node[l].kind = "leaf"
       /\ lv[r] = 0 <=> node[r].kind = "leaf"
       /\ node[l].kind = "leaf" \/ node[l].kind = "internal"
       /\ node[r].kind = "leaf" \/ node[r].kind = "internal"
  BY <1>7, <1>9, Lowest
<1>11. IsLeaf(x) <=> node[l].kind = "leaf"
  BY <1>5, <1>9, <1>10 DEF IsLeaf
<1> QED
  BY <1>b, <1>1, <1>2, <1>3, <1>4, <1>6, <1>8, <1>9, <1>10, <1>11

LEMMA LeafRefilled ==
  ASSUME NEW leaf \in LeafRecords, NEW s
  PROVE  [leaf EXCEPT !.entries = s, !.tombstones = <<>>] = LeafWith(s, leaf.next)
<1>1. PICK u : u = <<>>
  OBVIOUS
<1>2. [leaf EXCEPT !.entries = s, !.tombstones = u] =
        [kind |-> "leaf", entries |-> s, tombstones |-> u, next |-> leaf.next]
  BY LeafUpdated
<1> QED
  BY <1>1, <1>2 DEF LeafWith

\* What the two pages have after the cut, and what separates them then.
Both(nd, l, r) == nd[l].entries \o nd[r].entries
EvenedLeft(nd, l, r) == SubSeq(Both(nd, l, r), 1, CutAt(nd[l], nd[r]))
EvenedRight(nd, l, r) ==
  SubSeq(Both(nd, l, r), CutAt(nd[l], nd[r]) + 1, Len(Both(nd, l, r)))
EvenedSep(nd, l, r) == Both(nd, l, r)[CutAt(nd[l], nd[r]) + 1]

LEMMA EvenedAs ==
  ASSUME NEW p \in Page, NEW l \in Page, NEW r \in Page, l # r, l # p, r # p,
         node \in [Page -> PageRecords], node[l] \in LeafRecords, node[r] \in LeafRecords,
         node[p] = InternalNode(node[p].children, node[p].seps), NEW m,
         NEW left, left = EvenedLeft(node, l, r), NEW right, right = EvenedRight(node, l, r),
         NEW sep, sep = EvenedSep(node, l, r)
  PROVE  Redistributed(p, l, r, m) =
           Put(Put(Put(node, l, LeafWith(left, node[l].next)),
                   r, LeafWith(right, node[r].next)),
               p, InternalNode(node[p].children, Put(node[p].seps, m, sep)))
<1>1. remove_all_tombstones(node[l]) = node[l] /\ remove_all_tombstones(node[r]) = node[r]
  <2>1. 1 \in 1 .. Len(node[l].entries) + 1 /\ 1 \in 1 .. Len(node[r].entries) + 1
    BY LeafFields
  <2> QED
    BY <2>1, LeafCut
<1>5. Redistributed(p, l, r, m) =
        [node EXCEPT ![l] = [node[l] EXCEPT !.entries = left, !.tombstones = <<>>],
                     ![r] = [node[r] EXCEPT !.entries = right, !.tombstones = <<>>],
                     ![p] = [node[p] EXCEPT !.seps[m] = sep]]
  BY <1>1 DEF Redistributed, EvenedLeft, EvenedRight, EvenedSep, Both
<1>6. [node[l] EXCEPT !.entries = left, !.tombstones = <<>>] = LeafWith(left, node[l].next)
  BY LeafRefilled
<1>7. [node[r] EXCEPT !.entries = right, !.tombstones = <<>>] = LeafWith(right, node[r].next)
  BY LeafRefilled
<1>8. [node[p] EXCEPT !.seps[m] = sep] = InternalNode(node[p].children, Put(node[p].seps, m, sep))
  BY SepReplaced
<1> QED
  BY <1>5, <1>6, <1>7, <1>8 DEF Put

LEMMA LeavesCut ==
  ASSUME NEW nd, NEW top, NEW pend, NEW lv, NEW lo, NEW hi, Tree(nd, top, pend, lv, lo, hi),
         EntriesBounded, NEW p, NEW m, NEW l, NEW r,
         Adjacent(nd, top, pend, lv, lo, hi, p, m, l, r), nd[l].kind = "leaf",
         nd[l] \in LeafRecords, nd[r] \in LeafRecords, Redistribute(nd[l], nd[r]),
         NEW sep, sep = EvenedSep(nd, l, r)
  PROVE  /\ sep \in Entry /\ lo[l] < Rank(sep) /\ Rank(sep) < hi[r]
         /\ Filed(EvenedLeft(nd, l, r), lo[l], Rank(sep))
         /\ Filed(EvenedRight(nd, l, r), Rank(sep), hi[r])
<1>1. PICK all : all = Both(nd, l, r)
  OBVIOUS
<1>2. PICK cut : cut = CutAt(nd[l], nd[r])
  OBVIOUS
<1>3. PICK u : u = nd[l].entries
  OBVIOUS
<1>4. PICK v : v = nd[r].entries
  OBVIOUS
<1>5. /\ l \in Pages(nd) /\ r \in Pages(nd) /\ l \in Page /\ r \in Page /\ lv[l] = lv[r]
      /\ lo[l] \in Int /\ hi[l] \in Int /\ lo[r] \in Int /\ hi[r] \in Int
      /\ lo[l] < hi[l] /\ hi[l] = lo[r] /\ lo[r] < hi[r]
  BY DEF Adjacent
<1>6. Filed(u, lo[l], hi[l]) /\ Filed(v, lo[r], hi[r])
  <2>1. nd[r].kind = "leaf"
    BY <1>5, Lowest
  <2> QED
    BY <1>3, <1>4, <1>5, <2>1, NextLeaf
<1>7. /\ all = u \o v /\ Len(all) = Len(u) + Len(v) /\ Len(u) \in Nat /\ Len(v) \in Nat
      /\ Filed(all, lo[l], hi[r])
  <2>1. all = u \o v
    BY <1>1, <1>3, <1>4 DEF Both
  <2>2. Filed(u \o v, lo[l], hi[r])
    BY <1>5, <1>6, FiledJoined
  <2>3. Len(u \o v) = Len(u) + Len(v) /\ Len(u) \in Nat /\ Len(v) \in Nat
    BY <1>6, Joined DEF Filed
  <2> QED
    BY <2>1, <2>2, <2>3
<1>8. cut \in Nat /\ cut >= 1 /\ cut < Len(u) + Len(v)
  BY <1>2, <1>3, <1>4, CutBetween
<1>9. PICK k : k = cut + 1
  OBVIOUS
<1>10. k \in 1 .. Len(all) /\ k # 1 /\ k - 1 = cut
  BY <1>7, <1>8, <1>9
<1>11. /\ all[k] \in Entry /\ lo[l] < Rank(all[k]) /\ Rank(all[k]) < hi[r]
       /\ Filed(SubSeq(all, 1, k - 1), lo[l], Rank(all[k]))
       /\ Filed(SubSeq(all, k, Len(all)), Rank(all[k]), hi[r])
  BY <1>5, <1>7, <1>10, FiledCut
<1>12. /\ sep = all[k]
       /\ EvenedLeft(nd, l, r) = SubSeq(all, 1, cut)
       /\ EvenedRight(nd, l, r) = SubSeq(all, k, Len(all))
  BY <1>1, <1>2, <1>9, Zenon DEF EvenedSep, EvenedLeft, EvenedRight
<1> QED
  BY <1>10, <1>11, <1>12, Zenon

\* PairHeld's children l and r of p are leaves with more than one of them can hold.
LEMMA LeafPairKept ==
  ASSUME EntriesBounded,
         NEW pend, NEW lv, NEW lo, NEW hi, Sound(node, root, op, pend, lv, lo, hi),
         NEW t \in Thread, op[t].pc # "split",
         NEW s \in Page, Alone(op, t, s), \A z \in Page : pend[z] # s,
         NEW p \in WrittenBy(op[t]), p \in Page, node[p].kind = "internal",
         NEW m \in 1 .. Len(node[p].seps),
         NEW l \in Page, l = node[p].children[m], pend[l] = NoPage,
         NEW r \in Page, r = node[p].children[m + 1], pend[r] = NoPage,
         l \in WrittenBy(op[t]) \cup {s}, r \in WrittenBy(op[t]) \cup {s},
         Adjacent(node, root, pend, lv, lo, hi, p, m, l, r),
         node[l].kind = "leaf", node[r].kind = "leaf",
         Redistribute(node[l], node[r]), node' = Redistributed(p, l, r, m),
         Finish(t, op[t].answer), UNCHANGED root
  PROVE  \E lo2, hi2 : Sound(node', root', op', pend, lv, lo2, hi2)
<1>1. /\ Tree(node, root, pend, lv, lo, hi) /\ node \in [Page -> PageRecords]
      /\ node[l] \in LeafRecords /\ node[r] \in LeafRecords
  BY Now, LeafRecord
<1>2. PICK left : left = EvenedLeft(node, l, r)
  OBVIOUS
<1>3. PICK right : right = EvenedRight(node, l, r)
  OBVIOUS
<1>4. l # r /\ l # p /\ r # p
  BY DEF Adjacent
<1>5. node[p] = InternalNode(node[p].children, node[p].seps)
  BY ONLY <1>1, Children, EntriesBounded, p \in Page, node[p].kind = "internal"
<1>6. PICK sep : sep = EvenedSep(node, l, r)
  OBVIOUS
<1>7. PICK a : a = LeafWith(left, node[l].next)
  OBVIOUS
<1>8. PICK b : b = LeafWith(right, node[r].next)
  OBVIOUS
<1>9. PICK c : c = InternalNode(node[p].children, Put(node[p].seps, m, sep))
  OBVIOUS
<1>10. PICK nd2 : nd2 = Put(Put(Put(node, l, a), r, b), p, c)
  OBVIOUS
<1>11. PICK x : x = Rank(sep)
  OBVIOUS
<1>12. /\ sep \in Entry /\ lo[l] < Rank(sep) /\ Rank(sep) < hi[r]
       /\ Filed(left, lo[l], Rank(sep)) /\ Filed(right, Rank(sep), hi[r])
  BY SMTT(60), <1>1, <1>2, <1>3, <1>6, LeavesCut
<1>13. Tree(nd2, root, pend, lv, Put(lo, r, x), Put(hi, l, x))
  BY <1>1, <1>7, <1>8, <1>9, <1>10, <1>11, <1>12, LeavesShifted
<1>14. Redistributed(p, l, r, m) = nd2
  <2>1. Redistributed(p, l, r, m) =
          Put(Put(Put(node, l, LeafWith(left, node[l].next)), r, LeafWith(right, node[r].next)),
              p, InternalNode(node[p].children, Put(node[p].seps, m, sep)))
    BY <1>1, <1>2, <1>3, <1>4, <1>5, <1>6, EvenedAs
  <2> QED
    BY <2>1, <1>7, <1>8, <1>9, <1>10
<1>15. a.kind # "free" /\ b.kind # "free" /\ c.kind # "free"
  BY <1>7, <1>8, <1>9 DEF LeafWith, InternalNode
<1>16. Sound(node', root', op', pend, lv, Put(lo, r, x), Put(hi, l, x))
  <2>1. UNCHANGED root /\ Finish(t, op[t].answer) /\ op[t].pc # "split"
    OBVIOUS
  <2> QED
    BY <1>4, <1>10, <1>13, <1>14, <1>15, <2>1, PairChanged, SMTT(60)
<1> QED
  BY <1>16

LEMMA LeafSiblingKept ==
  ASSUME EntriesBounded,
         NEW pend, NEW lv, NEW lo, NEW hi, Sound(node, root, op, pend, lv, lo, hi),
         NEW t \in Thread, NEW pc \in {"left", "right"}, Granted(t, pc), IsLeaf(op[t].page),
         NEW d \in {-1, 1}, pc = "left" <=> d = -1,
         NEW otherwise \in {"right", "merge"}, otherwise = "right" => HasRight(t),
         TryLeafSibling(t, d, otherwise)
  PROVE  \E lo2, hi2 : Sound(node', root', op', pend, lv, lo2, hi2)
<1> DEFINE o == op[t]
<1>1. PICK p : p = Parent(t)
  OBVIOUS
<1>2. PICK s : s = Sibling(t, d)
  OBVIOUS
<1>3. PICK l : l = IF d < 0 THEN s ELSE op[t].page
  OBVIOUS
<1>4. PICK r : r = IF d < 0 THEN op[t].page ELSE s
  OBVIOUS
<1>5. PICK m : m = IdxInParent(t) + (IF d < 0 THEN 0 ELSE 1)
  OBVIOUS
<1>6. op[t].pc = pc
  BY DEF Granted
<1>7. d = -1 => IdxInParent(t) > 0
  BY <1>6, AtSibling
<1>8. d = 1 => IdxInParent(t) + 1 < num_children(node[p])
  BY <1>1, <1>6, AtSibling
<1>9. Wants(t) = [page |-> s, mode |-> "write"]
  BY <1>2, <1>6, WantsAt
<1>10. /\ p \in WrittenBy(op[t])
       /\ p \in Page /\ node[p].kind = "internal" /\ m \in 1 .. Len(node[p].seps)
       /\ l = node[p].children[m] /\ r = node[p].children[m + 1]
       /\ pend[l] = NoPage /\ pend[r] = NoPage /\ l \in Page /\ r \in Page
       /\ l \in WrittenBy(op[t]) \cup {s} /\ r \in WrittenBy(op[t]) \cup {s}
       /\ s \in Page /\ Alone(op, t, s) /\ \A z \in Page : pend[z] # s
       /\ Adjacent(node, root, pend, lv, lo, hi, p, m, l, r)
       /\ node[l].kind = "leaf" /\ node[r].kind = "leaf"
  BY <1>1, <1>2, <1>3, <1>4, <1>5, <1>7, <1>8, <1>9, PairHeld
<1>11. CASE Goto(t, [o EXCEPT !.pc = otherwise]) /\ UNCHANGED <<root, node, panicked>>
  <2>1. Sound(node', root', op', pend, lv, lo, hi)
    BY <1>6, <1>11, TurnKept
  <2> QED
    BY <2>1
<1>12. CASE Panic
  <2>1. Sound(node', root', op', pend, lv, lo, hi)
    BY <1>12, Still DEF Panic
  <2> QED
    BY <2>1
<1>13. CASE /\ Redistribute(node[l], node[r]) /\ node' = Redistributed(p, l, r, m)
            /\ Finish(t, o.answer) /\ UNCHANGED <<root, panicked>>
  <2>1. op[t].pc # "split"
    BY <1>6
  <2> QED
    BY <1>10, <1>13, <2>1, LeafPairKept
<1> QED
  BY <1>1, <1>2, <1>3, <1>4, <1>5, <1>11, <1>12, <1>13 DEF TryLeafSibling

LEMMA LeafLeftKept ==
  ASSUME EntriesBounded,
         NEW pend, NEW lv, NEW lo, NEW hi, Sound(node, root, op, pend, lv, lo, hi),
         NEW t \in Thread, LeafLeft(t)
  PROVE  \E lo2, hi2 : Sound(node', root', op', pend, lv, lo2, hi2)
<1>1. Granted(t, "left") /\ IsLeaf(op[t].page) /\ TryLeafSibling(t, -1, AfterLeft(t))
  BY DEF LeafLeft
<1>2. PICK otherwise : otherwise = AfterLeft(t)
  OBVIOUS
<1>3. otherwise \in {"right", "merge"} /\ (otherwise = "right" => HasRight(t))
  BY <1>2 DEF AfterLeft
<1>4. PICK d : d = -1
  OBVIOUS
<1>5. d \in {-1, 1} /\ ("left" = "left" <=> d = -1)
  BY <1>4
<1> QED
  BY <1>1, <1>2, <1>3, <1>4, <1>5, LeafSiblingKept

LEMMA LeafRightKept ==
  ASSUME EntriesBounded,
         NEW pend, NEW lv, NEW lo, NEW hi, Sound(node, root, op, pend, lv, lo, hi),
         NEW t \in Thread, LeafRight(t)
  PROVE  \E lo2, hi2 : Sound(node', root', op', pend, lv, lo2, hi2)
<1>1. Granted(t, "right") /\ IsLeaf(op[t].page) /\ TryLeafSibling(t, 1, "merge")
  BY DEF LeafRight
<1>4. PICK d : d = 1
  OBVIOUS
<1>5. d \in {-1, 1} /\ ("right" = "left" <=> d = -1)
  BY <1>4
<1>6. PICK otherwise : otherwise = "merge"
  OBVIOUS
<1> QED
  BY <1>1, <1>4, <1>5, <1>6, LeafSiblingKept

\* The page r lends its first child, or l its last.
Bordered(p, l, r, m, a, b, sep) ==
  Put(Put(Put(node, l, a), r, b), p, InternalNode(node[p].children, Put(node[p].seps, m, sep)))

LEMMA FirstLentAs ==
  ASSUME NEW p \in Page, NEW l \in Page, NEW r \in Page, l # r, l # p, r # p,
         node \in [Page -> PageRecords],
         node[p] = InternalNode(node[p].children, node[p].seps), NEW m
  PROVE  BorrowFromRight(p, l, r, m) =
           Bordered(p, l, r, m, GivenFirst(node, p, m, l, r), WithoutFirst(node, r),
                    FirstSep(node, r))
<1>1. BorrowFromRight(p, l, r, m) =
        [node EXCEPT ![l] = GivenFirst(node, p, m, l, r), ![r] = WithoutFirst(node, r),
                     ![p] = [node[p] EXCEPT !.seps[m] = FirstSep(node, r)]]
  BY DEF BorrowFromRight, GivenFirst, WithoutFirst, FirstSep
<1>2. [node[p] EXCEPT !.seps[m] = FirstSep(node, r)] =
        InternalNode(node[p].children, Put(node[p].seps, m, FirstSep(node, r)))
  BY SepReplaced
<1> QED
  BY <1>1, <1>2 DEF Put, Bordered

LEMMA LastLentAs ==
  ASSUME NEW p \in Page, NEW l \in Page, NEW r \in Page, l # r, l # p, r # p,
         node \in [Page -> PageRecords],
         node[p] = InternalNode(node[p].children, node[p].seps), NEW m
  PROVE  BorrowFromLeft(p, l, r, m) =
           Bordered(p, l, r, m, WithoutLast(node, l), GivenLast(node, p, m, l, r),
                    LastSep(node, l))
<1>1. BorrowFromLeft(p, l, r, m) =
        [node EXCEPT ![l] = WithoutLast(node, l), ![r] = GivenLast(node, p, m, l, r),
                     ![p] = [node[p] EXCEPT !.seps[m] = LastSep(node, l)]]
  BY DEF BorrowFromLeft, WithoutLast, GivenLast, LastSep
<1>2. [node[p] EXCEPT !.seps[m] = LastSep(node, l)] =
        InternalNode(node[p].children, Put(node[p].seps, m, LastSep(node, l)))
  BY SepReplaced
<1> QED
  BY <1>1, <1>2 DEF Put, Bordered

\* A page that can lend a child has more than one.
LEMMA CanLend ==
  ASSUME NEW pend, NEW lv, NEW lo, NEW hi, Tree(node, root, pend, lv, lo, hi), EntriesBounded,
         NEW x \in Page, node[x].kind = "internal", size(node[x]) > min_size(node[x])
  PROVE  node[x].seps # <<>>
<1>1. /\ Len(node[x].children) \in Nat /\ Len(node[x].seps) \in Nat
      /\ Len(node[x].children) = Len(node[x].seps) + 1
  BY Children
<1>2. Len(node[x].children) > (InternalMax + 1) \div 2
  BY DEF size, min_size, num_children
<1>3. (InternalMax + 1) \div 2 >= 1
  BY SizeAssumption
<1>4. Len(node[x].seps) > 0
  <2>1. PICK a : a = Len(node[x].children)
    OBVIOUS
  <2>2. PICK b : b = Len(node[x].seps)
    OBVIOUS
  <2>3. PICK c : c = (InternalMax + 1) \div 2
    OBVIOUS
  <2>4. c \in Int
    BY <2>3, SizeAssumption
  <2> QED
    BY <1>1, <1>2, <1>3, <2>1, <2>2, <2>3, <2>4
<1> QED
  BY <1>4

\* What PairHeld says of two pages, and of two inner ones.
Pair(pend, lv, lo, hi, t, s, p, m, l, r) ==
  /\ s \in Page /\ Alone(op, t, s) /\ \A z \in Page : pend[z] # s
  /\ p \in WrittenBy(op[t]) /\ p \in Page /\ node[p].kind = "internal"
  /\ m \in 1 .. Len(node[p].seps)
  /\ l \in Page /\ l = node[p].children[m] /\ pend[l] = NoPage
  /\ r \in Page /\ r = node[p].children[m + 1] /\ pend[r] = NoPage
  /\ l \in WrittenBy(op[t]) \cup {s} /\ r \in WrittenBy(op[t]) \cup {s}
  /\ Adjacent(node, root, pend, lv, lo, hi, p, m, l, r)

NodesHeld(pend, lv, lo, hi, t, s, p, m, l, r) ==
  /\ Pair(pend, lv, lo, hi, t, s, p, m, l, r)
  /\ op[t].pc # "split" /\ node[l].kind = "internal" /\ node[r].kind = "internal"

LEMMA BorderedKept ==
  ASSUME EntriesBounded,
         NEW pend, NEW lv, NEW lo, NEW hi, Sound(node, root, op, pend, lv, lo, hi),
         NEW t \in Thread, NEW s, NEW p, NEW m, NEW l, NEW r,
         NodesHeld(pend, lv, lo, hi, t, s, p, m, l, r),
         NEW u1, NEW w1, NEW u2, NEW w2, NEW sep,
         Lent(node, pend, lv, lo, hi, l, r, u1, w1, u2, w2, sep),
         node' = Bordered(p, l, r, m, InternalNode(u1, w1), InternalNode(u2, w2), sep),
         Finish(t, op[t].answer), UNCHANGED root
  PROVE  \E lo2, hi2 : Sound(node', root', op', pend, lv, lo2, hi2)
<1>1. Tree(node, root, pend, lv, lo, hi)
  BY Now
<1>2. PICK a : a = InternalNode(u1, w1)
  OBVIOUS
<1>3. PICK b : b = InternalNode(u2, w2)
  OBVIOUS
<1>4. PICK c : c = InternalNode(node[p].children, Put(node[p].seps, m, sep))
  OBVIOUS
<1>5. PICK nd2 : nd2 = Put(Put(Put(node, l, a), r, b), p, c)
  OBVIOUS
<1>6. PICK x : x = Rank(sep)
  OBVIOUS
<1>7. node' = nd2
  BY <1>2, <1>3, <1>4, <1>5 DEF Bordered
<1>8. /\ p \in Page /\ node[p].kind = "internal" /\ m \in 1 .. Len(node[p].seps)
      /\ l = node[p].children[m] /\ r = node[p].children[m + 1]
      /\ pend[l] = NoPage /\ pend[r] = NoPage /\ node[l].kind = "internal"
  BY DEF NodesHeld, Pair
<1>9. /\ sep \in Entry /\ lo[l] < Rank(sep) /\ Rank(sep) < hi[r]
      /\ Row(u1, w1, lo[l], Rank(sep), lv[l], Pages(node), lv, lo, Ends(pend, hi))
      /\ Row(u2, w2, Rank(sep), hi[r], lv[r], Pages(node), lv, lo, Ends(pend, hi))
      /\ \A z : ChildOf(node, z, l) \/ ChildOf(node, z, r) =>
           (\E i \in 1 .. Len(u1) : u1[i] = z) \/ (\E i \in 1 .. Len(u2) : u2[i] = z)
  BY Zenon DEF Lent
<1>10. nd2 = Put(Put(Put(node, l, InternalNode(u1, w1)), r, InternalNode(u2, w2)),
                 p, InternalNode(node[p].children, Put(node[p].seps, m, sep)))
  BY <1>2, <1>3, <1>4, <1>5
<1>11. Tree(nd2, root, pend, lv, Put(lo, r, x), Put(hi, l, x))
  BY <1>1, <1>6, <1>8, <1>9, <1>10, NodesShifted, SMTT(60)
<1>12. a.kind # "free" /\ b.kind # "free" /\ c.kind # "free"
  BY <1>2, <1>3, <1>4 DEF InternalNode
<1>13. /\ op[t].pc # "split" /\ s \in Page /\ Alone(op, t, s) /\ \A z \in Page : pend[z] # s
       /\ p \in WrittenBy(op[t]) /\ l \in Page /\ r \in Page
       /\ l \in WrittenBy(op[t]) \cup {s} /\ r \in WrittenBy(op[t]) \cup {s}
       /\ l # r /\ l # p /\ r # p
  BY DEF NodesHeld, Pair, Adjacent
<1>14. Sound(node', root', op', pend, lv, Put(lo, r, x), Put(hi, l, x))
  <2>1. UNCHANGED root /\ Finish(t, op[t].answer)
    OBVIOUS
  <2> QED
    BY <1>5, <1>7, <1>11, <1>12, <1>13, <2>1, PairChanged
<1> QED
  BY <1>14

LEMMA FirstLentKept ==
  ASSUME EntriesBounded,
         NEW pend, NEW lv, NEW lo, NEW hi, Sound(node, root, op, pend, lv, lo, hi),
         NEW t \in Thread, NEW s, NEW p, NEW m, NEW l, NEW r,
         NodesHeld(pend, lv, lo, hi, t, s, p, m, l, r),
         LeftBorrows(node[l], node[r]), node' = BorrowFromRight(p, l, r, m),
         Finish(t, op[t].answer), UNCHANGED root
  PROVE  \E lo2, hi2 : Sound(node', root', op', pend, lv, lo2, hi2)
<1>1. Tree(node, root, pend, lv, lo, hi) /\ node \in [Page -> PageRecords]
  BY Now DEF Tree, Typed
<1>2. PICK sep : sep = FirstSep(node, r)
  OBVIOUS
<1>7. /\ p \in Page /\ l \in Page /\ r \in Page /\ l # r /\ l # p /\ r # p
      /\ node[p].kind = "internal" /\ node[l].kind = "internal" /\ node[r].kind = "internal"
      /\ Adjacent(node, root, pend, lv, lo, hi, p, m, l, r)
  BY DEF NodesHeld, Pair, Adjacent
<1>8. node[r].seps # <<>>
  BY <1>1, <1>7, CanLend DEF LeftBorrows
<1>9. PICK u1, w1, u2, w2 :
        /\ Lent(node, pend, lv, lo, hi, l, r, u1, w1, u2, w2, sep)
        /\ GivenFirst(node, p, m, l, r) = InternalNode(u1, w1)
        /\ WithoutFirst(node, r) = InternalNode(u2, w2)
  BY <1>1, <1>2, <1>7, <1>8, FirstLent
<1>10. node[p] = InternalNode(node[p].children, node[p].seps)
  BY <1>1, <1>7, Children
<1>11. node' = Bordered(p, l, r, m, InternalNode(u1, w1), InternalNode(u2, w2), sep)
  BY <1>1, <1>2, <1>7, <1>9, <1>10, FirstLentAs
<1>12. Finish(t, op[t].answer) /\ UNCHANGED root
  OBVIOUS
<1> QED
  BY <1>9, <1>11, <1>12, BorderedKept

LEMMA LastLentKept ==
  ASSUME EntriesBounded,
         NEW pend, NEW lv, NEW lo, NEW hi, Sound(node, root, op, pend, lv, lo, hi),
         NEW t \in Thread, NEW s, NEW p, NEW m, NEW l, NEW r,
         NodesHeld(pend, lv, lo, hi, t, s, p, m, l, r),
         RightBorrows(node[l], node[r]), node' = BorrowFromLeft(p, l, r, m),
         Finish(t, op[t].answer), UNCHANGED root
  PROVE  \E lo2, hi2 : Sound(node', root', op', pend, lv, lo2, hi2)
<1>1. Tree(node, root, pend, lv, lo, hi) /\ node \in [Page -> PageRecords]
  BY Now DEF Tree, Typed
<1>2. PICK sep : sep = LastSep(node, l)
  OBVIOUS
<1>7. /\ p \in Page /\ l \in Page /\ r \in Page /\ l # r /\ l # p /\ r # p
      /\ node[p].kind = "internal" /\ node[l].kind = "internal" /\ node[r].kind = "internal"
      /\ Adjacent(node, root, pend, lv, lo, hi, p, m, l, r)
  BY DEF NodesHeld, Pair, Adjacent
<1>8. node[l].seps # <<>>
  BY <1>1, <1>7, CanLend DEF RightBorrows
<1>9. PICK u1, w1, u2, w2 :
        /\ Lent(node, pend, lv, lo, hi, l, r, u1, w1, u2, w2, sep)
        /\ WithoutLast(node, l) = InternalNode(u1, w1)
        /\ GivenLast(node, p, m, l, r) = InternalNode(u2, w2)
  BY <1>1, <1>2, <1>7, <1>8, LastLent
<1>10. node[p] = InternalNode(node[p].children, node[p].seps)
  BY <1>1, <1>7, Children
<1>11. node' = Bordered(p, l, r, m, InternalNode(u1, w1), InternalNode(u2, w2), sep)
  BY <1>1, <1>2, <1>7, <1>9, <1>10, LastLentAs
<1>12. Finish(t, op[t].answer) /\ UNCHANGED root
  OBVIOUS
<1> QED
  BY <1>9, <1>11, <1>12, BorderedKept

LEMMA NodeSiblingKept ==
  ASSUME EntriesBounded,
         NEW pend, NEW lv, NEW lo, NEW hi, Sound(node, root, op, pend, lv, lo, hi),
         NEW t \in Thread, NEW pc \in {"left", "right"}, Granted(t, pc), ~IsLeaf(op[t].page),
         NEW d \in {-1, 1}, pc = "left" <=> d = -1,
         NEW otherwise \in {"right", "merge"}, otherwise = "right" => HasRight(t),
         TryNodeSibling(t, d, otherwise)
  PROVE  \E lo2, hi2 : Sound(node', root', op', pend, lv, lo2, hi2)
<1> DEFINE o == op[t]
<1>1. PICK p : p = Parent(t)
  OBVIOUS
<1>2. PICK s : s = Sibling(t, d)
  OBVIOUS
<1>3. PICK l : l = IF d < 0 THEN s ELSE op[t].page
  OBVIOUS
<1>4. PICK r : r = IF d < 0 THEN op[t].page ELSE s
  OBVIOUS
<1>5. PICK m : m = IdxInParent(t) + (IF d < 0 THEN 0 ELSE 1)
  OBVIOUS
<1>6. op[t].pc = pc
  BY DEF Granted
<1>7. d = -1 => IdxInParent(t) > 0
  BY <1>6, AtSibling
<1>8. d = 1 => IdxInParent(t) + 1 < num_children(node[p])
  BY <1>1, <1>6, AtSibling
<1>9. Wants(t) = [page |-> s, mode |-> "write"]
  BY <1>2, <1>6, WantsAt
<1>10. /\ p \in WrittenBy(op[t])
       /\ p \in Page /\ node[p].kind = "internal" /\ m \in 1 .. Len(node[p].seps)
       /\ l = node[p].children[m] /\ r = node[p].children[m + 1]
       /\ pend[l] = NoPage /\ pend[r] = NoPage /\ l \in Page /\ r \in Page
       /\ l \in WrittenBy(op[t]) \cup {s} /\ r \in WrittenBy(op[t]) \cup {s}
       /\ s \in Page /\ Alone(op, t, s) /\ \A z \in Page : pend[z] # s
       /\ Adjacent(node, root, pend, lv, lo, hi, p, m, l, r)
       /\ node[l].kind = "internal" /\ node[r].kind = "internal"
  BY <1>1, <1>2, <1>3, <1>4, <1>5, <1>7, <1>8, <1>9, PairHeld
<1>11. NodesHeld(pend, lv, lo, hi, t, s, p, m, l, r)
  BY <1>6, <1>10 DEF NodesHeld, Pair
<1>12. CASE Goto(t, [o EXCEPT !.pc = otherwise]) /\ UNCHANGED <<root, node>>
  <2>1. Sound(node', root', op', pend, lv, lo, hi)
    BY <1>6, <1>12, TurnKept
  <2> QED
    BY <2>1
<1>13. CASE /\ LeftBorrows(node[l], node[r]) /\ node' = BorrowFromRight(p, l, r, m)
            /\ Finish(t, o.answer) /\ UNCHANGED root
  BY <1>11, <1>13, FirstLentKept
<1>14. CASE /\ RightBorrows(node[l], node[r]) /\ node' = BorrowFromLeft(p, l, r, m)
            /\ Finish(t, o.answer) /\ UNCHANGED root
  BY <1>11, <1>14, LastLentKept
<1> QED
  BY <1>1, <1>2, <1>3, <1>4, <1>5, <1>12, <1>13, <1>14 DEF TryNodeSibling

LEMMA NodeLeftKept ==
  ASSUME EntriesBounded,
         NEW pend, NEW lv, NEW lo, NEW hi, Sound(node, root, op, pend, lv, lo, hi),
         NEW t \in Thread, NodeLeft(t)
  PROVE  \E lo2, hi2 : Sound(node', root', op', pend, lv, lo2, hi2)
<1>1. Granted(t, "left") /\ ~IsLeaf(op[t].page) /\ TryNodeSibling(t, -1, AfterLeft(t))
  BY DEF NodeLeft
<1>2. PICK otherwise : otherwise = AfterLeft(t)
  OBVIOUS
<1>3. otherwise \in {"right", "merge"} /\ (otherwise = "right" => HasRight(t))
  BY <1>2 DEF AfterLeft
<1>4. PICK d : d = -1
  OBVIOUS
<1>5. d \in {-1, 1} /\ ("left" = "left" <=> d = -1)
  BY <1>4
<1> QED
  BY <1>1, <1>2, <1>3, <1>4, <1>5, NodeSiblingKept

LEMMA NodeRightKept ==
  ASSUME EntriesBounded,
         NEW pend, NEW lv, NEW lo, NEW hi, Sound(node, root, op, pend, lv, lo, hi),
         NEW t \in Thread, NodeRight(t)
  PROVE  \E lo2, hi2 : Sound(node', root', op', pend, lv, lo2, hi2)
<1>1. Granted(t, "right") /\ ~IsLeaf(op[t].page) /\ TryNodeSibling(t, 1, "merge")
  BY DEF NodeRight
<1>4. PICK d : d = 1
  OBVIOUS
<1>5. d \in {-1, 1} /\ ("right" = "left" <=> d = -1)
  BY <1>4
<1>6. PICK otherwise : otherwise = "merge"
  OBVIOUS
<1> QED
  BY <1>1, <1>4, <1>5, <1>6, NodeSiblingKept

\* A thread that merges: its path ends with the parent, and no other has r.
Merging(lv, t, w, p, l, r) ==
  /\ op[t].kind = "remove" /\ op[t].read = NoPage
  /\ w \in Seq(Page) /\ w # <<>> /\ p = Last(w)
  /\ OnPath(node, root, lv, op[t], Append(w, op[t].page)) /\ Path(node, lv, w)
  /\ Append(w, op[t].page)[1] = w[1] /\ p \in ToSet(w)
  /\ WrittenBy(op[t]) = ToSet(w) \cup {op[t].page}
  /\ l # p /\ r # p /\ l # r
  /\ \A z \in ToSet(w) : z \in Page /\ z \in Pages(node) /\ z # l /\ z # r
  /\ ~PinnedByOther(t, r)

LEMMA MergingOn ==
  ASSUME EntriesBounded,
         NEW pend, NEW lv, NEW lo, NEW hi, Sound(node, root, op, pend, lv, lo, hi),
         NEW t \in Thread, op[t].pc = "merge", NEW s, NEW p, p = Parent(t), NEW m, NEW l, NEW r,
         Pair(pend, lv, lo, hi, t, s, p, m, l, r), NEW w, w = op[t].writes
  PROVE  Merging(lv, t, w, p, l, r)
<1>1. Tree(node, root, pend, lv, lo, hi)
  BY Now
<1>3. PICK x : x = op[t].page
  OBVIOUS
<1>4. /\ op[t].kind = "remove" /\ op[t].read = NoPage
      /\ w \in Seq(Page) /\ w # <<>> /\ p = Last(w)
      /\ OnPath(node, root, lv, op[t], Append(w, x)) /\ Path(node, lv, w)
      /\ Append(w, x)[1] = w[1] /\ p \in ToSet(w)
      /\ WrittenBy(op[t]) = ToSet(w) \cup {x}
  BY <1>3, AtSibling
<1>5. s \in Page /\ Alone(op, t, s) /\ r \in Page /\ r \in WrittenBy(op[t]) \cup {s}
      /\ p \in WrittenBy(op[t])
  BY DEF Pair
<1>6. /\ ChildOf(node, r, p) /\ l # p /\ r # p /\ l # r
      /\ lv[l] = lv[r] /\ lv[l] + 1 = lv[p] /\ lv[l] \in Nat
  BY DEF Pair, Adjacent
<1>7. Alone(op, t, r)
  <2>1. CASE r = s
    BY <1>5, <2>1
  <2>2. CASE r \in WrittenBy(op[t])
    BY <2>2, Held
  <2> QED
    BY <1>5, <2>1, <2>2
<1>8. ~PinnedByOther(t, r)
  <2>1. r \in Page /\ \E q \in WrittenBy(op[t]) : ChildOf(node, r, q)
    BY <1>5, <1>6
  <2> QED
    BY <1>4, <1>7, <2>1, Unpinned
<1>13. \A z \in ToSet(w) : z \in Page /\ z \in Pages(node) /\ z # l /\ z # r
  <2>1. \A z \in ToSet(w) : z \in Pages(node) /\ lv[Last(w)] <= lv[z] /\ lv[z] \in Nat
    BY <1>1, <1>4, PathLevels
  <2>2. lv[l] < lv[p] /\ lv[r] < lv[p]
    BY <1>6
  <2>3. ASSUME NEW z \in ToSet(w) PROVE z # l /\ z # r
    BY <1>4, <1>6, <2>1, <2>2
  <2> QED
    BY <2>1, <2>3 DEF Pages
<1> QED
  BY <1>3, <1>4, <1>6, <1>8, <1>13 DEF Merging

\* What is left of the path, and what JointAt says of the tree.
JointFrom(nd2, hi, hi2, p, l, r) ==
  /\ nd2[l].kind # "free" /\ nd2[p].kind = "internal"
  /\ \A z \in Page : z # p /\ z # l /\ z # r => nd2[z] = node[z]
  /\ \A z \in Page : z # l => hi2[z] = hi[z]

LEMMA JointMade ==
  ASSUME EntriesBounded,
         NEW pend, NEW lv, NEW lo, NEW hi, Tree(node, root, pend, lv, lo, hi),
         NEW t \in Thread, NEW s, NEW p, NEW m, NEW l, NEW r,
         Pair(pend, lv, lo, hi, t, s, p, m, l, r), NEW n \in PageRecords, n.kind # "free",
         NEW nd2, nd2 = Joint(node, p, m, l, r, n), NEW hi2, hi2 = Put(hi, l, hi[r])
  PROVE  JointFrom(nd2, hi, hi2, p, l, r)
<1>1. /\ p \in Page /\ node[p].kind = "internal" /\ m \in 1 .. Len(node[p].seps)
      /\ l = node[p].children[m] /\ r = node[p].children[m + 1]
      /\ pend[l] = NoPage /\ pend[r] = NoPage
  BY DEF Pair
<1>2. /\ nd2[l] = n /\ nd2[p].kind = "internal"
      /\ \A z \in Page : z # p /\ z # l /\ z # r => nd2[z] = node[z]
      /\ \A z \in Page : z # l => hi2[z] = hi[z]
  BY <1>1, JointAt DEF Is
<1> QED
  BY <1>2 DEF JointFrom

LEMMA PathAfterJoining ==
  ASSUME EntriesBounded,
         NEW pend, NEW lv, NEW lo, NEW hi, Tree(node, root, pend, lv, lo, hi),
         NEW t \in Thread, NEW p, NEW l, NEW r, NEW w, Merging(lv, t, w, p, l, r),
         NEW nd2, NEW hi2, JointFrom(nd2, hi, hi2, p, l, r)
  PROVE  Path(nd2, lv, w)
<1>1. /\ \A z \in ToSet(w) : z \in Page /\ z \in Pages(node) /\ z # l /\ z # r
      /\ p = Last(w) /\ Path(node, lv, w)
  BY DEF Merging
<1>2. /\ nd2[p].kind = "internal"
      /\ \A z \in Page : z # p /\ z # l /\ z # r => nd2[z] = node[z]
  BY DEF JointFrom
<1>3. \A z \in ToSet(w) : z \in Pages(nd2) /\ lv[z] = lv[z]
  <2>1. ASSUME NEW z \in ToSet(w) PROVE z \in Pages(nd2)
    <3>1. CASE z = p
      BY <1>1, <1>2, <3>1 DEF Pages
    <3>2. CASE z # p
      BY <1>1, <1>2, <3>2 DEF Pages
    <3> QED
      BY <3>1, <3>2
  <2> QED
    BY <2>1
<1>4. \A z \in ToSet(w) : z # Last(w) => nd2[z] = node[z]
  BY <1>1, <1>2
<1>5. \A i \in 1 .. Len(w) - 1 : w[i] # Last(w)
  BY <1>1, PathApart
<1> QED
  BY <1>1, <1>3, <1>4, <1>5, PathSame

LEMMA JoinedAs ==
  ASSUME EntriesBounded,
         NEW pend, NEW lv, NEW lo, NEW hi, Sound(node, root, op, pend, lv, lo, hi),
         NEW t \in Thread, op[t].pc = "merge", NEW s, NEW p, NEW m, NEW l, NEW r,
         Pair(pend, lv, lo, hi, t, s, p, m, l, r), Merging(lv, t, op[t].writes, p, l, r),
         NEW nd2, NEW hi2, JointFrom(nd2, hi, hi2, p, l, r), Tree(nd2, root, pend, lv, lo, hi2),
         NEW o2, o2 = [op[t] EXCEPT !.pc = "underflow", !.page = INVALID_PAGE_ID]
  PROVE  Sound(nd2, root, Put(op, t, o2), pend, lv, lo, hi2)
<1>1. Tree(node, root, pend, lv, lo, hi) /\ IsCall(op[t])
  BY Now
<1>2. PICK w : w = op[t].writes
  OBVIOUS
<1>3. PICK x : x = op[t].page
  OBVIOUS
<1>4. /\ op[t].kind = "remove" /\ op[t].read = NoPage
      /\ w \in Seq(Page) /\ w # <<>> /\ p = Last(w)
      /\ OnPath(node, root, lv, op[t], Append(w, x)) /\ Path(node, lv, w)
      /\ Append(w, x)[1] = w[1] /\ p \in ToSet(w)
      /\ WrittenBy(op[t]) = ToSet(w) \cup {x}
  BY <1>2, <1>3 DEF Merging
<1>5. /\ s \in Page /\ Alone(op, t, s) /\ \A z \in Page : pend[z] # s
      /\ p \in WrittenBy(op[t])
      /\ l \in WrittenBy(op[t]) \cup {s} /\ r \in WrittenBy(op[t]) \cup {s}
  BY DEF Pair
<1>11. /\ o2.pc = "underflow" /\ o2.page = NoPage /\ o2.kind = op[t].kind
       /\ o2.entry = op[t].entry /\ o2.root = op[t].root /\ o2.header = op[t].header
       /\ o2.read = op[t].read /\ o2.writes = op[t].writes /\ IsCall(o2)
  BY <1>1 DEF IsCall, NoPage
<1>12. /\ nd2[p].kind = "internal"
       /\ \A z \in Page : z # p /\ z # l /\ z # r => nd2[z] = node[z]
       /\ \A z \in Page : z # l => hi2[z] = hi[z]
  BY DEF JointFrom
<1>14. Path(nd2, lv, w)
  BY <1>1, <1>2, PathAfterJoining
<1>15. OnPath(nd2, root, lv, o2, w)
  BY <1>4, <1>11, <1>14 DEF OnPath
<1>16. Stage(nd2, root, pend, lv, lo, hi2, o2)
  <2>1. Underflowing(nd2, root, lv, o2)
    BY <1>2, <1>4, <1>11, <1>12, <1>15 DEF Underflowing
  <2> QED
    BY <1>11, <2>1 DEF Stage
<1>17. PICK G : G = {s}
  OBVIOUS
<1>18. Onward(op, t, G, o2)
  <2>1. WrittenBy(o2) \subseteq WrittenBy(op[t])
    BY <1>2, <1>4, <1>11 DEF WrittenBy
  <2> QED
    BY <1>4, <1>11, <2>1 DEF Onward
<1>19. \A z \in Page : z \notin WrittenBy(op[t]) /\ z \notin G =>
         nd2[z] = node[z] /\ lo[z] = lo[z] /\ hi2[z] = hi[z]
  BY <1>5, <1>12, <1>17
<1>20. op[t].pc # "split"
  OBVIOUS
<1>21. \A z \in G : z \in Page /\ Alone(op, t, z) /\ \A y \in Page : pend[y] # z
  BY <1>5, <1>17
<1> QED
  BY <1>4, <1>11, <1>16, <1>18, <1>19, <1>20, <1>21, Moved

\* The page that is deleted is one of the two, the parent loses the slot.
LEMMA JoinedKept ==
  ASSUME EntriesBounded,
         NEW pend, NEW lv, NEW lo, NEW hi, Sound(node, root, op, pend, lv, lo, hi),
         NEW t \in Thread, op[t].pc = "merge", NEW s, NEW p, p = Parent(t), NEW m, NEW l, NEW r,
         Pair(pend, lv, lo, hi, t, s, p, m, l, r), NEW n \in PageRecords, n.kind # "free",
         NEW nd2, nd2 = Joint(node, p, m, l, r, n),
         NEW hi2, hi2 = Put(hi, l, hi[r]), Tree(nd2, root, pend, lv, lo, hi2),
         NEW nd0, nd2 = Put(nd0, r, Free),
         Deleting(t, r, nd0, [op[t] EXCEPT !.pc = "underflow", !.page = INVALID_PAGE_ID]),
         UNCHANGED root
  PROVE  Sound(node', root', op', pend, lv, lo, hi2)
<1>1. Tree(node, root, pend, lv, lo, hi)
  BY Now
<1>2. PICK o2 : o2 = [op[t] EXCEPT !.pc = "underflow", !.page = INVALID_PAGE_ID]
  OBVIOUS
<1>3. PICK w : w = op[t].writes
  OBVIOUS
<1>4. Merging(lv, t, w, p, l, r)
  BY <1>3, MergingOn
<1>5. JointFrom(nd2, hi, hi2, p, l, r)
  BY <1>1, JointMade
<1>6. node' = nd2 /\ Goto(t, o2)
  <2>1. ~PinnedByOther(t, r)
    BY <1>4 DEF Merging
  <2> QED
    BY <1>2, <2>1 DEF Deleting, Put
<1>7. op' = Put(op, t, o2)
  BY <1>6, Gone
<1>8. Sound(nd2, root, Put(op, t, o2), pend, lv, lo, hi2)
  BY <1>2, <1>3, <1>4, <1>5, JoinedAs
<1> QED
  BY <1>6, <1>7, <1>8

\* The pages l and r below p that merge makes one.
LEMMA MergePair ==
  ASSUME EntriesBounded,
         NEW pend, NEW lv, NEW lo, NEW hi, Sound(node, root, op, pend, lv, lo, hi),
         NEW t \in Thread, Granted(t, "merge"),
         NEW p, p = Parent(t), NEW idx, idx = IdxInParent(t),
         NEW l, l = (IF idx > 0 THEN Sibling(t, -1) ELSE op[t].page),
         NEW r, r = (IF idx > 0 THEN op[t].page ELSE Sibling(t, 1)),
         NEW m, m = (IF idx > 0 THEN idx ELSE 1)
  PROVE  /\ op[t].pc = "merge"
         /\ \E s : Pair(pend, lv, lo, hi, t, s, p, m, l, r)
         /\ IsLeaf(op[t].page) <=> node[l].kind = "leaf"
         /\ node[l].kind = "leaf" => node[r].kind = "leaf"
         /\ node[l].kind # "leaf" => node[l].kind = "internal" /\ node[r].kind = "internal"
<1>1. PICK pc : pc = "merge"
  OBVIOUS
<1>2. PICK d : d = IF idx > 0 THEN -1 ELSE 1
  OBVIOUS
<1>3. PICK s : s = Sibling(t, d)
  OBVIOUS
<1>4. op[t].pc = "merge"
  BY DEF Granted
<1>5. /\ idx \in Nat /\ Len(node[p].children) > 1 /\ Len(node[p].children) \in Nat
      /\ num_children(node[p]) = Len(node[p].children)
  BY <1>4, AtSibling
<1>6. /\ d \in {-1, 1} /\ (d = -1 => IdxInParent(t) > 0)
      /\ (d = 1 => IdxInParent(t) + 1 < num_children(node[p]))
  BY <1>2, <1>5
<1>7. Wants(t) = [page |-> s, mode |-> "write"]
  BY <1>2, <1>3, <1>4, WantsAt
<1>8. l = IF d < 0 THEN s ELSE op[t].page
  BY <1>2, <1>3
<1>9. r = IF d < 0 THEN op[t].page ELSE s
  BY <1>2, <1>3
<1>10. m = IdxInParent(t) + (IF d < 0 THEN 0 ELSE 1)
  BY <1>2, <1>5
<1>11. pc \in {"left", "right", "merge"} /\ Granted(t, pc)
  BY <1>1
<1>12. /\ p \in WrittenBy(op[t])
       /\ p \in Page /\ node[p].kind = "internal" /\ m \in 1 .. Len(node[p].seps)
       /\ l = node[p].children[m] /\ r = node[p].children[m + 1]
       /\ pend[l] = NoPage /\ pend[r] = NoPage /\ l \in Page /\ r \in Page
       /\ l \in WrittenBy(op[t]) \cup {s} /\ r \in WrittenBy(op[t]) \cup {s}
       /\ s \in Page /\ Alone(op, t, s) /\ \A z \in Page : pend[z] # s
       /\ Adjacent(node, root, pend, lv, lo, hi, p, m, l, r)
       /\ IsLeaf(op[t].page) <=> node[l].kind = "leaf"
       /\ node[l].kind = "leaf" => node[r].kind = "leaf"
       /\ node[l].kind # "leaf" => node[l].kind = "internal" /\ node[r].kind = "internal"
  BY <1>3, <1>6, <1>7, <1>8, <1>9, <1>10, <1>11, PairHeld
<1>13. Pair(pend, lv, lo, hi, t, s, p, m, l, r)
  BY <1>12 DEF Pair
<1> QED
  BY <1>4, <1>12, <1>13

LEMMA MergedMade ==
  ASSUME NEW left \in LeafRecords, NEW right \in LeafRecords
  PROVE  MergedLeaf(left, right) \in PageRecords /\ MergedLeaf(left, right).kind # "free"
<1>1. /\ left.entries \in Seq(Entry) /\ right.entries \in Seq(Entry)
      /\ right.next \in Page \cup {NoPage}
  BY LeafFields
<1>2. left.entries \o right.entries \in Seq(Entry)
  BY <1>1, Joined
<1>3. PICK s : s = left.entries \o right.entries
  OBVIOUS
<1>4. LeafWith(s, right.next) \in LeafRecords /\ LeafWith(s, right.next).kind = "leaf"
  BY <1>1, <1>2, <1>3, LeafMade
<1> QED
  BY <1>3, <1>4, LeavesMerged DEF PageRecords

LEMMA MergeLeafKept ==
  ASSUME EntriesBounded,
         NEW pend, NEW lv, NEW lo, NEW hi, Sound(node, root, op, pend, lv, lo, hi),
         NEW t \in Thread, MergeLeaf(t)
  PROVE  \E hi2 : Sound(node', root', op', pend, lv, lo, hi2)
<1>1. PICK p : p = Parent(t)
  OBVIOUS
<1>2. PICK idx : idx = IdxInParent(t)
  OBVIOUS
<1>3. PICK l : l = IF idx > 0 THEN Sibling(t, -1) ELSE op[t].page
  OBVIOUS
<1>4. PICK r : r = IF idx > 0 THEN op[t].page ELSE Sibling(t, 1)
  OBVIOUS
<1>5. PICK m : m = IF idx > 0 THEN idx ELSE 1
  OBVIOUS
<1>6. Granted(t, "merge") /\ IsLeaf(op[t].page)
  BY DEF MergeLeaf
<1>7. PICK s : Pair(pend, lv, lo, hi, t, s, p, m, l, r)
  BY <1>1, <1>2, <1>3, <1>4, <1>5, <1>6, MergePair
<1>8. op[t].pc = "merge" /\ node[l].kind = "leaf" /\ node[r].kind = "leaf"
  BY <1>1, <1>2, <1>3, <1>4, <1>5, <1>6, MergePair
<1>9. CASE Panic
  <2>1. Sound(node', root', op', pend, lv, lo, hi)
    BY <1>9, Still DEF Panic
  <2> QED
    BY <2>1
<1>10. PICK n : n = MergedLeaf(node[l], node[r])
  OBVIOUS
<1>11. PICK n2 : n2 = remove_slot(node[p], m)
  OBVIOUS
<1>12. /\ p \in Page /\ l \in Page /\ r \in Page /\ l # p /\ node[p].kind = "internal"
       /\ m \in 1 .. Len(node[p].seps) /\ l = node[p].children[m] /\ r = node[p].children[m + 1]
       /\ pend[l] = NoPage /\ pend[r] = NoPage
  BY <1>7 DEF Pair, Adjacent
<1>13. /\ Tree(node, root, pend, lv, lo, hi) /\ node \in [Page -> PageRecords]
       /\ node[l] \in LeafRecords /\ node[r] \in LeafRecords
  BY <1>8, <1>12, Now, LeafRecord
<1>14. CASE /\ Deleting(t, r, [node EXCEPT ![l] = MergedLeaf(@, node[r]),
                                           ![p] = remove_slot(@, m)],
                        [op[t] EXCEPT !.pc = "underflow", !.page = INVALID_PAGE_ID])
            /\ UNCHANGED <<root, panicked>>
  <2>1. PICK nd0 : nd0 = [node EXCEPT ![l] = n, ![p] = n2]
    OBVIOUS
  <2>2. [node EXCEPT ![l] = MergedLeaf(@, node[r]), ![p] = remove_slot(@, m)] = nd0
    BY <1>10, <1>11, <1>12, <1>13, <2>1
  <2>3. PICK nd2 : nd2 = Joint(node, p, m, l, r, n)
    OBVIOUS
  <2>4. nd2 = Put(nd0, r, Free)
    BY <1>11, <1>12, <1>13, <2>1, <2>3 DEF Joint, Put
  <2>5. PICK hi2 : hi2 = Put(hi, l, hi[r])
    OBVIOUS
  <2>6. Tree(nd2, root, pend, lv, lo, hi2)
    BY <1>8, <1>10, <1>12, <1>13, <2>3, <2>5, LeavesJoined
  <2>7. n \in PageRecords /\ n.kind # "free"
    BY <1>10, <1>13, MergedMade
  <2>8. Deleting(t, r, nd0, [op[t] EXCEPT !.pc = "underflow", !.page = INVALID_PAGE_ID])
    BY <1>14, <2>2
  <2>9. UNCHANGED root
    BY <1>14
  <2>10. Sound(node', root', op', pend, lv, lo, hi2)
    BY <1>1, <1>7, <1>8, <2>3, <2>4, <2>5, <2>6, <2>7, <2>8, <2>9, JoinedKept
  <2> QED
    BY <2>10
<1> QED
  BY <1>1, <1>2, <1>3, <1>4, <1>5, <1>9, <1>14 DEF MergeLeaf

LEMMA MergeNodeKept ==
  ASSUME EntriesBounded,
         NEW pend, NEW lv, NEW lo, NEW hi, Sound(node, root, op, pend, lv, lo, hi),
         NEW t \in Thread, MergeNode(t)
  PROVE  \E hi2 : Sound(node', root', op', pend, lv, lo, hi2)
<1>1. PICK p : p = Parent(t)
  OBVIOUS
<1>2. PICK idx : idx = IdxInParent(t)
  OBVIOUS
<1>3. PICK l : l = IF idx > 0 THEN Sibling(t, -1) ELSE op[t].page
  OBVIOUS
<1>4. PICK r : r = IF idx > 0 THEN op[t].page ELSE Sibling(t, 1)
  OBVIOUS
<1>5. PICK m : m = IF idx > 0 THEN idx ELSE 1
  OBVIOUS
<1>6. Granted(t, "merge") /\ ~IsLeaf(op[t].page)
  BY DEF MergeNode
<1>7. PICK s : Pair(pend, lv, lo, hi, t, s, p, m, l, r)
  BY <1>1, <1>2, <1>3, <1>4, <1>5, <1>6, MergePair
<1>8. op[t].pc = "merge" /\ node[l].kind = "internal" /\ node[r].kind = "internal"
  BY <1>1, <1>2, <1>3, <1>4, <1>5, <1>6, MergePair
<1>9. CASE Panic
  <2>1. Sound(node', root', op', pend, lv, lo, hi)
    BY <1>9, Still DEF Panic
  <2> QED
    BY <2>1
<1>15. PICK sep : sep = node[p].seps[m]
  OBVIOUS
<1>10. PICK n : n = MergedNode(node[l], node[r], sep)
  OBVIOUS
<1>11. PICK n2 : n2 = remove_slot(node[p], m)
  OBVIOUS
<1>12. /\ p \in Page /\ l \in Page /\ r \in Page /\ l # p /\ node[p].kind = "internal"
       /\ m \in 1 .. Len(node[p].seps) /\ l = node[p].children[m] /\ r = node[p].children[m + 1]
       /\ pend[l] = NoPage /\ pend[r] = NoPage /\ node[p].seps[m] \in Entry
  BY <1>7 DEF Pair, Adjacent
<1>13. Tree(node, root, pend, lv, lo, hi) /\ node \in [Page -> PageRecords]
  BY Now DEF Tree, Typed
<1>14. CASE /\ Deleting(t, r, [node EXCEPT ![l] = MergedNode(@, node[r], sep),
                                           ![p] = remove_slot(@, m)],
                        [op[t] EXCEPT !.pc = "underflow", !.page = INVALID_PAGE_ID])
            /\ UNCHANGED <<root, panicked>>
  <2>1. PICK nd0 : nd0 = [node EXCEPT ![l] = n, ![p] = n2]
    OBVIOUS
  <2>2. [node EXCEPT ![l] = MergedNode(@, node[r], sep), ![p] = remove_slot(@, m)] = nd0
    BY <1>10, <1>11, <1>12, <1>13, <2>1
  <2>3. PICK nd2 : nd2 = Joint(node, p, m, l, r, n)
    OBVIOUS
  <2>4. nd2 = Put(nd0, r, Free)
    BY <1>11, <1>12, <1>13, <2>1, <2>3 DEF Joint, Put
  <2>5. PICK hi2 : hi2 = Put(hi, l, hi[r])
    OBVIOUS
  <2>6. Tree(nd2, root, pend, lv, lo, hi2)
    BY <1>8, <1>10, <1>12, <1>13, <1>15, <2>3, <2>5, NodesJoined
  <2>7. n \in PageRecords /\ n.kind # "free"
    <3>1. /\ node[l].children \in Seq(Page) /\ node[l].seps \in Seq(Entry)
          /\ node[r].children \in Seq(Page) /\ node[r].seps \in Seq(Entry)
      BY <1>8, <1>12, <1>13, Children
    <3>2. Append(node[l].seps, sep) \in Seq(Entry)
      BY <1>12, <1>15, <3>1, Extended
    <3>3. /\ node[l].children \o node[r].children \in Seq(Page)
          /\ Append(node[l].seps, sep) \o node[r].seps \in Seq(Entry)
      BY <3>1, <3>2, Joined
    <3> QED
      BY <1>10, <3>3, NodeMade DEF MergedNode
  <2>8. Deleting(t, r, nd0, [op[t] EXCEPT !.pc = "underflow", !.page = INVALID_PAGE_ID])
    BY <1>14, <2>2
  <2>9. UNCHANGED root
    BY <1>14
  <2>10. Sound(node', root', op', pend, lv, lo, hi2)
    BY <1>1, <1>7, <1>8, <2>3, <2>4, <2>5, <2>6, <2>7, <2>8, <2>9, JoinedKept
  <2> QED
    BY <2>10
<1> QED
  BY <1>1, <1>2, <1>3, <1>4, <1>5, <1>9, <1>14, <1>15 DEF MergeNode

-----------------------------------------------------------------------------
(* After a merge.                                                          *)

LEMMA AtUnderflow ==
  ASSUME NEW pend, NEW lv, NEW lo, NEW hi, Sound(node, root, op, pend, lv, lo, hi),
         NEW t \in Thread, op[t].pc = "underflow", NEW w, w = op[t].writes,
         NEW p, p = Last(w)
  PROVE  /\ Tree(node, root, pend, lv, lo, hi) /\ IsCall(op[t])
         /\ op[t].page = NoPage /\ op[t].kind = "remove" /\ op[t].read = NoPage
         /\ OnPath(node, root, lv, op[t], w) /\ Path(node, lv, w) /\ node[p].kind = "internal"
         /\ WrittenBy(op[t]) = ToSet(w) /\ ToSet(w) \subseteq Pages(node)
         /\ w \in Seq(Page) /\ w # <<>> /\ p \in ToSet(w) /\ p \in Page
<1>1. Tree(node, root, pend, lv, lo, hi) /\ IsCall(op[t]) /\ Underflowing(node, root, lv, op[t])
  BY Now, StageOf
<1>2. /\ op[t].page = NoPage /\ op[t].kind = "remove" /\ OnPath(node, root, lv, op[t], w)
      /\ node[p].kind = "internal"
  BY <1>1 DEF Underflowing
<1>3. op[t].read = NoPage /\ Path(node, lv, w) /\ w \in Seq(Page) /\ w # <<>>
  BY <1>2 DEF OnPath, Path
<1>4. WrittenBy(op[t]) = ToSet(w) /\ ToSet(w) \subseteq Pages(node)
  BY <1>1, <1>2, PathLatched DEF AllWritten
<1>5. p \in ToSet(w) /\ p \in Page
  BY <1>3, LastAndFront
<1> QED
  BY <1>1, <1>2, <1>3, <1>4, <1>5

\* The root has only one child left.
LEMMA ToShrinkKept ==
  ASSUME NEW pend, NEW lv, NEW lo, NEW hi, Sound(node, root, op, pend, lv, lo, hi),
         NEW t \in Thread, op[t].pc = "underflow", NEW w, w = op[t].writes,
         NEW p, p = Last(w), op[t].root = p, size(node[p]) = 1,
         Goto(t, [op[t] EXCEPT !.pc = "shrink", !.page = p, !.writes = Front(w)]),
         UNCHANGED <<root, node>>
  PROVE  Sound(node', root', op', pend, lv, lo, hi)
<1> DEFINE o == op[t]
<1>1. /\ Tree(node, root, pend, lv, lo, hi) /\ IsCall(op[t])
      /\ op[t].page = NoPage /\ op[t].kind = "remove" /\ op[t].read = NoPage
      /\ OnPath(node, root, lv, op[t], w) /\ Path(node, lv, w) /\ node[p].kind = "internal"
      /\ WrittenBy(op[t]) = ToSet(w)
      /\ w \in Seq(Page) /\ w # <<>> /\ p \in ToSet(w) /\ p \in Page
  <2>1. Tree(node, root, pend, lv, lo, hi) /\ IsCall(op[t])
    BY AtUnderflow
  <2>2. op[t].page = NoPage /\ op[t].kind = "remove" /\ op[t].read = NoPage
    BY AtUnderflow
  <2>3. OnPath(node, root, lv, op[t], w) /\ Path(node, lv, w)
    BY AtUnderflow
  <2>4. node[p].kind = "internal"
    BY AtUnderflow
  <2>5. WrittenBy(op[t]) = ToSet(w)
    BY AtUnderflow
  <2>6. w \in Seq(Page) /\ w # <<>> /\ p \in ToSet(w) /\ p \in Page
    BY AtUnderflow
  <2> QED
    BY <2>1, <2>2, <2>3, <2>4, <2>5, <2>6
<1>2. /\ lv[p] <= lv[w[1]] /\ lv[p] \in Nat /\ lv[w[1]] \in Nat
      /\ lv[w[1]] = lv[p] => Len(w) = 1
  <2>1. w[1] \in ToSet(w)
    BY <1>1, LastAndFront
  <2> QED
    BY <1>1, <2>1, PathLevels
<1>3. o.header = "write" /\ o.root = root /\ w[1] = root
  <2>1. ~(lv[w[1]] < lv[o.root])
    BY <1>2
  <2> QED
    BY <1>1, <2>1 DEF OnPath
<1>4. Front(w) = <<>>
  BY <1>1, <1>2, <1>3, LastAndFront
<1>5. PICK v : v = <<>>
  OBVIOUS
<1>6. PICK o2 : o2 = [o EXCEPT !.pc = "shrink", !.page = p, !.writes = v]
  OBVIOUS
<1>7. /\ IsCall(o2) /\ o2.pc = "shrink" /\ o2.kind = o.kind /\ o2.page = p /\ o2.writes = v
      /\ o2.read = o.read /\ o2.header = o.header /\ o2.root = o.root
  BY <1>1, <1>6 DEF IsCall
<1>8. p = root /\ root # NoPage
  BY <1>1, <1>3, NoPageIsNone
<1>9. num_children(node[root]) = 1
  BY <1>1, <1>8 DEF size
<1>10. Stage(node, root, pend, lv, lo, hi, o2)
  BY <1>1, <1>3, <1>5, <1>7, <1>8, <1>9 DEF Stage, Shrinking
<1>11. WrittenBy(o2) = {p}
  <2>1. ToSet(v) = {}
    BY <1>5, SetOfEmpty
  <2> QED
    BY <1>7, <1>8, <2>1 DEF WrittenBy
<1>12. Onward(op, t, {}, o2)
  BY <1>1, <1>7, <1>11 DEF Onward
<1>13. Goto(t, o2) /\ op[t].pc # "split"
  BY <1>4, <1>5, <1>6
<1>14. UNCHANGED <<root, node>>
  OBVIOUS
<1> QED
  BY <1>7, <1>10, <1>12, <1>13, <1>14, WalkedTo

\* A page below the root underflows in its turn.
LEMMA ToSiblingKept ==
  ASSUME EntriesBounded,
         NEW pend, NEW lv, NEW lo, NEW hi, Sound(node, root, op, pend, lv, lo, hi),
         NEW t \in Thread, op[t].pc = "underflow", NEW w, w = op[t].writes,
         NEW p, p = Last(w), NEW v, v = Front(w), v # <<>>, num_children(node[Last(v)]) > 1,
         Goto(t, [op[t] EXCEPT !.pc = FirstSide(p, Last(v)), !.page = p, !.writes = v]),
         UNCHANGED <<root, node>>
  PROVE  Sound(node', root', op', pend, lv, lo, hi)
<1> DEFINE o == op[t]
<1>1. /\ Tree(node, root, pend, lv, lo, hi) /\ IsCall(o)
      /\ o.page = NoPage /\ o.kind = "remove" /\ o.read = NoPage
      /\ OnPath(node, root, lv, o, w) /\ Path(node, lv, w)
      /\ WrittenBy(o) = ToSet(w) /\ w \in Seq(Page) /\ w # <<>>
  BY AtUnderflow
<1>2. Len(w) > 1
  <2>1. Len(w) \in Nat /\ Len(w) >= 1 /\ (Front(w) = <<>> <=> Len(w) = 1)
    BY <1>1, LastAndFront
  <2>2. Len(w) # 1
    BY <2>1, Zenon
  <2>3. PICK n : n = Len(w)
    OBVIOUS
  <2>4. n \in Nat /\ n >= 1 /\ n # 1
    BY <2>1, <2>2, <2>3
  <2>5. n > 1
    BY <2>4
  <2> QED
    BY <2>3, <2>5
<1>3. PICK q : q = Last(v)
  OBVIOUS
<1>4. PICK o2 : o2 = [o EXCEPT !.pc = FirstSide(p, q), !.page = p, !.writes = v]
  OBVIOUS
<1>5. /\ IsCall(o2) /\ o2.pc = FirstSide(p, q) /\ o2.kind = o.kind /\ o2.entry = o.entry
      /\ o2.writes = v /\ o2.page = p /\ o2.read = o.read
      /\ o2.header = o.header /\ o2.root = o.root
  BY <1>1, <1>4 DEF IsCall
<1>6. OnPath(node, root, lv, o2, w)
  BY <1>1, <1>5 DEF OnPath
<1>7. PICK nd2 : nd2 = node
  OBVIOUS
<1>8. nd2[q] = node[q] /\ num_children(node[q]) > 1
  BY <1>3, <1>7
<1>9. /\ Stage(nd2, root, pend, lv, lo, hi, o2) /\ WrittenBy(o2) = ToSet(w)
      /\ o2.read = NoPage
  BY <1>1, <1>2, <1>3, <1>5, <1>6, <1>7, <1>8, BesideMade
<1>10. Onward(op, t, {}, o2)
  BY <1>1, <1>5, <1>9 DEF Onward
<1>11. Goto(t, o2) /\ op[t].pc # "split" /\ Stage(node, root, pend, lv, lo, hi, o2)
  BY <1>3, <1>4, <1>7, <1>9
<1>12. UNCHANGED <<root, node>>
  OBVIOUS
<1> QED
  BY <1>5, <1>10, <1>11, <1>12, WalkedTo

LEMMA UnderflowKept ==
  ASSUME EntriesBounded,
         NEW pend, NEW lv, NEW lo, NEW hi, Sound(node, root, op, pend, lv, lo, hi),
         NEW t \in Thread, Underflow(t)
  PROVE  Sound(node', root', op', pend, lv, lo, hi)
<1>1. PICK w : w = op[t].writes
  OBVIOUS
<1>2. PICK p : p = Last(w)
  OBVIOUS
<1>3. PICK v : v = Front(w)
  OBVIOUS
<1>4. op[t].pc = "underflow"
  BY DEF Underflow
<1>5. CASE /\ p = op[t].root /\ size(node[p]) = 1
           /\ Goto(t, [op[t] EXCEPT !.pc = "shrink", !.page = p, !.writes = v])
           /\ UNCHANGED <<root, node>>
  <2>1. Goto(t, [op[t] EXCEPT !.pc = "shrink", !.page = p, !.writes = Front(w)])
    BY <1>3, <1>5
  <2> QED
    BY <1>1, <1>2, <1>4, <1>5, <2>1, ToShrinkKept
<1>6. CASE Finish(t, op[t].answer) /\ UNCHANGED <<root, node>>
  BY <1>4, <1>6, JustReturned
<1>7. CASE /\ v # <<>> /\ num_children(node[Last(v)]) > 1
           /\ Goto(t, [op[t] EXCEPT !.pc = FirstSide(p, Last(v)), !.page = p, !.writes = v])
           /\ UNCHANGED <<root, node>>
  BY <1>1, <1>2, <1>3, <1>4, <1>7, ToSiblingKept
<1>8. CASE Panic
  BY <1>8, Still DEF Panic
<1> QED
  BY <1>1, <1>2, <1>3, <1>5, <1>6, <1>7, <1>8 DEF Underflow

LEMMA AtShrink ==
  ASSUME EntriesBounded,
         NEW pend, NEW lv, NEW lo, NEW hi, Sound(node, root, op, pend, lv, lo, hi),
         NEW t \in Thread, Granted(t, "shrink"), NEW c, c = node[root].children[1]
  PROVE  /\ Tree(node, root, pend, lv, lo, hi) /\ op[t].pc = "shrink" /\ op[t].kind = "remove"
         /\ op[t].page = root /\ root \in Page /\ node[root].kind = "internal"
         /\ Len(node[root].children) = 1 /\ WrittenBy(op[t]) = {root}
         /\ Wants(t).page = c /\ ChildOf(node, c, root) /\ c # root
         /\ pend[root] = NoPage /\ pend[c] = NoPage /\ c \in Page /\ c \in Pages(node)
         /\ Alone(op, t, c) /\ \A z \in Page : pend[z] # c
         /\ ~PinnedByOther(t, root) /\ ~PinnedByOther(t, c)
         /\ \A u \in Thread \ {t} : op[u].header = "none"
<1>1. op[t].pc = "shrink"
  BY DEF Granted
<1>2. Tree(node, root, pend, lv, lo, hi) /\ Shrinking(node, root, op[t])
  BY <1>1, Now, StageOf
<1>3. /\ op[t].writes = <<>> /\ op[t].page = root /\ root # NoPage /\ op[t].kind = "remove"
      /\ op[t].header = "write" /\ node[root].kind = "internal"
      /\ num_children(node[root]) = 1
  BY <1>2 DEF Shrinking
<1>4. WrittenBy(op[t]) = {root}
  BY <1>3, SetOfEmpty DEF WrittenBy
<1>5. root \in Page
  BY <1>2, <1>3 DEF Tree, Typed, Pages
<1>6. Len(node[root].children) = 1
  BY <1>3 DEF num_children
<1>7. ChildOf(node, c, root) /\ c # root
  BY <1>2, <1>3, <1>5, <1>6, Children
<1>8. Wants(t) = [page |-> c, mode |-> "write"]
  <2>1. value_at(node[root], 0) = c
    BY DEF value_at
  <2> QED
    BY <1>1, <1>3, <2>1, WantsAt
<1>9. c \in Page /\ c \in Pages(node) /\ Alone(op, t, c) /\ pend[c] = NoPage
      /\ \A z \in Page : pend[z] # c
  BY <1>1, <1>7, <1>8, SiblingHeld
<1>10. pend[root] = NoPage
  BY <1>1, <1>4, <1>5, Whole
<1>11. Alone(op, t, root)
  BY <1>4, Held
<1>12. ~PinnedByOther(t, root)
  BY <1>3, <1>5, <1>11, Unpinned
<1>13. ~PinnedByOther(t, c)
  BY <1>3, <1>4, <1>7, <1>9, Unpinned
<1>14. \A u \in Thread \ {t} : op[u].header = "none"
  BY <1>3 DEF Sound, Apart
<1>15. Wants(t).page = c
  BY <1>8
<1> QED
  BY <1>1, <1>2, <1>3, <1>4, <1>5, <1>6, <1>7, <1>9, <1>10, <1>12, <1>13, <1>14, <1>15

\* What the root's place is taken by: its only child, or nothing.
LEMMA RootChanged ==
  ASSUME NEW pend, NEW lv, NEW lo, NEW hi, Sound(node, root, op, pend, lv, lo, hi),
         NEW t \in Thread, op[t].pc = "shrink", op[t].kind = "remove",
         NEW G, \A p \in G : p \in Page /\ Alone(op, t, p) /\ \A z \in Page : pend[z] # p,
         \A p \in Page : p \in WrittenBy(op[t]) \cup G => pend[p] = NoPage,
         \A u \in Thread \ {t} : op[u].header = "none",
         NEW nd2, NEW top2, Tree(nd2, top2, pend, lv, lo, hi),
         \A p \in Page : p \notin WrittenBy(op[t]) /\ p \notin G => nd2[p] = node[p],
         node' = nd2, root' = top2, NEW a, Goto(t, Returning(a))
  PROVE  Sound(node', root', op', pend, lv, lo, hi)
<1>1. PICK o2 : o2 = Returning(a)
  OBVIOUS
<1>2. IsCall(o2) /\ Stage(nd2, top2, pend, lv, lo, hi, o2) /\ Onward(op, t, G, o2)
  BY <1>1, AtReturn
<1>3. StepBy(node, root, op, pend, lv, lo, hi, t, G, o2, nd2, top2, pend, lv, lo, hi)
  BY <1>2 DEF StepBy, Onward
<1>4. Sound(nd2, top2, Put(op, t, o2), pend, lv, lo, hi)
  BY <1>3, Stepped
<1>5. op' = Put(op, t, o2)
  BY <1>1, Gone
<1> QED
  BY <1>4, <1>5

LEMMA ShrinkRootKept ==
  ASSUME EntriesBounded,
         NEW pend, NEW lv, NEW lo, NEW hi, Sound(node, root, op, pend, lv, lo, hi),
         NEW t \in Thread, ShrinkRoot(t)
  PROVE  Sound(node', root', op', pend, lv, lo, hi)
<1>1. PICK c : c = node[root].children[1]
  OBVIOUS
<1>2. PICK x : x = root
  OBVIOUS
<1>3. Granted(t, "shrink")
  BY DEF ShrinkRoot
<1>4. /\ Tree(node, x, pend, lv, lo, hi) /\ op[t].pc = "shrink" /\ op[t].kind = "remove"
      /\ op[t].page = x /\ x \in Page /\ node[x].kind = "internal"
      /\ Len(node[x].children) = 1 /\ WrittenBy(op[t]) = {x}
      /\ Wants(t).page = c /\ ChildOf(node, c, x) /\ c # x
      /\ pend[x] = NoPage /\ pend[c] = NoPage /\ c \in Page /\ c \in Pages(node)
      /\ Alone(op, t, c) /\ \A z \in Page : pend[z] # c
      /\ ~PinnedByOther(t, x) /\ ~PinnedByOther(t, c)
      /\ \A u \in Thread \ {t} : op[u].header = "none"
  BY <1>1, <1>2, <1>3, AtShrink
<1>5. PICK empty : empty = (IsLeaf(c) /\ size(node[c]) = 0)
  OBVIOUS
<1>6. PICK a : a = op[t].answer
  OBVIOUS
<1>7. node \in [Page -> PageRecords]
  BY <1>4 DEF Tree, Typed
<1>8. PICK nd1 : nd1 = [node EXCEPT ![x] = Free]
  OBVIOUS
<1>9. Tree(nd1, c, pend, lv, lo, hi)
  <2>1. c = node[x].children[1]
    BY <1>1, <1>2
  <2> QED
    BY <1>4, <1>8, <2>1, Shrunk
<1>10. nd1[x] = Free /\ \A z \in Page : z # x => nd1[z] = node[z]
  BY <1>4, <1>7, <1>8
<1>11. CASE ~empty
  <2>1. root' = c /\ node' = nd1 /\ Goto(t, Returning(a))
    BY <1>2, <1>4, <1>5, <1>6, <1>8, <1>11 DEF ShrinkRoot, Deleting, Returned, Returning
  <2>3. PICK G : G = {}
    OBVIOUS
  <2>2. \A p \in Page : p \notin WrittenBy(op[t]) /\ p \notin G => nd1[p] = node[p]
    BY <1>4, <1>10
  <2>4. /\ \A p \in G : p \in Page /\ Alone(op, t, p) /\ \A z \in Page : pend[z] # p
        /\ \A p \in Page : p \in WrittenBy(op[t]) \cup G => pend[p] = NoPage
    BY <1>4, <2>3
  <2>5. /\ op[t].pc = "shrink" /\ op[t].kind = "remove"
        /\ \A u \in Thread \ {t} : op[u].header = "none"
    BY <1>4
  <2> QED
    BY <1>9, <2>1, <2>2, <2>4, <2>5, RootChanged
<1>12. CASE empty
  <2>1. IsLeaf(c)
    BY <1>5, <1>12
  <2>2. nd1[c].kind = "leaf"
    BY <1>4, <1>10, <2>1 DEF IsLeaf
  <2>3. Pages(nd1) = {c}
    BY <1>4, <1>9, <2>2, TopAlone
  <2>4. PICK nd2 : nd2 = [[node EXCEPT ![c] = Free] EXCEPT ![x] = Free]
    OBVIOUS
  <2>5. /\ nd2[c] = Free /\ nd2[x] = Free
        /\ \A z \in Page : z # x /\ z # c => nd2[z] = node[z]
        /\ nd2 = [z \in Page |-> nd2[z]]
    BY <1>4, <1>7, <2>4
  <2>6. nd2 \in [Page -> PageRecords] /\ Pages(nd2) = {}
    <3>1. \A z \in Page : nd2[z] \in PageRecords
      BY <1>7, <2>5 DEF PageRecords
    <3>2. Free.kind = "free"
      BY DEF Free
    <3>3. \A z \in Page : nd2[z].kind = "free"
      BY <1>10, <2>3, <2>5, <3>2 DEF Pages
    <3> QED
      BY <2>5, <3>1, <3>3 DEF Pages
  <2>7. Tree(nd2, NoPage, pend, lv, lo, hi)
    BY <1>4, <1>9, <2>2, <2>6, Felled
  <2>8. root' = NoPage /\ node' = nd2 /\ Goto(t, Returning(a))
    BY <1>2, <1>4, <1>5, <1>6, <1>12, <2>4
    DEF ShrinkRoot, Deleting, Returned, Returning, NoPage
  <2>9. PICK G : G = {c}
    OBVIOUS
  <2>10. \A p \in Page : p \notin WrittenBy(op[t]) /\ p \notin G => nd2[p] = node[p]
    BY <1>4, <2>5, <2>9
  <2>11. /\ \A p \in G : p \in Page /\ Alone(op, t, p) /\ \A z \in Page : pend[z] # p
         /\ \A p \in Page : p \in WrittenBy(op[t]) \cup G => pend[p] = NoPage
    BY <1>4, <2>9
  <2>12. /\ op[t].pc = "shrink" /\ op[t].kind = "remove"
         /\ \A u \in Thread \ {t} : op[u].header = "none"
    BY <1>4
  <2> QED
    BY <2>7, <2>8, <2>10, <2>11, <2>12, RootChanged
<1> QED
  BY <1>11, <1>12

-----------------------------------------------------------------------------
-----------------------------------------------------------------------------
(* The invariant.                                                          *)

\* What an action leaves sound satisfies the invariant.
LEMMA Kept ==
  ASSUME NEW pend, NEW lv, NEW lo, NEW hi, Sound(node', root', op', pend, lv, lo, hi)
  PROVE  TreeInv'
BY DEF TreeInv

\* Every step of a call keeps the tree sound.
LEMMA AdvanceKept ==
  ASSUME EntriesBounded, NoTombstones, TreeInv, NEW t \in Thread, Advance(t)
  PROVE  TreeInv'
<1>0. PICK pend, lv, lo, hi : Sound(node, root, op, pend, lv, lo, hi)
  BY DEF TreeInv
<1>1. CASE LatchHeader(t)
  <2>1. Sound(node', root', op', pend, lv, lo, hi)
    BY ONLY <1>0, <1>1, LatchHeaderKept, t \in Thread
  <2> QED
    BY ONLY <2>1, Kept
<1>2. CASE LatchRoot(t)
  <2>1. Sound(node', root', op', pend, lv, lo, hi)
    BY ONLY <1>0, <1>2, LatchRootKept, t \in Thread, EntriesBounded
  <2> QED
    BY ONLY <2>1, Kept
<1>3. CASE Descend(t)
  <2>1. Sound(node', root', op', pend, lv, lo, hi)
    BY ONLY <1>0, <1>3, DescendKept, t \in Thread, EntriesBounded
  <2> QED
    BY ONLY <2>1, Kept
<1>4. CASE InsertOptimistic(t)
  <2>1. Sound(node', root', op', pend, lv, lo, hi)
    BY ONLY <1>0, <1>4, InsertOptimisticKept, t \in Thread, EntriesBounded
  <2> QED
    BY ONLY <2>1, Kept
<1>5. CASE RemoveOptimistic(t)
  <2>1. Sound(node', root', op', pend, lv, lo, hi)
    BY ONLY <1>0, <1>5, RemoveOptimisticKept, t \in Thread, EntriesBounded, NoTombstones
  <2> QED
    BY ONLY <2>1, Kept
<1>6. CASE LatchHeaderForWrite(t)
  <2>1. Sound(node', root', op', pend, lv, lo, hi)
    BY ONLY <1>0, <1>6, LatchHeaderForWriteKept, t \in Thread
  <2> QED
    BY ONLY <2>1, Kept
<1>7. CASE InsertFirst(t)
  <2>1. \E pend2, lv2, lo2, hi2 : Sound(node', root', op', pend2, lv2, lo2, hi2)
    BY ONLY <1>0, <1>7, InsertFirstKept, t \in Thread, EntriesBounded
  <2> QED
    BY ONLY <2>1, Kept
<1>8. CASE LatchRootForWrite(t)
  <2>1. Sound(node', root', op', pend, lv, lo, hi)
    BY ONLY <1>0, <1>8, LatchRootForWriteKept, t \in Thread, EntriesBounded
  <2> QED
    BY ONLY <2>1, Kept
<1>9. CASE DescendForWrite(t)
  <2>1. Sound(node', root', op', pend, lv, lo, hi)
    BY ONLY <1>0, <1>9, DescendForWriteKept, t \in Thread, EntriesBounded
  <2> QED
    BY ONLY <2>1, Kept
<1>10. CASE InsertAtLeaf(t)
  <2>1. \E pend2, lv2, lo2, hi2 : Sound(node', root', op', pend2, lv2, lo2, hi2)
    BY ONLY <1>0, <1>10, InsertAtLeafKept, t \in Thread, EntriesBounded
  <2> QED
    BY ONLY <2>1, Kept
<1>11. CASE SplitRoot(t)
  <2>1. \E pend2, lv2, lo2, hi2 : Sound(node', root', op', pend2, lv2, lo2, hi2)
    BY ONLY <1>0, <1>11, SplitRootKept, t \in Thread, EntriesBounded
  <2> QED
    BY ONLY <2>1, Kept
<1>12. CASE InsertIntoParent(t)
  <2>1. \E pend2, lv2, lo2, hi2 : Sound(node', root', op', pend2, lv2, lo2, hi2)
    BY ONLY <1>0, <1>12, InsertIntoParentKept, t \in Thread, EntriesBounded
  <2> QED
    BY ONLY <2>1, Kept
<1>13. CASE SplitParent(t)
  <2>1. \E pend2, lv2, lo2, hi2 : Sound(node', root', op', pend2, lv2, lo2, hi2)
    BY ONLY <1>0, <1>13, SplitParentKept, t \in Thread, EntriesBounded
  <2> QED
    BY ONLY <2>1, Kept
<1>14. CASE RemoveAtLeaf(t)
  <2>1. Sound(node', root', op', pend, lv, lo, hi)
    BY ONLY <1>0, <1>14, RemoveAtLeafKept, t \in Thread, EntriesBounded, NoTombstones
  <2> QED
    BY ONLY <2>1, Kept
<1>15. CASE LeafLeft(t)
  <2>1. \E lo2, hi2 : Sound(node', root', op', pend, lv, lo2, hi2)
    BY ONLY <1>0, <1>15, LeafLeftKept, t \in Thread, EntriesBounded
  <2> QED
    BY ONLY <2>1, Kept
<1>16. CASE LeafRight(t)
  <2>1. \E lo2, hi2 : Sound(node', root', op', pend, lv, lo2, hi2)
    BY ONLY <1>0, <1>16, LeafRightKept, t \in Thread, EntriesBounded
  <2> QED
    BY ONLY <2>1, Kept
<1>17. CASE MergeLeaf(t)
  <2>1. \E hi2 : Sound(node', root', op', pend, lv, lo, hi2)
    BY ONLY <1>0, <1>17, MergeLeafKept, t \in Thread, EntriesBounded
  <2> QED
    BY ONLY <2>1, Kept
<1>18. CASE Underflow(t)
  <2>1. Sound(node', root', op', pend, lv, lo, hi)
    BY ONLY <1>0, <1>18, UnderflowKept, t \in Thread, EntriesBounded
  <2> QED
    BY ONLY <2>1, Kept
<1>19. CASE NodeLeft(t)
  <2>1. \E lo2, hi2 : Sound(node', root', op', pend, lv, lo2, hi2)
    BY ONLY <1>0, <1>19, NodeLeftKept, t \in Thread, EntriesBounded
  <2> QED
    BY ONLY <2>1, Kept
<1>20. CASE NodeRight(t)
  <2>1. \E lo2, hi2 : Sound(node', root', op', pend, lv, lo2, hi2)
    BY ONLY <1>0, <1>20, NodeRightKept, t \in Thread, EntriesBounded
  <2> QED
    BY ONLY <2>1, Kept
<1>21. CASE MergeNode(t)
  <2>1. \E hi2 : Sound(node', root', op', pend, lv, lo, hi2)
    BY ONLY <1>0, <1>21, MergeNodeKept, t \in Thread, EntriesBounded
  <2> QED
    BY ONLY <2>1, Kept
<1>22. CASE ShrinkRoot(t)
  <2>1. Sound(node', root', op', pend, lv, lo, hi)
    BY ONLY <1>0, <1>22, ShrinkRootKept, t \in Thread, EntriesBounded
  <2> QED
    BY ONLY <2>1, Kept
<1>23. CASE PinRoot(t)
  <2>1. Sound(node', root', op', pend, lv, lo, hi)
    BY ONLY <1>0, <1>23, PinRootKept, t \in Thread
  <2> QED
    BY ONLY <2>1, Kept
<1>24. CASE Search(t)
  <2>1. Sound(node', root', op', pend, lv, lo, hi)
    BY ONLY <1>0, <1>24, SearchKept, t \in Thread, EntriesBounded
  <2> QED
    BY ONLY <2>1, Kept
<1>25. CASE ReadLeaf(t)
  <2>1. Sound(node', root', op', pend, lv, lo, hi)
    BY ONLY <1>0, <1>25, ReadLeafKept, t \in Thread, EntriesBounded
  <2> QED
    BY ONLY <2>1, Kept
<1>26. CASE PinNext(t)
  <2>1. Sound(node', root', op', pend, lv, lo, hi)
    BY ONLY <1>0, <1>26, PinNextKept, t \in Thread
  <2> QED
    BY ONLY <2>1, Kept
<1>27. CASE LatchNext(t)
  <2>1. Sound(node', root', op', pend, lv, lo, hi)
    BY ONLY <1>0, <1>27, LatchNextKept, t \in Thread
  <2> QED
    BY ONLY <2>1, Kept
<1>28. CASE Return(t)
  <2>1. Sound(node', root', op', pend, lv, lo, hi)
    BY ONLY <1>0, <1>28, ReturnKept, t \in Thread
  <2> QED
    BY ONLY <2>1, Kept
<1> QED
  BY <1>1, <1>2, <1>3, <1>4, <1>5, <1>6, <1>7, <1>8, <1>9, <1>10, <1>11, <1>12, <1>13, <1>14,
     <1>15, <1>16, <1>17, <1>18, <1>19, <1>20, <1>21, <1>22, <1>23, <1>24, <1>25, <1>26, <1>27,
     <1>28 DEF Advance

\* Every step keeps the tree sound.
LEMMA StepKept ==
  ASSUME EntriesBounded, NoTombstones, LookupsApart, TreeInv, [Next]_vars
  PROVE  TreeInv'
<1>0. PICK pend, lv, lo, hi : Sound(node, root, op, pend, lv, lo, hi)
  BY DEF TreeInv
<1>1. CASE UNCHANGED <<root, node, op>>
  <2>1. Sound(node', root', op', pend, lv, lo, hi)
    BY ONLY <1>0, <1>1, Still
  <2> QED
    BY ONLY <2>1, Kept
<1>2. ASSUME NEW t \in Thread, NEW kind \in Updates, NEW e \in Updated, Call(t, kind, e)
      PROVE  TreeInv'
  <2>1. kind \in Updates \cup Lookups /\ e \in Entry
    BY EntryAssumption
  <2>2. Sound(node', root', op', pend, lv, lo, hi)
    BY ONLY <1>0, <1>2, <2>1, CallKept, t \in Thread, LookupsApart
  <2> QED
    BY ONLY <2>2, Kept
<1>3. ASSUME NEW t \in Thread, NEW kind \in Lookups, NEW e \in LeastEntries, Call(t, kind, e)
      PROVE  TreeInv'
  <2>1. kind \in Updates \cup Lookups /\ e \in Entry
    BY DEF LeastEntries
  <2>2. Sound(node', root', op', pend, lv, lo, hi)
    BY ONLY <1>0, <1>3, <2>1, CallKept, t \in Thread, LookupsApart
  <2> QED
    BY ONLY <2>2, Kept
<1>4. ASSUME NEW t \in Thread, Advance(t) PROVE TreeInv'
  BY <1>4, AdvanceKept
<1>5. CASE Next
  BY <1>1, <1>2, <1>3, <1>4, <1>5 DEF Next, vars
<1> QED
  BY <1>1, <1>5 DEF vars

\* The trees to begin with are sound, and no page of theirs is half of another.
TreesSound ==
  \A tree \in InitialTrees : \E pend, lv, lo, hi :
    /\ Tree(tree.node, tree.root, pend, lv, lo, hi)
    /\ \A p \in Page : pend[p] = NoPage

\* The tree that BPlusTree::new makes is one.
LEMMA EmptyTreeSound ==
  ASSUME EntriesBounded
  PROVE  \E pend, lv, lo, hi :
           /\ Tree(EmptyTree.node, EmptyTree.root, pend, lv, lo, hi)
           /\ \A p \in Page : pend[p] = NoPage
<1> DEFINE nd == [p \in Page |-> Free]
           pend == [p \in Page |-> NoPage]
           lv == [p \in Page |-> 0]
<1>1. EmptyTree.node = nd /\ EmptyTree.root = NoPage
  BY DEF EmptyTree, NoPage
<1>2. nd \in [Page -> PageRecords] /\ Pages(nd) = {}
  BY DEF PageRecords, Pages, Free
<1>3. Typed(nd, NoPage, pend, lv, lv, lv)
  BY <1>2 DEF Typed
<1>4. Spread(nd, lv, lv) /\ Disjoint(nd, lv, lv, lv) /\ Owned(nd, NoPage, pend)
  BY <1>2 DEF Spread, Disjoint, Owned
<1>5. Halves(nd, pend, lv, lv, lv) /\ Rooted(nd, NoPage, pend, lv, lv, lv)
  BY <1>2 DEF Halves, Rooted
<1>6. Tree(nd, NoPage, pend, lv, lv, lv)
  BY <1>2, <1>3, <1>4, <1>5 DEF Tree
<1> QED
  BY <1>1, <1>6

\* Initially the tree is sound, and no call is made.
LEMMA InitSound ==
  ASSUME Init, TreesSound
  PROVE  TreeInv
<1>1. PICK tree \in InitialTrees : root = tree.root /\ node = tree.node
  BY DEF Init
<1>2. PICK pend, lv, lo, hi : /\ Tree(tree.node, tree.root, pend, lv, lo, hi)
                              /\ \A p \in Page : pend[p] = NoPage
  BY <1>1 DEF TreesSound
<1>3. op = [t \in Thread |-> Idle] /\ \A t \in Thread : op[t] = Idle
  BY DEF Init
<1>4. IsCall(Idle) /\ Stage(node, root, pend, lv, lo, hi, Idle)
  <2>1. IsCall(Idle)
    BY DEF IsCall, Idle
  <2>2. Idle.pc = "idle" /\ AtRest(Idle)
    BY DEF Idle, AtRest, Bare, Unwritten, NoPage
  <2> QED
    BY <2>1, <2>2 DEF Stage
<1>5. Apart(Idle, Idle)
  <2>1. /\ Idle.writes = <<>> /\ Idle.page = NoPage
        /\ Idle.header = "none" /\ Idle.kind = "none"
    BY DEF Idle, NoPage
  <2>2. WrittenBy(Idle) = {}
    BY <2>1, SetOfEmpty DEF WrittenBy
  <2> QED
    BY <2>1, <2>2 DEF Apart
<1>6. HalvesHeld(op, pend)
  BY <1>2, <1>3 DEF HalvesHeld
<1>7. Sound(node, root, op, pend, lv, lo, hi)
  BY <1>1, <1>2, <1>3, <1>4, <1>5, <1>6 DEF Sound
<1> QED
  BY <1>7 DEF TreeInv

\* The latches of b_tree.rs keep the tree a search tree at every moment: each page
\* covers a range of entries that no other page of its level covers, its children
\* or the half a split has cut off cover it together, a leaf is linked to the one
\* right of it, and what a call has latched is still where its search found it.
THEOREM TreeInvariance ==
  EntriesBounded /\ NoTombstones /\ LookupsApart /\ TreesSound => (Spec => []TreeInv)
<1> SUFFICES ASSUME EntriesBounded, NoTombstones, LookupsApart, TreesSound
             PROVE  Spec => []TreeInv
  OBVIOUS
<1>1. Init => TreeInv
  BY InitSound
<1>2. TreeInv /\ [Next]_vars => TreeInv'
  BY StepKept
<1> QED
  BY <1>1, <1>2, PTL DEF Spec

\* The same for the tree that BPlusTree::new makes.
THEOREM TreeFromEmpty ==
  EntriesBounded /\ NoTombstones /\ LookupsApart /\ InitialTrees = {EmptyTree}
    => (Spec => []TreeInv)
<1>1. EntriesBounded /\ InitialTrees = {EmptyTree} => TreesSound
  BY EmptyTreeSound DEF TreesSound
<1> QED
  BY <1>1, TreeInvariance

-----------------------------------------------------------------------------
(* Nobody waits in a circle.                                               *)

Holds(o) == WrittenBy(o) \cup ({o.read} \ {NoPage})

\* o waits for the header page and holds nothing.
Outside(o) == o.pc \in {"header", "header_w"} /\ Holds(o) = {} /\ o.header = "none"

\* o waits for p, the root of the tree or of an earlier one, and holds at most the header.
Entering(o, p) == Holds(o) = {} /\ p \in Pages(node) /\ (p = root \/ o.kind \in Lookups)

\* o waits for p below everything it holds.
GoingDown(lv, o, p) ==
  \E q \in Holds(o) : ChildOf(node, p, q) /\ \A z \in Holds(o) : lv[q] <= lv[z]

\* o waits for p beside the lowest page it holds.
GoingBeside(lv, o, p) ==
  /\ o.kind = "remove" /\ o.page \in Pages(node)
  /\ \E q \in WrittenBy(o) :
       /\ ChildOf(node, p, q) /\ ChildOf(node, o.page, q)
       /\ \A z \in Holds(o) : z # o.page => lv[q] <= lv[z]

\* o waits for p, the leaf right of the one it reads.
GoingAlong(lv, o, p) ==
  /\ o.kind \in Lookups /\ Unwritten(o) /\ p \in Pages(node) /\ lv[p] = 0
  /\ \A z \in Holds(o) : lv[z] = 0

Waiting(lv, o, w) ==
  \/ Outside(o) /\ w.page = Header
  \/ Entering(o, w.page)
  \/ GoingDown(lv, o, w.page)
  \/ GoingBeside(lv, o, w.page)
  \/ GoingAlong(lv, o, w.page) /\ w.mode = "read"

\* The way down of a lookup leads to a child.
LEMMA ChildSought ==
  ASSUME NEW nd, NEW top, NEW pend, NEW lv, NEW lo, NEW hi, Tree(nd, top, pend, lv, lo, hi),
         EntriesBounded, NEW p \in Page, nd[p].kind = "internal", NEW e \in Entry,
         NEW c, c = value_at(nd[p], find_child_idx(nd[p], e[1]))
  PROVE  ChildOf(nd, c, p) /\ c \in Pages(nd)
<1> DEFINE i == find_child_idx(nd[p], e[1]) + 1
<1>1. /\ Row(nd[p].children, nd[p].seps, lo[p], hi[p], lv[p], Pages(nd), lv, lo, Ends(pend, hi))
      /\ Len(nd[p].children) = Len(nd[p].seps) + 1 /\ Len(nd[p].seps) \in Nat
  BY Children DEF NodeOK
<1>2. find_child_idx(nd[p], e[1]) \in 0 .. Len(nd[p].seps)
  BY <1>1, ChildLookedUp
<1>3. i \in 1 .. Len(nd[p].children)
  BY <1>1, <1>2
<1>4. c = nd[p].children[i]
  BY DEF value_at
<1> HIDE DEF i
<1> QED
  BY <1>1, <1>3, <1>4 DEF Row, ChildOf

\* What a lookup may wait for.
LEMMA LookupWaits ==
  ASSUME EntriesBounded,
         NEW pend, NEW lv, NEW lo, NEW hi, Sound(node, root, op, pend, lv, lo, hi),
         NEW t \in Thread, Wants(t).mode # "none", NEW o, o = op[t],
         o.pc \in {"root"} \cup LookupStages, Looking(node, lv, o)
  PROVE  Waiting(lv, o, Wants(t))
<1>1. /\ Tree(node, root, pend, lv, lo, hi) /\ Unwritten(o) /\ o.entry \in Entry
      /\ o.kind \in Lookups
  BY Now DEF Looking
<1>2. WrittenBy(o) = {}
  BY <1>1, SetOfEmpty DEF Unwritten, WrittenBy
<1>3. CASE o.pc = "root"
  <2>1. o.root \in Pages(node) /\ o.read = NoPage /\ Wants(t).page = o.root
    BY <1>3, WantsAt DEF Looking
  <2> QED
    BY <2>1, <1>1, <1>2 DEF Waiting, Entering, Holds
<1>4. CASE o.pc = "search" /\ node[o.read].kind = "internal"
  <2>1. PICK p : p = o.read
    OBVIOUS
  <2>2. p \in Pages(node) /\ p \in Page /\ p # NoPage
    BY <1>4, <2>1, NoPageIsNone DEF Looking, Pages
  <2>3. PICK c : c = value_at(node[p], find_child_idx(node[p], o.entry[1]))
    OBVIOUS
  <2>4. Wants(t).page = c
    BY <1>4, <2>1, <2>3, WantsAt
  <2>5. ChildOf(node, c, p)
    BY <1>1, <1>4, <2>1, <2>2, <2>3, ChildSought
  <2>6. Holds(o) = {p} /\ lv[p] <= lv[p]
    <3>1. lv[p] \in Nat
      BY <1>1, <2>2 DEF Tree, Typed
    <3> QED
      BY <3>1, <1>2, <2>1, <2>2 DEF Holds
  <2> QED
    BY <2>4, <2>5, <2>6 DEF Waiting, GoingDown
<1>5. CASE o.pc = "next"
  <2>1. Wants(t).page = o.target /\ Wants(t).mode = "read"
    BY <1>5, WantsAt
  <2>2. /\ o.target \in Pages(node) /\ lv[o.target] = 0
        /\ o.read = NoPage \/ (o.read \in Pages(node) /\ lv[o.read] = 0)
    BY <1>5 DEF Looking
  <2> QED
    BY <2>1, <2>2, <1>1, <1>2 DEF Waiting, GoingAlong, Holds
<1>6. o.pc \in {"root", "search", "next"} /\ (o.pc = "search" => node[o.read].kind = "internal")
  BY WantsAt DEF LookupStages
<1> QED
  BY <1>3, <1>4, <1>5, <1>6

\* What a thread waits for.
LEMMA WaitsWhere ==
  ASSUME EntriesBounded,
         NEW pend, NEW lv, NEW lo, NEW hi, Sound(node, root, op, pend, lv, lo, hi),
         NEW t \in Thread, Wants(t).mode # "none"
  PROVE  Waiting(lv, op[t], Wants(t))
<1>1. PICK o : o = op[t]
  OBVIOUS
<1>2. Tree(node, root, pend, lv, lo, hi) /\ Stage(node, root, pend, lv, lo, hi, o)
  BY <1>1, Now
<1>3. \A p \in Page : p # NoPage
  BY NoPageIsNone
<1>4. CASE o.pc \in {"header", "header_w"}
  <2>1. AtHeader(o) /\ Wants(t).page = Header
    BY <1>1, <1>2, <1>4, StageOf, WantsAt
  <2>2. Bare(o)
    BY <2>1 DEF AtHeader
  <2>3. Holds(o) = {} /\ o.header = "none"
    BY <2>2, SetOfEmpty DEF Bare, Unwritten, WrittenBy, Holds
  <2> QED
    BY <1>1, <1>4, <2>1, <2>3 DEF Waiting, Outside
<1>5. CASE o.pc \in {"root"} \cup LookupStages /\ Looking(node, lv, o)
  BY <1>1, <1>5, LookupWaits
<1>6. CASE o.pc = "root" /\ Descending(node, root, lv, lo, hi, o)
  <2>1. /\ o.root = root /\ root # NoPage /\ Unwritten(o) /\ o.read = NoPage
        /\ Wants(t).page = o.root
    BY <1>1, <1>6, WantsAt DEF Descending
  <2>2. root \in Pages(node) /\ Holds(o) = {}
    BY <2>1, <1>2, SetOfEmpty DEF Tree, Typed, Unwritten, WrittenBy, Holds
  <2> QED
    BY <1>1, <2>1, <2>2 DEF Waiting, Entering
<1>7. CASE /\ o.pc \in {"descend", "leaf"} /\ Descending(node, root, lv, lo, hi, o)
           /\ o.read \in Page /\ node[o.read].kind = "internal"
           /\ Within(lo, hi, o.read, o.entry) /\ Wants(t).page = ChosenChild(node, o.read, o.entry)
  <2>1. ChildOf(node, Wants(t).page, o.read)
    BY <1>2, <1>7, ChildChosen
  <2>2. Unwritten(o) /\ o.read # NoPage
    BY <1>3, <1>7 DEF Descending
  <2>3. Holds(o) = {o.read}
    BY <2>2, SetOfEmpty DEF Unwritten, WrittenBy, Holds
  <2>4. lv[o.read] \in Nat
    BY <1>2, <1>7 DEF Tree, Typed
  <2> QED
    BY <1>1, <2>1, <2>3, <2>4 DEF Waiting, GoingDown
<1>8. CASE o.pc = "descend" /\ Descending(node, root, lv, lo, hi, o)
  <2>1. /\ o.read \in Page /\ node[o.read].kind = "internal" /\ Within(lo, hi, o.read, o.entry)
        /\ Wants(t).page = ChosenChild(node, o.read, o.entry)
    BY <1>1, <1>8, WantsAt DEF Descending
  <2> QED
    BY <1>7, <1>8, <2>1
<1>9. CASE o.pc = "leaf" /\ Descending(node, root, lv, lo, hi, o)
  <2>1. Wants(t).page = o.target
    BY <1>1, <1>9, WantsAt
  <2>2. CASE o.read = NoPage /\ o.header = "read" /\ o.target = root
    <3>1. root # NoPage /\ Unwritten(o)
      BY <1>9, <2>2 DEF Descending
    <3>2. root \in Pages(node) /\ Holds(o) = {}
      BY <2>2, <3>1, <1>2, SetOfEmpty DEF Tree, Typed, Unwritten, WrittenBy, Holds
    <3> QED
      BY <1>1, <2>1, <2>2, <3>2 DEF Waiting, Entering
  <2>3. CASE /\ o.read \in Page /\ node[o.read].kind = "internal"
             /\ Within(lo, hi, o.read, o.entry) /\ o.target = ChosenChild(node, o.read, o.entry)
    BY <1>7, <1>9, <2>1, <2>3
  <2> QED
    BY <1>9, <2>2, <2>3 DEF Descending
<1>10. CASE o.pc = "root_w"
  <2>1. AtRootForWrite(root, o) /\ Wants(t).page = o.root
    BY <1>1, <1>2, <1>10, StageOf, WantsAt
  <2>2. o.root = root /\ root # NoPage /\ Unwritten(o) /\ o.read = NoPage
    BY <2>1 DEF AtRootForWrite
  <2>3. root \in Pages(node) /\ Holds(o) = {}
    BY <2>2, <1>2, SetOfEmpty DEF Tree, Typed, Unwritten, WrittenBy, Holds
  <2> QED
    BY <1>1, <2>1, <2>2, <2>3 DEF Waiting, Entering
<1>11. CASE o.pc = "descend_w"
  <2>1. DescendingForWrite(node, root, lv, lo, hi, o)
    BY <1>2, <1>11, StageOf
  <2>2. PICK q, w : q = Last(w) /\ w = o.writes
    OBVIOUS
  <2>3. /\ o.page = NoPage /\ OnPath(node, root, lv, o, w)
        /\ Within(lo, hi, q, o.entry) /\ node[q].kind = "internal"
    BY <1>11, <2>1, <2>2 DEF DescendingForWrite
  <2>4. Path(node, lv, w) /\ q \in ToSet(w) /\ q \in Page /\ o.read = NoPage
    BY <2>2, <2>3, LastAndFront DEF OnPath, Path
  <2>5. Holds(o) = ToSet(w)
    BY <2>2, <2>3, <2>4 DEF Holds, WrittenBy
  <2>6. \A z \in ToSet(w) : lv[q] <= lv[z]
    BY <1>2, <2>2, <2>4, PathLevels
  <2>7. Wants(t).page = ChosenChild(node, q, o.entry)
    BY <1>1, <1>11, <2>2, WantsAt
  <2>8. ChildOf(node, Wants(t).page, q)
    BY <1>2, <2>3, <2>4, <2>7, ChildChosen
  <2> QED
    BY <1>1, <2>4, <2>5, <2>6, <2>8 DEF Waiting, GoingDown
<1>12. CASE o.pc \in {"left", "right", "merge"}
  <2>1. PICK p, w, x : p = Parent(t) /\ w = o.writes /\ x = o.page
    OBVIOUS
  <2>2. /\ o.kind = "remove" /\ o.read = NoPage /\ x \in Page /\ p = Last(w)
        /\ Path(node, lv, w) /\ ChildOf(node, x, p) /\ p \in ToSet(w)
        /\ WrittenBy(o) = ToSet(w) \cup {x}
    <3>1. op[t].pc \in {"left", "right", "merge"} /\ w = op[t].writes /\ x = op[t].page
      BY <1>1, <1>12, <2>1
    <3> QED
      BY ONLY <1>1, <2>1, <3>1, AtSibling, EntriesBounded, t \in Thread,
              Sound(node, root, op, pend, lv, lo, hi)
  <2>3. ChildOf(node, Wants(t).page, p)
    BY <1>1, <1>12, <2>1, WantsSibling
  <2>4. \A z \in ToSet(w) : lv[p] <= lv[z]
    BY <1>2, <2>2, PathLevels
  <2>5. \A z \in Holds(o) : z # x => lv[p] <= lv[z]
    BY <2>2, <2>4 DEF Holds
  <2>6. x \in Pages(node)
    BY <1>2, <2>2, ChildRange
  <2>7. GoingBeside(lv, o, Wants(t).page)
    BY <2>1, <2>2, <2>3, <2>5, <2>6 DEF GoingBeside
  <2> QED
    BY <1>1, <2>7 DEF Waiting
<1>13. CASE o.pc = "shrink"
  <2>1. /\ o.page = root /\ root # NoPage /\ node[root].kind = "internal"
        /\ num_children(node[root]) = 1 /\ o.writes = <<>> /\ o.read = NoPage
    BY <1>2, <1>13, StageOf DEF Shrinking
  <2>2. root \in Page /\ lv[root] \in Nat
    BY <1>2, <2>1 DEF Tree, Typed, Pages
  <2>3. Wants(t).page = node[root].children[1]
    BY <1>1, <1>13, <2>1, WantsAt DEF value_at
  <2>4. ChildOf(node, Wants(t).page, root)
    BY <2>1, <2>2, <2>3 DEF ChildOf, num_children
  <2>5. Holds(o) = {root}
    BY <2>1, SetOfEmpty DEF WrittenBy, Holds
  <2> QED
    BY <1>1, <2>2, <2>4, <2>5 DEF Waiting, GoingDown
<1>14. o.pc \notin {"idle", "return", "at_leaf", "split", "underflow"}
  BY <1>1, WantsAt
<1> QED
  BY <1>2, <1>4, <1>5, <1>6, <1>8, <1>9, <1>10, <1>11, <1>12, <1>13, <1>14
     DEF Stage

\* Who is waited for holds what is waited for.
LEMMA WaitsForHolder ==
  ASSUME EntriesBounded,
         NEW pend, NEW lv, NEW lo, NEW hi, Sound(node, root, op, pend, lv, lo, hi),
         NEW t \in Thread, NEW u \in Thread, WaitsFor(t, u)
  PROVE  /\ Wants(t).mode # "none" /\ Waiting(lv, op[t], Wants(t))
         /\ ~Outside(op[u])
         /\ ~Outside(op[t]) =>
              /\ Wants(t).page \in Pages(node) /\ Wants(t).page \in Holds(op[u])
              /\ Wants(t).mode = "read" => Wants(t).page \in WrittenBy(op[u])
<1>1. PICK w, p, o : w = Wants(t) /\ p = w.page /\ o = op[u]
  OBVIOUS
<1>2. /\ w.mode # "none"
      /\ \/ p \in WrittenBy(o)
         \/ p = Header /\ o.header = "write"
         \/ w.mode = "write" /\ p = o.read
         \/ w.mode = "write" /\ p = Header /\ o.header = "read"
  BY <1>1 DEF WaitsFor, Written, WrittenBy, NoPage
<1>3. Waiting(lv, op[t], w)
  BY <1>1, <1>2, WaitsWhere
<1>4. Tree(node, root, pend, lv, lo, hi)
  BY Now
<1>5. ~Outside(op[t]) => p \in Pages(node)
  <2>1. \A q : ChildOf(node, p, q) => p \in Pages(node)
    BY <1>4, ChildRange
  <2> QED
    BY <1>1, <1>3, <2>1 DEF Waiting, Entering, GoingDown, GoingBeside, GoingAlong
<1>6. p = Header \/ p \in Pages(node)
  <2>1. Outside(op[t]) => Holds(op[t]) = {} /\ WrittenBy(op[t]) = {}
    BY DEF Outside, Holds
  <2>2. Outside(op[t]) => p = Header \/ p \in Pages(node)
    BY <1>1, <1>3, <2>1 DEF Waiting, Entering, GoingDown, GoingBeside, GoingAlong
  <2> QED
    BY <1>5, <2>2
<1>7. Header \notin Pages(node) /\ NoPage \notin Pages(node) /\ Header # NoPage
  BY PageAssumption, NoPageIsNone DEF Pages, Header
<1>8. ~Outside(o)
  <2> SUFFICES ASSUME Outside(o) PROVE FALSE
    OBVIOUS
  <2>1. WrittenBy(o) = {} /\ o.read = NoPage /\ o.header = "none"
    BY DEF Outside, Holds
  <2> QED
    BY <2>1, <1>2, <1>6, <1>7
<1>9. p \in Pages(node) => p \in Holds(o) /\ (w.mode = "read" => p \in WrittenBy(o))
  BY <1>2, <1>7 DEF Holds
<1> QED
  BY <1>1, <1>2, <1>3, <1>5, <1>8, <1>9

\* Who waits for a thread that waits for one that waits wants a page higher up.
LEMMA WaitsForLower ==
  ASSUME EntriesBounded,
         NEW pend, NEW lv, NEW lo, NEW hi, Sound(node, root, op, pend, lv, lo, hi),
         NEW t \in Thread, NEW u \in Thread, NEW v \in Thread, NEW x \in Thread,
         t # u, u # v, WaitsFor(t, u), WaitsFor(u, v), WaitsFor(v, x), ~Outside(op[t])
  PROVE  /\ Wants(t).page \in Pages(node) /\ Wants(u).page \in Pages(node)
         /\ lv[Wants(t).page] \in Nat /\ lv[Wants(u).page] \in Nat
         /\ lv[Wants(u).page] < lv[Wants(t).page]
<1>1. PICK a, b, p, q : a = op[t] /\ b = op[u] /\ p = Wants(t).page /\ q = Wants(u).page
  OBVIOUS
<1>2. /\ p \in Pages(node) /\ p \in Holds(b) /\ Waiting(lv, a, Wants(t))
      /\ q \in Pages(node) /\ q \in Holds(op[v]) /\ Waiting(lv, b, Wants(u))
      /\ Wants(u).mode = "read" => q \in WrittenBy(op[v])
      /\ ~Outside(b) /\ ~Outside(op[v])
  BY <1>1, WaitsForHolder
<1>3. Tree(node, root, pend, lv, lo, hi) /\ Apart(b, a) /\ Apart(op[v], b)
  BY <1>1, Now DEF Sound
<1>4. \A z \in Pages(node) : lv[z] \in Nat
  BY <1>3 DEF Tree, Typed, Pages
<1>5. \A y, z : ChildOf(node, y, z) =>
        z \in Pages(node) /\ lv[y] \in Nat /\ lv[z] \in Nat /\ lv[y] + 1 = lv[z]
  BY <1>3, ChildRange
<1>6. ~Entering(b, q)
  BY <1>2 DEF Entering
<1>7. CASE GoingDown(lv, b, q)
  <2>1. PICK z \in Holds(b) : ChildOf(node, q, z) /\ lv[z] <= lv[p]
    BY <1>2, <1>7 DEF GoingDown
  <2>2. lv[q] \in Nat /\ lv[z] \in Nat /\ lv[p] \in Nat /\ lv[q] + 1 = lv[z]
    BY <1>2, <1>4, <1>5, <2>1
  <2>3. lv[q] < lv[p]
    BY <2>1, <2>2
  <2> QED
    BY <1>1, <1>2, <1>4, <2>3
<1>8. CASE GoingBeside(lv, b, q)
  <2>1. PICK z \in WrittenBy(b) :
          /\ ChildOf(node, q, z) /\ ChildOf(node, b.page, z)
          /\ p # b.page => lv[z] <= lv[p]
    BY <1>2, <1>8 DEF GoingBeside
  <2>2. lv[q] \in Nat /\ lv[z] \in Nat /\ lv[p] \in Nat /\ lv[q] + 1 = lv[z]
    BY <1>2, <1>4, <1>5, <2>1
  <2>3. p # b.page
    <3> SUFFICES ASSUME p = b.page PROVE FALSE
      OBVIOUS
    <3>1. b.kind = "remove" /\ a.kind \notin Lookups
      BY <1>3, <1>8 DEF GoingBeside, Apart
    <3>2. p # root
      BY <1>3, <2>1, TopNoChild
    <3>3. \E y \in Holds(a) : ChildOf(node, p, y)
      <4>1. p # Header
        BY <1>2, PageAssumption DEF Pages, Header
      <4>2. GoingDown(lv, a, p) \/ GoingBeside(lv, a, p)
        BY <1>1, <1>2, <3>1, <3>2, <4>1 DEF Waiting, Entering, GoingAlong
      <4> QED
        BY <4>2 DEF GoingDown, GoingBeside, Holds
    <3>4. PICK y \in Holds(a) : ChildOf(node, p, y)
      BY <3>3
    <3>5. y = z
      BY <1>3, <2>1, <3>4, OneParent
    <3> QED
      BY <1>3, <2>1, <3>4, <3>5 DEF Apart, Holds
  <2>4. lv[q] < lv[p]
    BY <2>1, <2>2, <2>3
  <2> QED
    BY <1>1, <1>2, <1>4, <2>4
<1>9. ~(GoingAlong(lv, b, q) /\ Wants(u).mode = "read")
  <2> SUFFICES ASSUME GoingAlong(lv, b, q), Wants(u).mode = "read" PROVE FALSE
    OBVIOUS
  <2>1. PICK c, r : c = op[v] /\ r = Wants(v).page
    OBVIOUS
  <2>2. q \in WrittenBy(c) /\ q \in Holds(c) /\ lv[q] = 0 /\ b.kind \in Lookups
    BY <1>2, <2>1 DEF GoingAlong
  <2>3. c.kind # "remove"
    BY <1>3, <2>1, <2>2 DEF Apart
  <2>4. Waiting(lv, c, Wants(v)) /\ ~Outside(c)
    BY <1>2, <2>1, WaitsForHolder
  <2>5. ~Entering(c, r) /\ ~GoingBeside(lv, c, r)
    BY <2>2, <2>3 DEF Entering, GoingBeside
  <2>6. ~GoingAlong(lv, c, r)
    BY <2>2, SetOfEmpty DEF GoingAlong, Unwritten, WrittenBy
  <2>7. GoingDown(lv, c, r)
    BY <2>1, <2>4, <2>5, <2>6 DEF Waiting
  <2>8. PICK z \in Holds(c) : ChildOf(node, r, z) /\ lv[z] <= lv[q]
    BY <2>2, <2>7 DEF GoingDown
  <2>9. lv[r] \in Nat /\ lv[z] \in Nat /\ lv[r] + 1 = lv[z]
    BY <1>5, <2>8
  <2> QED
    BY <2>2, <2>8, <2>9
<1> QED
  BY <1>1, <1>2, <1>6, <1>7, <1>8, <1>9 DEF Waiting

\* Of the threads of a set one does not wait for another of them.
LEMMA NobodyWaitsInACircle ==
  ASSUME EntriesBounded, TreeInv
  PROVE  NoLatchCycle
<1> SUFFICES ASSUME NEW S \in SUBSET Thread, S # {},
                    \A t \in S : \E u \in S \ {t} : WaitsFor(t, u)
             PROVE  FALSE
  BY DEF NoLatchCycle
<1>1. PICK pend, lv, lo, hi : Sound(node, root, op, pend, lv, lo, hi)
  BY DEF TreeInv
<1> DEFINE P == {t \in S : ~Outside(op[t])}
           T == {lv[Wants(t).page] : t \in P}
<1>2. \A t \in S : \E u \in P : t # u /\ WaitsFor(t, u)
  BY <1>1, WaitsForHolder
<1>3. \A t \in P : \E u \in P :
        /\ lv[Wants(t).page] \in Nat /\ lv[Wants(u).page] < lv[Wants(t).page]
  <2> SUFFICES ASSUME NEW t \in P
               PROVE  \E u \in P : /\ lv[Wants(t).page] \in Nat
                                   /\ lv[Wants(u).page] < lv[Wants(t).page]
    OBVIOUS
  <2>1. PICK u \in P : t # u /\ WaitsFor(t, u)
    BY <1>2
  <2>2. PICK v \in P : u # v /\ WaitsFor(u, v)
    BY <1>2
  <2>3. PICK x \in P : v # x /\ WaitsFor(v, x)
    BY <1>2
  <2>4. lv[Wants(t).page] \in Nat /\ lv[Wants(u).page] < lv[Wants(t).page]
    BY <1>1, <2>1, <2>2, <2>3, WaitsForLower
  <2> QED
    BY <2>4
<1>4. T \in SUBSET Nat /\ T # {}
  BY <1>2, <1>3
<1>5. PICK m \in T : \A y \in T : m <= y
  BY <1>4, Least
<1>6. PICK t \in P : m = lv[Wants(t).page]
  BY <1>5
<1>7. PICK u \in P : lv[Wants(u).page] < m
  BY <1>3, <1>6
<1>8. lv[Wants(u).page] \in Nat /\ m \in Nat /\ m <= lv[Wants(u).page]
  BY <1>3, <1>4, <1>5
<1> QED
  BY <1>7, <1>8

\* Calls that insert, remove, look up and scan never wait for each other in a
\* circle, as long as no lookup runs beside a remove: each latches downwards, or
\* beside a page whose parent it has latched for writing.
THEOREM NoLatchCycleEver ==
  EntriesBounded /\ NoTombstones /\ LookupsApart /\ TreesSound => (Spec => []NoLatchCycle)
<1> SUFFICES ASSUME EntriesBounded, NoTombstones, LookupsApart, TreesSound
             PROVE  Spec => []NoLatchCycle
  OBVIOUS
<1>1. TreeInv => NoLatchCycle
  BY NobodyWaitsInACircle
<1>2. Spec => []TreeInv
  BY TreeInvariance
<1> QED
  BY <1>1, <1>2, PTL

-----------------------------------------------------------------------------
(* No page is lost.                                                        *)

\* While nobody has a latch for writing every page but the root has a parent.
LEMMA NoHalvesWhenQuiet ==
  ASSUME NEW pend, NEW lv, NEW lo, NEW hi, Sound(node, root, op, pend, lv, lo, hi), Quiet
  PROVE  \A p \in Page : pend[p] = NoPage
<1> SUFFICES ASSUME NEW p \in Page, pend[p] # NoPage PROVE FALSE
  OBVIOUS
<1>1. PICK t \in Thread : op[t].pc = "split"
  BY DEF Sound, HalvesHeld
<1>2. Splitting(node, root, pend, lv, lo, op[t])
  BY <1>1, Now, StageOf
<1>3. PICK w : w = op[t].writes /\ w \in Seq(Page) /\ w # <<>>
  BY <1>2 DEF Splitting, OnPath, Path
<1>4. w[1] \in ToSet(w)
  BY <1>3, LastAndFront
<1>5. w[1] \in Written(t)
  BY <1>3, <1>4 DEF Written
<1> QED
  BY <1>5 DEF Quiet

\* A set that has the root, and with a page its children, has every page.
LEMMA ReachedFromRoot ==
  ASSUME EntriesBounded,
         NEW pend, NEW lv, NEW lo, NEW hi, Tree(node, root, pend, lv, lo, hi),
         \A p \in Page : pend[p] = NoPage,
         NEW S \in SUBSET Page, root \in S,
         \A p \in S, c \in Page : ChildOf(node, c, p) => c \in S
  PROVE  Pages(node) \subseteq S
<1> SUFFICES ASSUME NEW p0 \in Pages(node), p0 \notin S PROVE FALSE
  OBVIOUS
<1> DEFINE U == Pages(node) \ S
           T == {lv[p] : p \in U}
<1>1. root # NoPage
  BY NoPageIsNone
<1>2. \A p \in Pages(node) : p \in Page /\ lv[p] \in Nat /\ lv[p] <= lv[root]
  BY <1>1 DEF Tree, Rooted, Typed, Pages
<1>3. lv[root] \in Nat
  BY DEF Tree, Typed
<1>4. T \in SUBSET (0 .. lv[root]) /\ T # {}
  <2>1. \A p \in U : lv[p] \in 0 .. lv[root]
    BY <1>2, <1>3
  <2> QED
    BY <2>1
<1>5. PICK m \in T : \A y \in T : y <= m
  BY <1>3, <1>4, Greatest
<1>6. PICK p \in U : m = lv[p]
  BY <1>5
<1>7. PICK q \in Page : ChildOf(node, p, q)
  <2>1. p # root /\ p \in Pages(node) /\ p # NoPage
    BY <1>2, NoPageIsNone
  <2> QED
    BY <2>1 DEF Tree, Owned
<1>8. q \in Pages(node) /\ lv[q] = lv[p] + 1 /\ lv[q] \in Nat /\ lv[p] \in Nat
  BY <1>7, ChildRange
<1>9. q \in S
  <2> SUFFICES ASSUME q \notin S PROVE FALSE
    OBVIOUS
  <2>1. lv[q] <= m
    BY <1>5, <1>8
  <2> QED
    BY <2>1, <1>6, <1>8
<1> QED
  BY <1>2, <1>6, <1>7, <1>9

LEMMA NothingLeaked ==
  ASSUME EntriesBounded, TreeInv
  PROVE  NoPageLeaked
<1> SUFFICES ASSUME Quiet PROVE {p \in Page : node[p] # Free} = PagesInTree
  BY DEF NoPageLeaked
<1>1. PICK pend, lv, lo, hi : Sound(node, root, op, pend, lv, lo, hi)
  BY DEF TreeInv
<1>2. Tree(node, root, pend, lv, lo, hi) /\ \A p \in Page : pend[p] = NoPage
  BY <1>1, NoHalvesWhenQuiet DEF Sound
<1>3. {p \in Page : node[p] # Free} = Pages(node)
  <2>1. node \in [Page -> PageRecords]
    BY <1>2 DEF Tree, Typed
  <2>2. \A p \in Page : p \in Pages(node) <=> node[p] # Free
    BY <2>1, Kinds
  <2> QED
    BY <2>2 DEF Pages
<1>4. CASE root = NoPage
  BY <1>2, <1>3, <1>4 DEF PagesInTree, NoPage, Tree, Rooted
<1>5. CASE root # NoPage
  <2> DEFINE Closed(S) ==
        /\ root \in S
        /\ \A p \in S : node[p].kind = "internal" => ToSet(node[p].children) \subseteq S
  <2>1. PagesInTree = {p \in Page : \A S \in SUBSET Page : Closed(S) => p \in S}
    BY <1>5 DEF PagesInTree, NoPage
  <2>2. \A p, c \in Page : node[p].kind = "internal" =>
          (c \in ToSet(node[p].children) <=> ChildOf(node, c, p))
    <3> SUFFICES ASSUME NEW p \in Page, NEW c \in Page, node[p].kind = "internal"
                 PROVE  c \in ToSet(node[p].children) <=> ChildOf(node, c, p)
      OBVIOUS
    <3>1. node[p].children \in Seq(Page)
      BY <1>2, Children
    <3> QED
      BY <3>1, SetOfSeq DEF ChildOf
  <2>3. Closed(Pages(node)) /\ Pages(node) \in SUBSET Page
    <3>1. root \in Pages(node)
      BY <1>2, <1>5 DEF Tree, Typed
    <3>2. ASSUME NEW p \in Pages(node), node[p].kind = "internal"
          PROVE  ToSet(node[p].children) \subseteq Pages(node)
      <4>1. p \in Page /\ node[p].children \in Seq(Page)
        BY <1>2, <3>2, Children DEF Pages
      <4>2. ToSet(node[p].children) \subseteq Page
        BY <4>1, SetOfSeq
      <4>3. \A c \in ToSet(node[p].children) : ChildOf(node, c, p)
        BY <2>2, <3>2, <4>1, <4>2
      <4> QED
        BY <1>2, <4>3, ChildRange
    <3> QED
      BY <3>1, <3>2 DEF Pages
  <2>4. ASSUME NEW S \in SUBSET Page, Closed(S) PROVE Pages(node) \subseteq S
    <3>1. \A p \in S, c \in Page : ChildOf(node, c, p) => c \in S
      BY <2>2, <2>4 DEF ChildOf
    <3>2. root \in S
      BY <2>4
    <3> QED
      BY <1>2, <3>1, <3>2, ReachedFromRoot
  <2> HIDE DEF Closed
  <2> QED
    BY <1>3, <2>1, <2>3, <2>4
<1> QED
  BY <1>4, <1>5

\* What was allocated and not deleted is in the tree, whenever no call is changing
\* it: every half that a split makes is given to a parent or a new root, and every
\* page that a merge or a shrinking root empties is deleted.
THEOREM NoPageLeakedEver ==
  EntriesBounded /\ NoTombstones /\ LookupsApart /\ TreesSound => (Spec => []NoPageLeaked)
<1> SUFFICES ASSUME EntriesBounded, NoTombstones, LookupsApart, TreesSound
             PROVE  Spec => []NoPageLeaked
  OBVIOUS
<1>1. TreeInv => NoPageLeaked
  BY NothingLeaked
<1>2. Spec => []TreeInv
  BY TreeInvariance
<1> QED
  BY <1>1, <1>2, PTL

=============================================================================
