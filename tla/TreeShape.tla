----------------------------- MODULE TreeShape -----------------------------
(***************************************************************************)
(* What the operators of LeafPage and InternalPage compute: the binary     *)
(* searches find the position they are meant to find, whatever the size of *)
(* the page, and the elements picked from a row of indexes are a part of   *)
(* the sequence.  Then what it means that the pages are a tree, and that   *)
(* each change BTree makes to several pages at once leaves them one.       *)
(*                                                                         *)
(* Every page is given a level and a range of entries, from lo up to but   *)
(* not including hi; what a page says about others is then a matter of     *)
(* their levels and ranges only.  A page that has been split and whose     *)
(* other half has no parent yet, pend, stands for both halves above.       *)
(***************************************************************************)
EXTENDS BTree, FiniteSetTheorems, WellFoundedInduction, TLAPS

-----------------------------------------------------------------------------
(* Numbers.                                                                *)

LEMMA Least ==
  ASSUME NEW T \in SUBSET Nat, T # {}
  PROVE  \E x \in T : \A y \in T : x <= y
<1> DEFINE R == OpToRel(<, Nat)
<1>1. IsWellFoundedOn(R, Nat)
  BY NatLessThanWellFounded
<1>2. \A x, y \in Nat : x < y => <<x, y>> \in R
  BY DEF OpToRel
<1> HIDE DEF R
<1>3. PICK x \in T : \A y \in T : ~(<<y, x>> \in R)
  BY <1>1, WFMin
<1>4. \A y \in T : y \in Nat /\ x \in Nat /\ ~(y < x)
  BY <1>2, <1>3
<1> QED
  BY <1>4

LEMMA Greatest ==
  ASSUME NEW n \in Nat, NEW T \in SUBSET (0 .. n), T # {}
  PROVE  \E x \in T : \A y \in T : y <= x
<1> DEFINE U == {n - x : x \in T}
<1>1. U \in SUBSET Nat /\ U # {}
  <2>1. \A x \in T : x \in 0 .. n /\ n - x \in Nat
    OBVIOUS
  <2> QED
    BY <2>1
<1>2. PICK u \in U : \A y \in U : u <= y
  BY <1>1, Least
<1>3. PICK x \in T : u = n - x
  BY <1>2
<1>4. ASSUME NEW y \in T PROVE y <= x
  <2>1. n - x <= n - y
    BY <1>2, <1>3
  <2> QED
    BY <2>1
<1> QED
  BY <1>4

\* A set of slots that has, with a slot, all the slots before it.
LEMMA Prefix ==
  ASSUME NEW n \in Nat, NEW T \in SUBSET (1 .. n),
         \A i \in T : \A j \in 1 .. i : j \in T
  PROVE  \E k \in 0 .. n : T = 1 .. k
<1> DEFINE U == {k \in Nat : k + 1 \notin T}
<1>1. n \in U
  OBVIOUS
<1>2. PICK k \in U : \A y \in U : k <= y
  BY <1>1, Least
<1>3. k \in 0 .. n
  BY <1>1, <1>2
<1>4. ASSUME NEW i \in 1 .. k PROVE i \in T
  <2>1. i - 1 \in Nat /\ ~(k <= i - 1) /\ (i - 1) + 1 = i
    BY <1>3
  <2>2. i - 1 \notin U
    BY <2>1, <1>2
  <2> QED
    BY <2>1, <2>2
<1>5. ASSUME NEW i \in T PROVE i \in 1 .. k
  <2>1. i \in 1 .. n
    OBVIOUS
  <2>2. CASE i > k
    <3>1. k + 1 \in 1 .. i
      BY <2>2, <1>3, <2>1
    <3> QED
      BY <3>1, <1>2
  <2> QED
    BY <2>1, <2>2, <1>3
<1> QED
  BY <1>3, <1>4, <1>5

-----------------------------------------------------------------------------
(* The binary searches.                                                    *)

\* The middle of a range.
LEMMA Middle ==
  ASSUME NEW a \in Nat, NEW b \in Nat, a < b
  PROVE  /\ a + (b - a) \div 2 \in Nat
         /\ a <= a + (b - a) \div 2 /\ a + (b - a) \div 2 < b
         /\ b - a > 1 => a < a + (b - a) \div 2
OBVIOUS

Mid(r) == r[1] + (r[2] - r[1]) \div 2

Larger(a, b) == IF a < b THEN b ELSE a
Smaller(a, b) == IF a < b THEN a ELSE b

\* One round of the search for the last slot to the left.
LastRound(left, f, r) ==
  IF r[2] - r[1] <= 1 THEN r[1]
  ELSE IF Mid(r) \in left THEN f[<<Mid(r), r[2]>>]
  ELSE f[<<r[1], Mid(r)>>]

\* What it finds in a range, if the slots to the left are those up to k.
LastIn(k, r) == Larger(r[1], Smaller(k, r[2] - 1))

LEMMA LastSearched ==
  ASSUME NEW n \in Nat, NEW k \in 0 .. n,
         NEW f, \A r \in (0 .. n) \X (0 .. n) : f[r] = LastRound(1 .. k, f, r)
  PROVE  \A r \in (0 .. n) \X (0 .. n) : r[1] < r[2] => f[r] = LastIn(k, r)
<1> DEFINE R == {r \in (0 .. n) \X (0 .. n) : r[1] < r[2]}
           Bad == {r \in R : f[r] # LastIn(k, r)}
           T == {r[2] - r[1] : r \in Bad}
<1> SUFFICES ASSUME Bad # {} PROVE FALSE
  OBVIOUS
<1>1. \A r \in R : r[1] \in Nat /\ r[2] \in Nat /\ r[2] <= n /\ r[1] < r[2] /\ r = <<r[1], r[2]>>
                   /\ r \in (0 .. n) \X (0 .. n)
  OBVIOUS
<1>2. T \in SUBSET Nat /\ T # {}
  <2>1. \A r \in Bad : r[2] - r[1] \in Nat
    BY <1>1
  <2> HIDE DEF Bad
  <2> QED
    BY <2>1
<1>3. PICK w \in T : \A y \in T : w <= y
  BY <1>2, Least
<1>4. PICK r \in Bad : w = r[2] - r[1]
  BY <1>3
<1> DEFINE a == r[1]
           b == r[2]
           m == Mid(r)
<1>5. a \in Nat /\ b \in Nat /\ b <= n /\ a < b /\ r \in (0 .. n) \X (0 .. n) /\ r = <<a, b>>
  BY <1>1
<1>6. f[r] = LastRound(1 .. k, f, r)
  BY <1>5
<1>7. f[r] = IF b - a <= 1 THEN a ELSE IF m \in 1 .. k THEN f[<<m, b>>] ELSE f[<<a, m>>]
  BY <1>6 DEF LastRound
<1>8. m \in Nat /\ b - a > 1 => a < m /\ m < b
  BY <1>5, Middle DEF Mid
<1>9. m \in Nat
  BY <1>5, Middle DEF Mid
<1>10. LastIn(k, r) = Larger(a, Smaller(k, b - 1))
  BY DEF LastIn
<1>11. ASSUME NEW c \in Nat, NEW d \in Nat, c < d, d <= n, d - c < b - a
       PROVE  f[<<c, d>>] = Larger(c, Smaller(k, d - 1))
  <2>1. <<c, d>> \in R /\ <<c, d>>[1] = c /\ <<c, d>>[2] = d
    BY <1>11
  <2>2. <<c, d>> \notin Bad
    <3> SUFFICES ASSUME <<c, d>> \in Bad PROVE FALSE
      OBVIOUS
    <3>1. d - c \in T
      BY <2>1
    <3>2. w <= d - c
      BY <3>1, <1>3
    <3> QED
      BY <3>2, <1>4, <1>11, <1>5
  <2>3. f[<<c, d>>] = LastIn(k, <<c, d>>)
    BY <2>1, <2>2
  <2> QED
    BY <2>3, <2>1 DEF LastIn
<1>12. f[r] # LastIn(k, r) /\ k \in Nat
  OBVIOUS
<1> HIDE DEF a, b, m, Bad, T, R
<1>13. CASE b - a <= 1
  BY <1>13, <1>7, <1>10, <1>12, <1>5 DEF Larger, Smaller
<1>14. CASE ~(b - a <= 1) /\ m \in 1 .. k
  <2>1. m < b /\ b <= n /\ b - m < b - a
    BY <1>14, <1>8, <1>9, <1>5
  <2>2. f[<<m, b>>] = Larger(m, Smaller(k, b - 1))
    BY <2>1, <1>11, <1>9, <1>5
  <2>3. m <= k /\ a < m
    BY <1>14, <1>8, <1>5, <1>9
  <2> QED
    BY <1>14, <2>1, <2>2, <2>3, <1>7, <1>10, <1>12, <1>5, <1>9 DEF Larger, Smaller
<1>15. CASE ~(b - a <= 1) /\ m \notin 1 .. k
  <2>1. a < m /\ m < b /\ m <= n /\ m - a < b - a
    BY <1>15, <1>8, <1>9, <1>5
  <2>2. f[<<a, m>>] = Larger(a, Smaller(k, m - 1))
    BY <2>1, <1>11, <1>9, <1>5
  <2>3. k < m
    BY <1>15, <2>1, <1>5, <1>9, <1>12
  <2>4. f[r] = f[<<a, m>>]
    BY <1>15, <1>7
  <2>5. Smaller(k, m - 1) = k /\ Smaller(k, b - 1) = k
    BY <2>1, <2>3, <1>5, <1>9, <1>12 DEF Smaller
  <2> QED
    BY <2>4, <2>5, <2>2, <1>10, <1>12
<1> QED
  BY <1>13, <1>14, <1>15

LEMMA LastExists ==
  ASSUME NEW n \in Nat, NEW k \in 0 .. n
  PROVE  \E f : f = [r \in (0 .. n) \X (0 .. n) |-> LastRound(1 .. k, f, r)]
<1> DEFINE D == (0 .. n) \X (0 .. n)
           f == [r \in D |-> IF r[1] < r[2] THEN LastIn(k, r) ELSE r[1]]
<1>1. ASSUME NEW r \in D PROVE f[r] = LastRound(1 .. k, f, r)
  <2> DEFINE a == r[1]
             b == r[2]
             m == Mid(r)
  <2>1. a \in Nat /\ b \in Nat /\ a <= n /\ b <= n /\ r = <<a, b>> /\ k \in Nat
    OBVIOUS
  <2>2. f[r] = IF a < b THEN Larger(a, Smaller(k, b - 1)) ELSE a
    BY DEF LastIn
  <2>3. CASE b - a <= 1
    BY <2>1, <2>2, <2>3 DEF LastRound, Larger, Smaller
  <2>4. CASE ~(b - a <= 1)
    <3>1. m \in Nat /\ a < m /\ m < b
      BY <2>1, <2>4, Middle DEF Mid
    <3>2. <<m, b>> \in D /\ <<a, m>> \in D
      BY <3>1, <2>1
    <3>3. f[<<m, b>>] = Larger(m, Smaller(k, b - 1))
      BY <3>1, <3>2 DEF LastIn
    <3>4. f[<<a, m>>] = Larger(a, Smaller(k, m - 1))
      BY <3>1, <3>2 DEF LastIn
    <3>5. LastRound(1 .. k, f, r) = IF m \in 1 .. k THEN f[<<m, b>>] ELSE f[<<a, m>>]
      BY <2>4 DEF LastRound
    <3> HIDE DEF a, b, m, f, D
    <3>6. CASE m \in 1 .. k
      BY <3>6, <2>1, <2>2, <2>4, <3>1, <3>3, <3>5 DEF Larger, Smaller
    <3>7. CASE m \notin 1 .. k
      BY <3>7, <2>1, <2>2, <2>4, <3>1, <3>4, <3>5 DEF Larger, Smaller
    <3> QED
      BY <3>6, <3>7
  <2> QED
    BY <2>3, <2>4
<1>2. f = [r \in D |-> LastRound(1 .. k, f, r)]
  <2>1. f = [r \in D |-> f[r]]
    OBVIOUS
  <2> HIDE DEF f
  <2> QED
    BY <2>1, <1>1
<1> HIDE DEF f
<1> QED
  BY <1>2

\* The binary search of b_tree_internal_page.rs: if the first k separators are those
\* that are not above what is searched, it ends at child k, for any number of
\* children.
THEOREM LastChildFound ==
  ASSUME NEW nd, Len(nd.children) \in Nat, Len(nd.children) >= 1,
         NEW k \in 0 .. Len(nd.children) - 1
  PROVE  LastChild(nd, 1 .. k) = k
<1> DEFINE n == Len(nd.children)
           D == (0 .. n) \X (0 .. n)
           s == CHOOSE f : f = [r \in D |-> LastRound(1 .. k, f, r)]
<1>1. n \in Nat /\ k \in 0 .. n /\ k <= n - 1 /\ n >= 1
  OBVIOUS
<1>2. LastChild(nd, 1 .. k) = s[<<0, n>>]
  BY DEF LastChild, num_children, LastRound, Mid
<1>3. s = [r \in D |-> LastRound(1 .. k, s, r)]
  BY <1>1, LastExists
<1> HIDE DEF n, s
<1>4. s[<<0, n>>] = LastIn(k, <<0, n>>)
  <2>1. <<0, n>> \in D /\ <<0, n>>[1] < <<0, n>>[2]
    BY <1>1
  <2>2. \A r \in D : s[r] = LastRound(1 .. k, s, r)
    BY <1>3
  <2>3. \A r \in D : r[1] < r[2] => s[r] = LastIn(k, r)
    BY ZenonT(60), <1>1, <2>2, LastSearched
  <2> QED
    BY <2>1, <2>3
<1>5. LastIn(k, <<0, n>>) = Larger(0, Smaller(k, n - 1))
  BY DEF LastIn
<1> QED
  BY <1>1, <1>2, <1>4, <1>5 DEF Larger, Smaller

\* One round of the search for the first index that is not below.
FirstRound(below, f, r) ==
  IF r[1] >= r[2] THEN r[1] + 1
  ELSE IF Mid(r) + 1 \in below THEN f[<<Mid(r) + 1, r[2]>>]
  ELSE f[<<r[1], Mid(r)>>]

\* What it finds in a range, if the indexes below are those up to k.
FirstIn(k, r) == 1 + Larger(r[1], Smaller(k, r[2]))

LEMMA FirstSearched ==
  ASSUME NEW n \in Nat, NEW k \in 0 .. n,
         NEW f, \A r \in (0 .. n) \X (0 .. n) : f[r] = FirstRound(1 .. k, f, r)
  PROVE  \A r \in (0 .. n) \X (0 .. n) : r[1] <= r[2] => f[r] = FirstIn(k, r)
<1> DEFINE R == {r \in (0 .. n) \X (0 .. n) : r[1] <= r[2]}
           Bad == {r \in R : f[r] # FirstIn(k, r)}
           T == {r[2] - r[1] : r \in Bad}
<1> SUFFICES ASSUME Bad # {} PROVE FALSE
  OBVIOUS
<1>1. \A r \in R : r[1] \in Nat /\ r[2] \in Nat /\ r[2] <= n /\ r[1] <= r[2] /\ r = <<r[1], r[2]>>
                   /\ r \in (0 .. n) \X (0 .. n)
  OBVIOUS
<1>2. T \in SUBSET Nat /\ T # {}
  <2>1. \A r \in Bad : r[2] - r[1] \in Nat
    BY <1>1
  <2> HIDE DEF Bad
  <2> QED
    BY <2>1
<1>3. PICK w \in T : \A y \in T : w <= y
  BY <1>2, Least
<1>4. PICK r \in Bad : w = r[2] - r[1]
  BY <1>3
<1> DEFINE a == r[1]
           b == r[2]
           m == Mid(r)
<1>5. a \in Nat /\ b \in Nat /\ b <= n /\ a <= b /\ r \in (0 .. n) \X (0 .. n) /\ r = <<a, b>>
  BY <1>1
<1>6. f[r] = FirstRound(1 .. k, f, r)
  BY <1>5
<1>7. f[r] = IF a >= b THEN a + 1 ELSE IF m + 1 \in 1 .. k THEN f[<<m + 1, b>>] ELSE f[<<a, m>>]
  BY <1>6 DEF FirstRound
<1>8. a < b => m \in Nat /\ a <= m /\ m < b
  BY <1>5, Middle DEF Mid
<1>10. FirstIn(k, r) = 1 + Larger(a, Smaller(k, b))
  BY DEF FirstIn
<1>11. ASSUME NEW c \in Nat, NEW d \in Nat, c <= d, d <= n, d - c < b - a
       PROVE  f[<<c, d>>] = 1 + Larger(c, Smaller(k, d))
  <2>1. <<c, d>> \in R /\ <<c, d>>[1] = c /\ <<c, d>>[2] = d
    BY <1>11
  <2>2. <<c, d>> \notin Bad
    <3> SUFFICES ASSUME <<c, d>> \in Bad PROVE FALSE
      OBVIOUS
    <3>1. d - c \in T
      BY <2>1
    <3>2. w <= d - c
      BY <3>1, <1>3
    <3> QED
      BY <3>2, <1>4, <1>11, <1>5
  <2>3. f[<<c, d>>] = FirstIn(k, <<c, d>>)
    BY <2>1, <2>2
  <2> QED
    BY <2>3, <2>1 DEF FirstIn
<1>12. f[r] # FirstIn(k, r) /\ k \in Nat
  OBVIOUS
<1> HIDE DEF a, b, m, Bad, T, R
<1>13. CASE a >= b
  BY <1>13, <1>7, <1>10, <1>12, <1>5 DEF Larger, Smaller
<1>14. CASE a < b /\ m + 1 \in 1 .. k
  <2>1. m + 1 \in Nat /\ m + 1 <= b /\ b - (m + 1) < b - a /\ m + 1 <= k /\ a <= m
    BY <1>14, <1>8, <1>5, <1>12
  <2>2. f[<<m + 1, b>>] = 1 + Larger(m + 1, Smaller(k, b))
    BY <2>1, <1>11, <1>5
  <2>3. f[r] = f[<<m + 1, b>>]
    BY <1>14, <1>7, <1>5
  <2>4. Larger(m + 1, Smaller(k, b)) = Smaller(k, b) /\ Larger(a, Smaller(k, b)) = Smaller(k, b)
    BY <2>1, <1>5, <1>12, <1>8, <1>14 DEF Larger, Smaller
  <2> QED
    BY <2>2, <2>3, <2>4, <1>10, <1>12
<1>15. CASE a < b /\ m + 1 \notin 1 .. k
  <2>1. m \in Nat /\ a <= m /\ m < b /\ m <= n /\ m - a < b - a /\ k <= m
    BY <1>15, <1>8, <1>5, <1>12
  <2>2. f[<<a, m>>] = 1 + Larger(a, Smaller(k, m))
    BY <2>1, <1>11, <1>5
  <2>3. f[r] = f[<<a, m>>]
    BY <1>15, <1>7, <1>5
  <2>4. Smaller(k, m) = k /\ Smaller(k, b) = k
    BY <2>1, <1>5, <1>12 DEF Smaller
  <2> QED
    BY <2>2, <2>3, <2>4, <1>10, <1>12
<1> QED
  BY <1>13, <1>14, <1>15, <1>5

LEMMA FirstExists ==
  ASSUME NEW n \in Nat, NEW k \in 0 .. n
  PROVE  \E f : f = [r \in (0 .. n) \X (0 .. n) |-> FirstRound(1 .. k, f, r)]
<1> DEFINE D == (0 .. n) \X (0 .. n)
           f == [r \in D |-> IF r[1] < r[2] THEN FirstIn(k, r) ELSE r[1] + 1]
<1>1. ASSUME NEW r \in D PROVE f[r] = FirstRound(1 .. k, f, r)
  <2> DEFINE a == r[1]
             b == r[2]
             m == Mid(r)
  <2>1. a \in Nat /\ b \in Nat /\ a <= n /\ b <= n /\ r = <<a, b>> /\ k \in Nat
    OBVIOUS
  <2>2. f[r] = IF a < b THEN 1 + Larger(a, Smaller(k, b)) ELSE a + 1
    BY DEF FirstIn
  <2>3. CASE a >= b
    BY <2>1, <2>2, <2>3 DEF FirstRound
  <2>4. CASE a < b
    <3>1. m \in Nat /\ a <= m /\ m < b
      BY <2>1, <2>4, Middle DEF Mid
    <3>2. <<m + 1, b>> \in D /\ <<a, m>> \in D
      BY <3>1, <2>1
    <3>3. f[<<m + 1, b>>] = IF m + 1 < b THEN 1 + Larger(m + 1, Smaller(k, b)) ELSE m + 2
      BY <3>1, <3>2 DEF FirstIn
    <3>4. f[<<a, m>>] = IF a < m THEN 1 + Larger(a, Smaller(k, m)) ELSE a + 1
      BY <3>1, <3>2 DEF FirstIn
    <3>5. FirstRound(1 .. k, f, r) = IF m + 1 \in 1 .. k THEN f[<<m + 1, b>>] ELSE f[<<a, m>>]
      BY <2>4, <2>1 DEF FirstRound
    <3> HIDE DEF a, b, m, f, D
    <3>6. CASE m + 1 \in 1 .. k
      BY <3>6, <2>1, <2>2, <2>4, <3>1, <3>3, <3>5 DEF Larger, Smaller
    <3>7. CASE m + 1 \notin 1 .. k
      BY <3>7, <2>1, <2>2, <2>4, <3>1, <3>4, <3>5 DEF Larger, Smaller
    <3> QED
      BY <3>6, <3>7
  <2> QED
    BY <2>3, <2>4, <2>1
<1>2. f = [r \in D |-> FirstRound(1 .. k, f, r)]
  <2>1. f = [r \in D |-> f[r]]
    OBVIOUS
  <2> HIDE DEF f
  <2> QED
    BY <2>1, <1>1
<1> HIDE DEF f
<1> QED
  BY <1>2

\* The binary search of b_tree_leaf_page.rs: if the first k entries are those below
\* what is searched, it ends at the entry after them, for any number of entries.
THEOREM LowerBoundFound ==
  ASSUME NEW leaf, Len(leaf.entries) \in Nat, NEW k \in 0 .. Len(leaf.entries)
  PROVE  lower_bound_by(leaf, 1 .. k) = k + 1
<1> DEFINE n == Len(leaf.entries)
           D == (0 .. n) \X (0 .. n)
           s == CHOOSE f : f = [r \in D |-> FirstRound(1 .. k, f, r)]
<1>1. n \in Nat /\ k \in 0 .. n
  OBVIOUS
<1>2. lower_bound_by(leaf, 1 .. k) = s[<<0, n>>]
  BY DEF lower_bound_by, curr_size, FirstRound, Mid
<1>3. s = [r \in D |-> FirstRound(1 .. k, s, r)]
  BY <1>1, FirstExists
<1> HIDE DEF n, s
<1>4. s[<<0, n>>] = FirstIn(k, <<0, n>>)
  <2>1. <<0, n>> \in D /\ <<0, n>>[1] <= <<0, n>>[2]
    BY <1>1
  <2>2. \A r \in D : s[r] = FirstRound(1 .. k, s, r)
    BY <1>3
  <2>3. \A r \in D : r[1] <= r[2] => s[r] = FirstIn(k, r)
    BY <1>1, <2>2, FirstSearched, SMTT(20)
  <2> QED
    BY <2>1, <2>3
<1>5. FirstIn(k, <<0, n>>) = 1 + Larger(0, Smaller(k, n))
  BY DEF FirstIn
<1> QED
  BY <1>1, <1>2, <1>4, <1>5 DEF Larger, Smaller

-----------------------------------------------------------------------------
(* The elements at a set of indexes.                                       *)

LEMMA NoElements ==
  ASSUME NEW s
  PROVE  ElementsAt(s, {}) = <<>>
<1>1. Cardinality({}) = 0
  BY FS_EmptySet
<1>2. 1 .. 0 = {}
  OBVIOUS
<1> QED
  BY <1>1, <1>2 DEF ElementsAt

LEMMA ElementsOfRow ==
  ASSUME NEW S, NEW s \in Seq(S), NEW n \in 0 .. Len(s), NEW a \in 1 .. n + 1
  PROVE  ElementsAt(s, a .. n) = SubSeq(s, a, n)
<1> DEFINE Span == a .. n
           k == n - a + 1
           Upto(i) == {j \in Span : j <= i}
           At(m) == CHOOSE i \in Span : Cardinality(Upto(i)) = m
<1>1. n \in Nat /\ a \in Nat /\ a >= 1 /\ a <= n + 1 /\ k \in Nat
  OBVIOUS
<1>2. Cardinality(Span) = k
  <2>1. a \in Int /\ n \in Int
    BY <1>1
  <2>2. Cardinality(a .. n) = IF a > n THEN 0 ELSE n - a + 1
    BY <2>1, FS_Interval
  <2> QED
    BY <2>2, <1>1
<1>3. ASSUME NEW i \in Span PROVE Cardinality(Upto(i)) = i - a + 1
  <2>1. Upto(i) = a .. i /\ i \in Int /\ a \in Int /\ a <= i
    BY <1>1
  <2>2. Cardinality(a .. i) = IF a > i THEN 0 ELSE i - a + 1
    BY <2>1, FS_Interval
  <2> HIDE DEF Upto, Span
  <2> QED
    BY <2>1, <2>2
<1>4. ASSUME NEW m \in 1 .. k PROVE At(m) = a + m - 1
  <2> DEFINE g == a + m - 1
  <2>1. g \in Span /\ g - a + 1 = m
    BY <1>1
  <2>2. Cardinality(Upto(g)) = m
    BY <2>1, <1>3
  <2>3. \A i \in Span : Cardinality(Upto(i)) = m => i = g
    <3>1. \A i \in Span : Cardinality(Upto(i)) = i - a + 1
      BY <1>3
    <3>2. \A i \in Span : i - a + 1 = m => i = a + m - 1
      BY <1>1
    <3> HIDE DEF Upto, Span
    <3> QED
      BY <3>1, <3>2
  <2> HIDE DEF g, Upto, Span
  <2>4. At(m) = g
    BY <2>1, <2>2, <2>3
  <2> QED
    BY <2>4 DEF g
<1>5. ElementsAt(s, Span) = [m \in 1 .. k |-> s[At(m)]]
  BY <1>2 DEF ElementsAt
<1>6. SubSeq(s, a, n) = [m \in 1 .. k |-> s[a + m - 1]]
  BY <1>1
<1> HIDE DEF At, k, Span
<1> QED
  BY <1>4, <1>5, <1>6 DEF Span

-----------------------------------------------------------------------------
(* Entries as numbers.                                                     *)

\* Keys and rids are numbers of a fixed width.
EntriesBounded == \E m \in Nat : Entry \subseteq (0 .. m) \X (0 .. m)

Width == CHOOSE m \in Nat : Entry \subseteq (0 .. m) \X (0 .. m)

Rank(e) == e[1] * (Width + 1) + e[2]

Bottom == -1
Ceiling == (Width + 1) * (Width + 1)

LEMMA TimesMonotonic ==
  ASSUME NEW a \in Nat, NEW b \in Nat, NEW c \in Nat, a <= b
  PROVE  a * c <= b * c /\ a * c \in Nat /\ b * c \in Nat
<1> DEFINE d == b - a
<1>1. d \in Nat /\ b = a + d
  OBVIOUS
<1>2. d * c \in Nat /\ a * c \in Nat
  BY <1>1
<1>3. (a + d) * c = a * c + d * c
  BY <1>1
<1> HIDE DEF d
<1> QED
  BY <1>1, <1>2, <1>3

\* Ranks are in the order of the entries.
LEMMA Ranked ==
  ASSUME EntriesBounded
  PROVE  /\ Bottom \in Int /\ Ceiling \in Int /\ Bottom < Ceiling
         /\ \A e \in Entry : Rank(e) \in Int /\ Bottom < Rank(e) /\ Rank(e) < Ceiling
         /\ \A e, f \in Entry : Less(e, f) <=> Rank(e) < Rank(f)
         /\ \A e, f \in Entry : Rank(e) = Rank(f) => e = f
<1> DEFINE n == Width + 1
<1>1. Width \in Nat /\ Entry \subseteq (0 .. Width) \X (0 .. Width)
  BY DEF EntriesBounded, Width
<1>2. n \in Nat /\ \A e \in Entry : e[1] \in Nat /\ e[2] \in Nat /\ e[1] + 1 <= n /\ e[2] < n
                                 /\ e = <<e[1], e[2]>>
  BY <1>1
<1>3. /\ \A e \in Entry : Rank(e) = e[1] * n + e[2]
      /\ Ceiling = n * n /\ Bottom = -1
  BY DEF Rank, Ceiling, Bottom
<1> HIDE DEF n
<1>4. \A a \in Nat : a * n \in Nat /\ (a + 1) * n = a * n + n
  BY <1>2
<1>5. ASSUME NEW e \in Entry PROVE Rank(e) \in Nat /\ Rank(e) < Ceiling
  <2>1. (e[1] + 1) * n <= n * n
    BY <1>2, TimesMonotonic
  <2>2. e[1] * n \in Nat /\ (e[1] + 1) * n = e[1] * n + n
    BY <1>2, <1>4
  <2>3. n * n \in Nat
    BY <1>2
  <2> HIDE DEF n
  <2> QED
    BY <1>2, <1>3, <2>1, <2>2, <2>3
<1>6. ASSUME NEW e \in Entry, NEW f \in Entry, e[1] < f[1] PROVE Rank(e) < Rank(f)
  <2>1. (e[1] + 1) * n <= f[1] * n
    BY <1>2, <1>6, TimesMonotonic, SMTT(60)
  <2>2. e[1] * n \in Nat /\ (e[1] + 1) * n = e[1] * n + n /\ f[1] * n \in Nat
    BY <1>2, <1>4
  <2> QED
    BY <1>2, <1>3, <2>1, <2>2
<1>7. ASSUME NEW e \in Entry, NEW f \in Entry, e[1] = f[1]
      PROVE  Rank(e) < Rank(f) <=> e[2] < f[2]
  BY <1>2, <1>3, <1>4, <1>7
<1>8. ASSUME NEW e \in Entry, NEW f \in Entry PROVE Less(e, f) <=> Rank(e) < Rank(f)
  <2>1. Rank(e) \in Nat /\ Rank(f) \in Nat /\ e[1] \in Nat /\ f[1] \in Nat
    BY <1>2, <1>5
  <2>2. e[1] < f[1] \/ e[1] = f[1] \/ f[1] < e[1]
    BY <2>1
  <2> QED
    BY <1>6, <1>7, <2>1, <2>2 DEF Less
<1>9. ASSUME NEW e \in Entry, NEW f \in Entry, Rank(e) = Rank(f) PROVE e = f
  <2>1. ~(e[1] < f[1]) /\ ~(f[1] < e[1])
    BY <1>5, <1>6, <1>9
  <2>2. e[1] = f[1]
    BY <1>2, <2>1
  <2>3. e[2] = f[2]
    BY <1>2, <1>3, <1>4, <1>9, <2>2
  <2> QED
    BY <1>2, <2>2, <2>3
<1>10. n * n \in Nat
  BY <1>2
<1> QED
  BY <1>3, <1>5, <1>8, <1>9, <1>10

-----------------------------------------------------------------------------
(* Sequences.                                                              *)

LEMMA Joined ==
  ASSUME NEW S, NEW s \in Seq(S), NEW u \in Seq(S)
  PROVE  /\ s \o u \in Seq(S)
         /\ Len(s \o u) = Len(s) + Len(u)
         /\ \A j \in 1 .. Len(s) : (s \o u)[j] = s[j]
         /\ \A j \in Len(s) + 1 .. Len(s) + Len(u) : (s \o u)[j] = u[j - Len(s)]
OBVIOUS

LEMMA Cut ==
  ASSUME NEW S, NEW s \in Seq(S), NEW i \in 1 .. Len(s) + 1, NEW k \in 0 .. Len(s), i <= k + 1
  PROVE  /\ SubSeq(s, i, k) \in Seq(S)
         /\ Len(SubSeq(s, i, k)) = k - i + 1
         /\ \A j \in 1 .. k - i + 1 : SubSeq(s, i, k)[j] = s[j + i - 1]
OBVIOUS

LEMMA Extended ==
  ASSUME NEW S, NEW s \in Seq(S), NEW e \in S
  PROVE  /\ Append(s, e) \in Seq(S) /\ Len(Append(s, e)) = Len(s) + 1
         /\ \A j \in 1 .. Len(s) : Append(s, e)[j] = s[j]
         /\ Append(s, e)[Len(s) + 1] = e
OBVIOUS

LEMMA Inserted ==
  ASSUME NEW S, NEW s \in Seq(S), NEW i \in 1 .. Len(s) + 1, NEW e \in S
  PROVE  /\ InsertAt(s, i, e) \in Seq(S)
         /\ Len(InsertAt(s, i, e)) = Len(s) + 1
         /\ \A j \in 1 .. i - 1 : InsertAt(s, i, e)[j] = s[j]
         /\ InsertAt(s, i, e)[i] = e
         /\ \A j \in i + 1 .. Len(s) + 1 : InsertAt(s, i, e)[j] = s[j - 1]
<1> DEFINE a == SubSeq(s, 1, i - 1)
           c == SubSeq(s, i, Len(s))
           b == Append(a, e)
<1>1. Len(s) \in Nat /\ i \in Nat /\ i >= 1 /\ i <= Len(s) + 1
  OBVIOUS
<1>2. /\ a \in Seq(S) /\ Len(a) = i - 1 /\ \A j \in 1 .. i - 1 : a[j] = s[j]
  <2>1. i - 1 \in 0 .. Len(s) /\ 1 \in 1 .. Len(s) + 1 /\ 1 <= i - 1 + 1
    BY <1>1
  <2>2. \A j \in 1 .. i - 1 - 1 + 1 : a[j] = s[j + 1 - 1]
    BY <2>1, Cut
  <2> QED
    BY <1>1, <2>1, <2>2, Cut
<1>3. /\ c \in Seq(S) /\ Len(c) = Len(s) - i + 1
      /\ \A j \in 1 .. Len(s) - i + 1 : c[j] = s[j + i - 1]
  BY <1>1, Cut
<1>4. InsertAt(s, i, e) = (a \o <<e>>) \o c
  BY DEF InsertAt
<1>5. a \o <<e>> = b
  BY <1>2
<1>6. /\ b \in Seq(S) /\ Len(b) = i /\ b[i] = e
      /\ \A j \in 1 .. i - 1 : b[j] = s[j]
  <2> HIDE DEF a
  <2>1. /\ b \in Seq(S) /\ Len(b) = Len(a) + 1 /\ b[Len(a) + 1] = e
        /\ \A j \in 1 .. Len(a) : b[j] = a[j]
    BY <1>2, Extended
  <2> QED
    BY <1>1, <1>2, <2>1
<1> HIDE DEF a, b, c
<1>7. /\ b \o c \in Seq(S) /\ Len(b \o c) = Len(b) + Len(c)
      /\ \A j \in 1 .. Len(b) : (b \o c)[j] = b[j]
      /\ \A j \in Len(b) + 1 .. Len(b) + Len(c) : (b \o c)[j] = c[j - Len(b)]
  BY <1>3, <1>6, Joined
<1> DEFINE v == b \o c
<1>8. InsertAt(s, i, e) = v
  BY <1>4, <1>5
<1> HIDE DEF v
<1>9. /\ v \in Seq(S) /\ Len(v) = Len(s) + 1 /\ \A j \in 1 .. i : v[j] = b[j]
      /\ \A j \in i + 1 .. Len(s) + 1 : v[j] = c[j - i]
  BY <1>1, <1>3, <1>6, <1>7 DEF v
<1>10. \A j \in i + 1 .. Len(s) + 1 : c[j - i] = s[j - 1]
  <2> SUFFICES ASSUME NEW j \in i + 1 .. Len(s) + 1 PROVE c[j - i] = s[j - 1]
    OBVIOUS
  <2>1. j - i \in 1 .. Len(s) - i + 1 /\ (j - i) + i - 1 = j - 1
    BY <1>1
  <2> QED
    BY <1>3, <2>1
<1> QED
  BY <1>1, <1>6, <1>8, <1>9, <1>10

LEMMA Removed ==
  ASSUME NEW S, NEW s \in Seq(S), NEW i \in 1 .. Len(s)
  PROVE  /\ RemoveAt(s, i) \in Seq(S)
         /\ Len(RemoveAt(s, i)) = Len(s) - 1
         /\ \A j \in 1 .. i - 1 : RemoveAt(s, i)[j] = s[j]
         /\ \A j \in i .. Len(s) - 1 : RemoveAt(s, i)[j] = s[j + 1]
<1> DEFINE a == SubSeq(s, 1, i - 1)
           c == SubSeq(s, i + 1, Len(s))
           v == a \o c
<1>1. Len(s) \in Nat /\ i \in Nat /\ i >= 1 /\ i <= Len(s)
  OBVIOUS
<1>2. /\ a \in Seq(S) /\ Len(a) = i - 1 /\ \A j \in 1 .. i - 1 : a[j] = s[j]
  <2>1. i - 1 \in 0 .. Len(s) /\ 1 \in 1 .. Len(s) + 1 /\ 1 <= i - 1 + 1
    BY <1>1
  <2>2. \A j \in 1 .. i - 1 - 1 + 1 : a[j] = s[j + 1 - 1]
    BY <2>1, Cut
  <2> QED
    BY <1>1, <2>1, <2>2, Cut
<1>3. /\ c \in Seq(S) /\ Len(c) = Len(s) - i
      /\ \A j \in 1 .. Len(s) - i : c[j] = s[j + i]
  <2>1. i + 1 \in 1 .. Len(s) + 1 /\ Len(s) \in 0 .. Len(s) /\ i + 1 <= Len(s) + 1
    BY <1>1
  <2>2. /\ c \in Seq(S) /\ Len(c) = Len(s) - (i + 1) + 1
        /\ \A j \in 1 .. Len(s) - (i + 1) + 1 : c[j] = s[j + (i + 1) - 1]
    BY <2>1, Cut
  <2> QED
    BY <1>1, <2>2
<1>4. RemoveAt(s, i) = v
  BY DEF RemoveAt
<1> HIDE DEF a, c
<1>5. /\ v \in Seq(S) /\ Len(v) = Len(a) + Len(c)
      /\ \A j \in 1 .. Len(a) : v[j] = a[j]
      /\ \A j \in Len(a) + 1 .. Len(a) + Len(c) : v[j] = c[j - Len(a)]
  BY <1>2, <1>3, Joined, ZenonT(60)
<1> HIDE DEF v
<1>6. \A j \in i .. Len(s) - 1 : v[j] = s[j + 1]
  <2> SUFFICES ASSUME NEW j \in i .. Len(s) - 1 PROVE v[j] = s[j + 1]
    OBVIOUS
  <2>1. j \in Len(a) + 1 .. Len(a) + Len(c) /\ j - Len(a) \in 1 .. Len(s) - i
        /\ (j - Len(a)) + i = j + 1
    BY <1>1, <1>2, <1>3
  <2>2. v[j] = c[j - Len(a)]
    BY <1>5, <2>1
  <2> QED
    BY <1>3, <2>1, <2>2
<1> QED
  BY <1>1, <1>2, <1>3, <1>4, <1>5, <1>6

LEMMA SameSequence ==
  ASSUME NEW S, NEW s \in Seq(S), NEW u \in Seq(S), Len(s) = Len(u),
         \A i \in 1 .. Len(s) : s[i] = u[i]
  PROVE  s = u
OBVIOUS

LEMMA PageInserted ==
  ASSUME NEW s \in Seq(Page), NEW i \in 1 .. Len(s) + 1, NEW e \in Page
  PROVE  /\ InsertAt(s, i, e) \in Seq(Page)
         /\ Len(InsertAt(s, i, e)) = Len(s) + 1
         /\ \A j \in 1 .. i - 1 : InsertAt(s, i, e)[j] = s[j]
         /\ InsertAt(s, i, e)[i] = e
         /\ \A j \in i + 1 .. Len(s) + 1 : InsertAt(s, i, e)[j] = s[j - 1]
BY Inserted

LEMMA EntryInserted ==
  ASSUME NEW s \in Seq(Entry), NEW i \in 1 .. Len(s) + 1, NEW e \in Entry
  PROVE  /\ InsertAt(s, i, e) \in Seq(Entry)
         /\ Len(InsertAt(s, i, e)) = Len(s) + 1
         /\ \A j \in 1 .. i - 1 : InsertAt(s, i, e)[j] = s[j]
         /\ InsertAt(s, i, e)[i] = e
         /\ \A j \in i + 1 .. Len(s) + 1 : InsertAt(s, i, e)[j] = s[j - 1]
BY Inserted

LEMMA PageRemoved ==
  ASSUME NEW s \in Seq(Page), NEW i \in 1 .. Len(s)
  PROVE  /\ RemoveAt(s, i) \in Seq(Page)
         /\ Len(RemoveAt(s, i)) = Len(s) - 1
         /\ \A j \in 1 .. i - 1 : RemoveAt(s, i)[j] = s[j]
         /\ \A j \in i .. Len(s) - 1 : RemoveAt(s, i)[j] = s[j + 1]
BY Removed

LEMMA EntryRemoved ==
  ASSUME NEW s \in Seq(Entry), NEW i \in 1 .. Len(s)
  PROVE  /\ RemoveAt(s, i) \in Seq(Entry)
         /\ Len(RemoveAt(s, i)) = Len(s) - 1
         /\ \A j \in 1 .. i - 1 : RemoveAt(s, i)[j] = s[j]
         /\ \A j \in i .. Len(s) - 1 : RemoveAt(s, i)[j] = s[j + 1]
BY Removed

-----------------------------------------------------------------------------
(* The children of a page.                                                 *)

\* Where child i begins and ends, of a page from a to b with separators w.
From(w, a, i) == IF i = 1 THEN a ELSE Rank(w[i - 1])
To(w, b, i) == IF i = Len(w) + 1 THEN b ELSE Rank(w[i])

\* The pages u exist, are one level below h, and share out the range from a to b.
Row(u, w, a, b, h, ex, lv, lo, end) ==
  /\ u \in Seq(Page) /\ w \in Seq(Entry) /\ Len(u) = Len(w) + 1
  /\ a < b
  /\ \A i \in 1 .. Len(w) : a < Rank(w[i]) /\ Rank(w[i]) < b
  /\ \A i, j \in 1 .. Len(w) : i < j => Rank(w[i]) < Rank(w[j])
  /\ \A i \in 1 .. Len(u) :
       /\ u[i] \in ex /\ lv[u[i]] + 1 = h
       /\ lo[u[i]] = From(w, a, i) /\ end[u[i]] = To(w, b, i)

\* The children come one after the other, within the range.
LEMMA RowOrder ==
  ASSUME EntriesBounded, NEW u, NEW w, NEW a \in Int, NEW b \in Int, NEW h, NEW ex,
         NEW lv, NEW lo, NEW end, Row(u, w, a, b, h, ex, lv, lo, end)
  PROVE  /\ Len(w) \in Nat /\ Len(u) = Len(w) + 1
         /\ \A i \in 1 .. Len(u) :
              /\ u[i] \in Page /\ lo[u[i]] \in Int /\ end[u[i]] \in Int
              /\ a <= lo[u[i]] /\ lo[u[i]] < end[u[i]] /\ end[u[i]] <= b
         /\ \A i, j \in 1 .. Len(u) : i < j => end[u[i]] <= lo[u[j]]
         /\ \A i, j \in 1 .. Len(u) : u[i] = u[j] => i = j
<1>1. /\ Len(w) \in Nat /\ Len(u) = Len(w) + 1
      /\ \A i \in 1 .. Len(u) : u[i] \in Page
  BY DEF Row
<1>2. /\ \A i \in 1 .. Len(w) : Rank(w[i]) \in Int /\ a < Rank(w[i]) /\ Rank(w[i]) < b
      /\ \A i, j \in 1 .. Len(w) : i < j => Rank(w[i]) < Rank(w[j])
      /\ a < b
  <2>1. \A i \in 1 .. Len(w) : w[i] \in Entry
    BY DEF Row
  <2> QED
    BY <2>1, Ranked DEF Row
<1>3. \A i \in 1 .. Len(u) : lo[u[i]] = From(w, a, i) /\ end[u[i]] = To(w, b, i)
  BY DEF Row
<1>4. ASSUME NEW i \in 1 .. Len(u)
      PROVE  /\ From(w, a, i) \in Int /\ To(w, b, i) \in Int
             /\ a <= From(w, a, i) /\ From(w, a, i) < To(w, b, i) /\ To(w, b, i) <= b
  <2>1. i = 1 \/ (i - 1 \in 1 .. Len(w) /\ i - 1 < i)
    BY <1>1
  <2>2. i = Len(w) + 1 \/ i \in 1 .. Len(w)
    BY <1>1
  <2> QED
    BY <1>1, <1>2, <2>1, <2>2 DEF From, To
<1>5. ASSUME NEW i \in 1 .. Len(u), NEW j \in 1 .. Len(u), i < j
      PROVE  To(w, b, i) <= From(w, a, j)
  <2>1. i \in 1 .. Len(w) /\ j - 1 \in 1 .. Len(w) /\ (i = j - 1 \/ i < j - 1)
    BY <1>1, <1>5
  <2>2. Rank(w[i]) <= Rank(w[j - 1])
    BY <1>2, <2>1, SMTT(60)
  <2> QED
    BY <1>1, <1>5, <2>1, <2>2 DEF From, To
<1>6. ASSUME NEW i \in 1 .. Len(u), NEW j \in 1 .. Len(u), u[i] = u[j] PROVE i = j
  <2>1. ~(i < j) /\ ~(j < i)
    BY <1>3, <1>4, <1>5, <1>6
  <2> QED
    BY <2>1
<1> QED
  BY <1>1, <1>3, <1>4, <1>5, <1>6

LEMMA RowSame ==
  ASSUME NEW u, NEW w, NEW a, NEW b, NEW h, NEW ex, NEW lv, NEW lo, NEW end,
         Row(u, w, a, b, h, ex, lv, lo, end),
         NEW ex2, NEW lv2, NEW lo2, NEW end2,
         \A i \in 1 .. Len(u) :
           /\ u[i] \in ex2 /\ lv2[u[i]] = lv[u[i]]
           /\ lo2[u[i]] = lo[u[i]] /\ end2[u[i]] = end[u[i]]
  PROVE  Row(u, w, a, b, h, ex2, lv2, lo2, end2)
BY DEF Row

\* Two pages side by side, as one.
LEMMA RowJoined ==
  ASSUME EntriesBounded, NEW a \in Int, NEW x \in Int, NEW b \in Int,
         NEW h, NEW ex, NEW lv, NEW lo, NEW end, NEW u1, NEW w1, NEW u2, NEW w2,
         Row(u1, w1, a, x, h, ex, lv, lo, end), Row(u2, w2, x, b, h, ex, lv, lo, end),
         NEW s \in Entry, Rank(s) = x
  PROVE  Row(u1 \o u2, Append(w1, s) \o w2, a, b, h, ex, lv, lo, end)
<1> DEFINE v == Append(w1, s)
           u == u1 \o u2
           w == v \o w2
           m == Len(w1)
           n == Len(w2)
<1>1. /\ u1 \in Seq(Page) /\ u2 \in Seq(Page) /\ w1 \in Seq(Entry) /\ w2 \in Seq(Entry)
      /\ m \in Nat /\ n \in Nat /\ Len(u1) = m + 1 /\ Len(u2) = n + 1
  BY DEF Row
<1>2. /\ v \in Seq(Entry) /\ Len(v) = m + 1 /\ v[m + 1] = s
      /\ \A j \in 1 .. m : v[j] = w1[j]
  BY <1>1, Extended
<1>3. /\ u \in Seq(Page) /\ Len(u) = m + n + 2
      /\ \A j \in 1 .. m + 1 : u[j] = u1[j]
      /\ \A j \in m + 2 .. m + n + 2 : u[j] = u2[j - (m + 1)]
  <2>1. /\ u \in Seq(Page) /\ Len(u) = Len(u1) + Len(u2)
        /\ \A j \in 1 .. Len(u1) : u[j] = u1[j]
        /\ \A j \in Len(u1) + 1 .. Len(u1) + Len(u2) : u[j] = u2[j - Len(u1)]
    BY <1>1, Joined
  <2> HIDE DEF u, m, n
  <2> QED
    BY <1>1, <2>1
<1>4. /\ w \in Seq(Entry) /\ Len(w) = m + n + 1
      /\ \A j \in 1 .. m : w[j] = w1[j]
      /\ w[m + 1] = s
      /\ \A j \in m + 2 .. m + n + 1 : w[j] = w2[j - (m + 1)]
  <2> HIDE DEF v
  <2>1. /\ w \in Seq(Entry) /\ Len(w) = Len(v) + Len(w2)
        /\ \A j \in 1 .. Len(v) : w[j] = v[j]
        /\ \A j \in Len(v) + 1 .. Len(v) + Len(w2) : w[j] = w2[j - Len(v)]
    BY <1>1, <1>2, Joined
  <2> HIDE DEF w, m, n
  <2>2. Len(w) = m + n + 1 /\ 1 .. Len(v) = 1 .. m + 1
        /\ Len(v) + 1 .. Len(v) + Len(w2) = m + 2 .. m + n + 1
    <3>1. Len(v) = m + 1 /\ Len(w2) = n
      BY <1>2 DEF n
    <3> QED
      BY <1>1, <2>1, <3>1
  <2>3. \A j \in 1 .. m : j \in 1 .. m + 1
    BY <1>1
  <2>4. m + 1 \in 1 .. m + 1
    BY <1>1
  <2>5. \A j \in m + 2 .. m + n + 1 : w[j] = w2[j - (m + 1)]
    BY <1>2, <2>1, <2>2
  <2>6. \A j \in 1 .. m : w[j] = w1[j]
    BY <1>2, <2>1, <2>2, <2>3
  <2>7. w[m + 1] = s
    BY <1>2, <2>1, <2>2, <2>4
  <2> QED
    BY <2>1, <2>2, <2>5, <2>6, <2>7
<1>5. /\ \A i \in 1 .. m : Rank(w1[i]) \in Int /\ a < Rank(w1[i]) /\ Rank(w1[i]) < x
      /\ \A i \in 1 .. n : Rank(w2[i]) \in Int /\ x < Rank(w2[i]) /\ Rank(w2[i]) < b
      /\ \A i, j \in 1 .. m : i < j => Rank(w1[i]) < Rank(w1[j])
      /\ \A i, j \in 1 .. n : i < j => Rank(w2[i]) < Rank(w2[j])
      /\ a < x /\ x < b
  <2>1. \A i \in 1 .. m : w1[i] \in Entry
    BY <1>1
  <2>2. \A i \in 1 .. n : w2[i] \in Entry
    BY <1>1
  <2> QED
    BY <2>1, <2>2, Ranked DEF Row
<1>6. /\ \A i \in 1 .. m + 1 :
           /\ u1[i] \in ex /\ lv[u1[i]] + 1 = h
           /\ lo[u1[i]] = From(w1, a, i) /\ end[u1[i]] = To(w1, x, i)
      /\ \A i \in 1 .. n + 1 :
           /\ u2[i] \in ex /\ lv[u2[i]] + 1 = h
           /\ lo[u2[i]] = From(w2, x, i) /\ end[u2[i]] = To(w2, b, i)
  BY <1>1 DEF Row
<1> HIDE DEF u, v, w, m, n
<1>7. \A i \in 1 .. m + n + 1 : i \in 1 .. m \/ i = m + 1
                               \/ (i \in m + 2 .. m + n + 1 /\ i - (m + 1) \in 1 .. n)
  BY <1>1
<1>8. \A i \in 1 .. m + n + 1 :
        /\ a < Rank(w[i]) /\ Rank(w[i]) < b /\ Rank(w[i]) \in Int
        /\ i <= m => Rank(w[i]) < x
        /\ m + 1 < i => x < Rank(w[i])
  <2> SUFFICES ASSUME NEW i \in 1 .. m + n + 1
               PROVE  /\ a < Rank(w[i]) /\ Rank(w[i]) < b /\ Rank(w[i]) \in Int
                      /\ i <= m => Rank(w[i]) < x
                      /\ m + 1 < i => x < Rank(w[i])
    OBVIOUS
  <2>1. CASE i \in 1 .. m
    <3>1. w[i] = w1[i] /\ i <= m /\ ~(m + 1 < i)
      BY <1>1, <1>4, <2>1
    <3>2. Rank(w1[i]) \in Int /\ a < Rank(w1[i]) /\ Rank(w1[i]) < x /\ x < b
      BY <1>5, <2>1
    <3> QED
      BY <3>1, <3>2
  <2>2. CASE i = m + 1
    <3>1. w[i] = s /\ ~(i <= m) /\ ~(m + 1 < i)
      BY <1>1, <1>4, <2>2
    <3> QED
      BY <3>1, <1>5
  <2>3. CASE i \in m + 2 .. m + n + 1 /\ i - (m + 1) \in 1 .. n
    <3>1. PICK j : j = i - (m + 1)
      OBVIOUS
    <3>2. j \in 1 .. n /\ w[i] = w2[j] /\ ~(i <= m)
      BY <1>1, <1>4, <2>3, <3>1
    <3>3. Rank(w2[j]) \in Int /\ x < Rank(w2[j]) /\ Rank(w2[j]) < b /\ a < x
      BY <1>5, <3>2
    <3> QED
      BY <3>2, <3>3
  <2> QED
    BY <1>7, <2>1, <2>2, <2>3
<1>9. ASSUME NEW i \in 1 .. m + n + 1, NEW j \in 1 .. m + n + 1, i < j
      PROVE  Rank(w[i]) < Rank(w[j])
  <2>1. CASE j \in 1 .. m
    <3>1. i \in 1 .. m
      BY <1>1, <1>9, <2>1
    <3> QED
      BY <1>4, <1>5, <1>9, <2>1, <3>1
  <2>2. CASE j = m + 1
    BY <1>1, <1>4, <1>8, <1>9, <2>2
  <2>3. CASE j \in m + 2 .. m + n + 1
    <3>1. CASE i <= m + 1
      <4>1. Rank(w[i]) <= x
        <5>1. CASE i <= m
          BY <1>8, <5>1
        <5>2. CASE i = m + 1
          BY <1>4, <5>2
        <5> QED
          BY <1>1, <3>1, <5>1, <5>2
      <4> QED
        BY <1>1, <1>8, <2>3, <4>1, <1>5
    <3>2. CASE m + 1 < i
      <4>1. /\ i \in m + 2 .. m + n + 1 /\ i - (m + 1) \in 1 .. n /\ j - (m + 1) \in 1 .. n
            /\ i - (m + 1) < j - (m + 1)
        BY <1>1, <1>9, <2>3, <3>2
      <4> QED
        BY <1>4, <1>5, <2>3, <4>1
    <3> QED
      BY <1>1, <3>1, <3>2
  <2> QED
    BY <1>7, <2>1, <2>2, <2>3
<1>10. ASSUME NEW i \in 1 .. m + n + 2
       PROVE  /\ u[i] \in ex /\ lv[u[i]] + 1 = h
              /\ lo[u[i]] = From(w, a, i) /\ end[u[i]] = To(w, b, i)
  <2>1. CASE i \in 1 .. m + 1
    <3>1. u[i] = u1[i]
      BY <1>3, <2>1
    <3>2. From(w1, a, i) = From(w, a, i)
      <4>1. i = 1 \/ (i # 1 /\ i - 1 \in 1 .. m)
        BY <1>1, <2>1
      <4> QED
        BY <1>4, <4>1 DEF From
    <3>3. To(w1, x, i) = To(w, b, i)
      <4>1. i = m + 1 \/ (i # m + 1 /\ i \in 1 .. m)
        BY <1>1, <2>1
      <4>2. i # m + n + 2
        BY <1>1, <2>1
      <4> QED
        BY <1>1, <1>4, <4>1, <4>2 DEF To, m
    <3> QED
      BY <1>6, <2>1, <3>1, <3>2, <3>3
  <2>2. CASE i \in m + 2 .. m + n + 2
    <3> DEFINE k == i - (m + 1)
    <3>1. k \in 1 .. n + 1 /\ i = k + m + 1
      BY <1>1, <2>2
    <3>2. u[i] = u2[k]
      BY <1>3, <2>2
    <3> HIDE DEF k
    <3>3. From(w2, x, k) = From(w, a, i)
      <4>1. k = 1 \/ (k # 1 /\ k - 1 \in 1 .. n)
        BY <1>1, <3>1
      <4>2. CASE k = 1
        BY <1>1, <1>4, <3>1, <4>2 DEF From
      <4>3. CASE k # 1 /\ k - 1 \in 1 .. n
        <5>1. i - 1 \in m + 2 .. m + n + 1 /\ (i - 1) - (m + 1) = k - 1 /\ i # 1
          BY <1>1, <3>1, <4>3
        <5> QED
          BY <1>4, <4>3, <5>1 DEF From
      <4> QED
        BY <4>1, <4>2, <4>3
    <3>4. To(w2, b, k) = To(w, b, i)
      <4>1. CASE k = n + 1
        BY <1>1, <1>4, <3>1, <4>1 DEF To, n
      <4>2. CASE k \in 1 .. n
        <5>1. i \in m + 2 .. m + n + 1 /\ i - (m + 1) = k /\ i # m + n + 2 /\ k # n + 1
          BY <1>1, <3>1, <4>2
        <5> QED
          BY <1>1, <1>4, <5>1 DEF To, n
      <4> QED
        BY <1>1, <3>1, <4>1, <4>2
    <3> QED
      BY <1>6, <3>1, <3>2, <3>3, <3>4
  <2> QED
    BY <1>1, <2>1, <2>2
<1>11. /\ u \in Seq(Page) /\ w \in Seq(Entry) /\ Len(u) = Len(w) + 1 /\ a < b
       /\ 1 .. Len(w) = 1 .. m + n + 1 /\ 1 .. Len(u) = 1 .. m + n + 2
  BY <1>1, <1>3, <1>4, <1>5
<1>12. Row(u, w, a, b, h, ex, lv, lo, end)
  BY <1>8, <1>9, <1>10, <1>11 DEF Row
<1> QED
  BY <1>12 DEF u, v, w

\* A page cut in two after its first k children.
LEMMA RowCut ==
  ASSUME EntriesBounded, NEW a \in Int, NEW b \in Int,
         NEW h, NEW ex, NEW lv, NEW lo, NEW end, NEW u, NEW w,
         Row(u, w, a, b, h, ex, lv, lo, end), NEW k \in 1 .. Len(w)
  PROVE  /\ Row(SubSeq(u, 1, k), SubSeq(w, 1, k - 1), a, Rank(w[k]), h, ex, lv, lo, end)
         /\ Row(SubSeq(u, k + 1, Len(u)), SubSeq(w, k + 1, Len(w)), Rank(w[k]), b,
                h, ex, lv, lo, end)
         /\ w[k] \in Entry /\ a < Rank(w[k]) /\ Rank(w[k]) < b
<1> DEFINE n == Len(w)
           x == Rank(w[k])
           u1 == SubSeq(u, 1, k)
           w1 == SubSeq(w, 1, k - 1)
           u2 == SubSeq(u, k + 1, Len(u))
           w2 == SubSeq(w, k + 1, n)
<1>1. /\ u \in Seq(Page) /\ w \in Seq(Entry) /\ n \in Nat /\ Len(u) = n + 1
      /\ k \in 1 .. n /\ w[k] \in Entry
  BY DEF Row
<1>2. /\ \A i \in 1 .. n : Rank(w[i]) \in Int /\ a < Rank(w[i]) /\ Rank(w[i]) < b
      /\ \A i, j \in 1 .. n : i < j => Rank(w[i]) < Rank(w[j])
  <2>1. \A i \in 1 .. n : w[i] \in Entry
    BY <1>1
  <2> QED
    BY <2>1, Ranked DEF Row
<1>3. \A i \in 1 .. n + 1 :
        /\ u[i] \in ex /\ lv[u[i]] + 1 = h
        /\ lo[u[i]] = From(w, a, i) /\ end[u[i]] = To(w, b, i)
  BY <1>1 DEF Row
<1>4. u1 \in Seq(Page) /\ Len(u1) = k /\ \A j \in 1 .. k : u1[j] = u[j]
  <2>1. 1 \in 1 .. Len(u) + 1 /\ k \in 0 .. Len(u) /\ 1 <= k + 1 /\ k - 1 + 1 = k
    BY <1>1
  <2> HIDE DEF n
  <2>2. \A j \in 1 .. k - 1 + 1 : u1[j] = u[j + 1 - 1]
    BY <1>1, <2>1, Cut
  <2>3. u1 \in Seq(Page) /\ Len(u1) = k - 1 + 1
    BY <1>1, <2>1, Cut
  <2> QED
    BY <1>1, <2>2, <2>3
<1>5. w1 \in Seq(Entry) /\ Len(w1) = k - 1 /\ \A j \in 1 .. k - 1 : w1[j] = w[j]
  <2>1. 1 \in 1 .. Len(w) + 1 /\ k - 1 \in 0 .. Len(w) /\ 1 <= k - 1 + 1 /\ k - 1 - 1 + 1 = k - 1
    BY <1>1
  <2> HIDE DEF n
  <2>2. \A j \in 1 .. k - 1 - 1 + 1 : w1[j] = w[j + 1 - 1]
    BY <1>1, <2>1, Cut
  <2>3. w1 \in Seq(Entry) /\ Len(w1) = k - 1 - 1 + 1
    BY <1>1, <2>1, Cut
  <2> QED
    BY <1>1, <2>2, <2>3
<1>6. /\ u2 \in Seq(Page) /\ Len(u2) = n + 1 - k
      /\ \A j \in 1 .. n + 1 - k : u2[j] = u[j + k]
  <2>1. /\ k + 1 \in 1 .. Len(u) + 1 /\ Len(u) \in 0 .. Len(u) /\ k + 1 <= Len(u) + 1
        /\ Len(u) - (k + 1) + 1 = n + 1 - k
    BY <1>1
  <2> HIDE DEF n
  <2>2. \A j \in 1 .. Len(u) - (k + 1) + 1 : u2[j] = u[j + (k + 1) - 1]
    BY <1>1, <2>1, Cut
  <2>3. u2 \in Seq(Page) /\ Len(u2) = Len(u) - (k + 1) + 1
    BY <1>1, <2>1, Cut
  <2> HIDE DEF u2
  <2>4. ASSUME NEW j \in 1 .. n + 1 - k PROVE u2[j] = u[j + k]
    <3>1. j + (k + 1) - 1 = j + k
      BY <1>1
    <3> QED
      BY <2>1, <2>2, <3>1
  <2> QED
    BY <2>1, <2>3, <2>4
<1>7. /\ w2 \in Seq(Entry) /\ Len(w2) = n - k
      /\ \A j \in 1 .. n - k : w2[j] = w[j + k]
  <2>1. /\ k + 1 \in 1 .. Len(w) + 1 /\ Len(w) \in 0 .. Len(w) /\ k + 1 <= Len(w) + 1
        /\ Len(w) - (k + 1) + 1 = n - k
    BY <1>1
  <2>2. \A j \in 1 .. Len(w) - (k + 1) + 1 : w2[j] = w[j + (k + 1) - 1]
    BY <1>1, <2>1, Cut
  <2>3. w2 \in Seq(Entry) /\ Len(w2) = Len(w) - (k + 1) + 1
    BY <1>1, <2>1, Cut
  <2> HIDE DEF w2
  <2>4. ASSUME NEW j \in 1 .. n - k PROVE w2[j] = w[j + k]
    <3>1. j + (k + 1) - 1 = j + k
      BY <1>1
    <3> QED
      BY <2>1, <2>2, <3>1
  <2> QED
    BY <2>1, <2>3, <2>4
<1> HIDE DEF n, u1, w1, u2, w2
<1>8. x \in Int /\ a < x /\ x < b
  BY <1>1, <1>2
<1>9. /\ \A i \in 1 .. k - 1 : i \in 1 .. n /\ i < k
      /\ \A i \in 1 .. n - k : i + k \in 1 .. n /\ k < i + k
      /\ \A i \in 1 .. k : i \in 1 .. n + 1
      /\ \A i \in 1 .. n + 1 - k : i + k \in 1 .. n + 1
  BY <1>1
<1>10. Row(u1, w1, a, x, h, ex, lv, lo, end)
  <2>1. /\ Len(u1) = Len(w1) + 1 /\ 1 .. Len(u1) = 1 .. k /\ 1 .. Len(w1) = 1 .. k - 1
        /\ Len(w1) + 1 = k
    BY <1>1, <1>4, <1>5
  <2>2. \A i \in 1 .. k - 1 : a < Rank(w1[i]) /\ Rank(w1[i]) < x
    BY <1>1, <1>2, <1>5, <1>9
  <2>3. \A i, j \in 1 .. k - 1 : i < j => Rank(w1[i]) < Rank(w1[j])
    BY <1>2, <1>5, <1>9
  <2>4. ASSUME NEW i \in 1 .. k
        PROVE  /\ u1[i] \in ex /\ lv[u1[i]] + 1 = h
               /\ lo[u1[i]] = From(w1, a, i) /\ end[u1[i]] = To(w1, x, i)
    <3>1. u1[i] = u[i] /\ i \in 1 .. n + 1
      BY <1>4, <1>9
    <3>2. From(w1, a, i) = From(w, a, i)
      <4>1. i = 1 \/ i - 1 \in 1 .. k - 1
        BY <1>1
      <4> QED
        BY <1>5, <4>1 DEF From
    <3>3. To(w1, x, i) = To(w, b, i)
      <4>1. i # n + 1 /\ (i = k \/ (i # k /\ i \in 1 .. k - 1))
        BY <1>1
      <4> QED
        BY <1>5, <2>1, <4>1 DEF To, n
    <3> QED
      BY <1>3, <3>1, <3>2, <3>3
  <2> QED
    BY <1>4, <1>5, <1>8, <2>1, <2>2, <2>3, <2>4 DEF Row
<1>11. Row(u2, w2, x, b, h, ex, lv, lo, end)
  <2>1. /\ Len(u2) = Len(w2) + 1 /\ 1 .. Len(u2) = 1 .. n + 1 - k
        /\ 1 .. Len(w2) = 1 .. n - k /\ Len(w2) + 1 = n + 1 - k
    BY <1>1, <1>6, <1>7
  <2>2. \A i \in 1 .. n - k : x < Rank(w2[i]) /\ Rank(w2[i]) < b
    BY <1>1, <1>2, <1>7, <1>9
  <2>3. ASSUME NEW i \in 1 .. n - k, NEW j \in 1 .. n - k, i < j
        PROVE  Rank(w2[i]) < Rank(w2[j])
    <3>1. i + k \in 1 .. n /\ j + k \in 1 .. n /\ i + k < j + k
      BY <1>1, <1>9, <2>3
    <3> QED
      BY <1>2, <1>7, <3>1
  <2>4. ASSUME NEW i \in 1 .. n + 1 - k
        PROVE  /\ u2[i] \in ex /\ lv[u2[i]] + 1 = h
               /\ lo[u2[i]] = From(w2, x, i) /\ end[u2[i]] = To(w2, b, i)
    <3>1. u2[i] = u[i + k] /\ i + k \in 1 .. n + 1
      BY <1>6, <1>9
    <3>2. From(w2, x, i) = From(w, a, i + k)
      <4>1. CASE i = 1
        <5>1. i + k # 1 /\ (i + k) - 1 = k
          BY <1>1, <4>1
        <5> QED
          BY <4>1, <5>1 DEF From
      <4>2. CASE i # 1
        <5>1. i + k # 1 /\ i - 1 \in 1 .. n - k /\ (i + k) - 1 = (i - 1) + k
          BY <1>1, <4>2
        <5> QED
          BY <1>7, <4>2, <5>1 DEF From
      <4> QED
        BY <4>1, <4>2
    <3>3. To(w2, b, i) = To(w, b, i + k)
      <4>1. i = n + 1 - k <=> i + k = n + 1
        BY <1>1
      <4>2. i # n + 1 - k => i \in 1 .. n - k
        BY <1>1
      <4> QED
        BY <1>7, <2>1, <4>1, <4>2 DEF To, n
    <3> QED
      BY <1>3, <3>1, <3>2, <3>3
  <2> QED
    BY <1>6, <1>7, <1>8, <2>1, <2>2, <2>3, <2>4 DEF Row
<1> QED
  BY <1>1, <1>8, <1>10, <1>11 DEF n, u1, w1, u2, w2

\* Child m is followed by the half that was split off it at s.
LEMMA RowAdopted ==
  ASSUME EntriesBounded, NEW a \in Int, NEW b \in Int,
         NEW h, NEW ex, NEW lv, NEW lo, NEW end, NEW end2, NEW u, NEW w,
         Row(u, w, a, b, h, ex, lv, lo, end), NEW m \in 1 .. Len(u),
         NEW q \in Page, q \in ex, lv[q] + 1 = h,
         NEW s \in Entry, lo[q] = Rank(s),
         lo[u[m]] < Rank(s), Rank(s) < end[u[m]],
         end2[u[m]] = Rank(s), end2[q] = end[u[m]],
         \A i \in 1 .. Len(u) : i # m => end2[u[i]] = end[u[i]]
  PROVE  Row(InsertAt(u, m + 1, q), InsertAt(w, m, s), a, b, h, ex, lv, lo, end2)
<1> DEFINE n == Len(w)
           v == InsertAt(u, m + 1, q)
           z == InsertAt(w, m, s)
<1>1. /\ u \in Seq(Page) /\ w \in Seq(Entry) /\ n \in Nat /\ Len(u) = n + 1 /\ m \in 1 .. n + 1
      /\ a < b
  BY DEF Row
<1>2. /\ \A i \in 1 .. n : Rank(w[i]) \in Int /\ a < Rank(w[i]) /\ Rank(w[i]) < b
      /\ \A i, j \in 1 .. n : i < j => Rank(w[i]) < Rank(w[j])
      /\ Rank(s) \in Int
  <2>1. \A i \in 1 .. n : w[i] \in Entry
    BY <1>1
  <2> QED
    BY <2>1, Ranked DEF Row
<1>3. \A i \in 1 .. n + 1 :
        /\ u[i] \in ex /\ lv[u[i]] + 1 = h
        /\ lo[u[i]] = From(w, a, i) /\ end[u[i]] = To(w, b, i)
  BY <1>1 DEF Row
<1>4. /\ v \in Seq(Page) /\ Len(v) = n + 2
      /\ \A j \in 1 .. m : v[j] = u[j]
      /\ v[m + 1] = q
      /\ \A j \in m + 2 .. n + 2 : v[j] = u[j - 1]
  <2>1. m + 1 \in 1 .. Len(u) + 1 /\ (m + 1) - 1 = m /\ (m + 1) + 1 = m + 2 /\ Len(u) + 1 = n + 2
    BY <1>1
  <2> HIDE DEF n
  <2>2. /\ v \in Seq(Page) /\ Len(v) = Len(u) + 1
        /\ \A j \in 1 .. (m + 1) - 1 : v[j] = u[j]
        /\ v[m + 1] = q
        /\ \A j \in (m + 1) + 1 .. Len(u) + 1 : v[j] = u[j - 1]
    <3> DEFINE g == m + 1
    <3>1. g \in 1 .. Len(u) + 1 /\ v = InsertAt(u, g, q)
      BY <2>1
    <3> HIDE DEF g, v
    <3>2. /\ v \in Seq(Page) /\ Len(v) = Len(u) + 1
          /\ \A j \in 1 .. g - 1 : v[j] = u[j]
          /\ v[g] = q
          /\ \A j \in g + 1 .. Len(u) + 1 : v[j] = u[j - 1]
      BY <1>1, <3>1, PageInserted, ZenonT(60)
    <3> QED
      BY <3>2 DEF g
  <2> HIDE DEF v
  <2> QED
    BY <2>1, <2>2
<1>5. /\ z \in Seq(Entry) /\ Len(z) = n + 1
      /\ \A j \in 1 .. m - 1 : z[j] = w[j]
      /\ z[m] = s
      /\ \A j \in m + 1 .. n + 1 : z[j] = w[j - 1]
  <2> HIDE DEF z
  <2>1. m \in 1 .. Len(w) + 1 /\ z = InsertAt(w, m, s)
    BY <1>1 DEF z
  <2> QED
    BY <1>1, <2>1, EntryInserted, ZenonT(60)
<1> HIDE DEF n, v, z
<1>6. /\ m # 1 => Rank(w[m - 1]) < Rank(s)
      /\ m # n + 1 => Rank(s) < Rank(w[m])
      /\ a < Rank(s) /\ Rank(s) < b
  <2>1. From(w, a, m) < Rank(s) /\ Rank(s) < To(w, b, m)
    BY <1>1, <1>3
  <2>2. m = 1 \/ m - 1 \in 1 .. n
    BY <1>1
  <2>3. m = n + 1 \/ m \in 1 .. n
    BY <1>1
  <2> QED
    BY <1>1, <1>2, <2>1, <2>2, <2>3, SMTT(60) DEF From, To, n
<1>7. \A i \in 1 .. n + 1 : \/ i \in 1 .. m - 1 /\ i \in 1 .. n /\ i < m
                            \/ i = m
                            \/ i \in m + 1 .. n + 1 /\ i - 1 \in 1 .. n /\ m < i
  BY <1>1
<1>8. \A i \in 1 .. n + 1 : a < Rank(z[i]) /\ Rank(z[i]) < b /\ Rank(z[i]) \in Int
  BY <1>2, <1>5, <1>6, <1>7
<1>9. /\ \A i \in 1 .. m - 1 : Rank(z[i]) < Rank(s)
      /\ \A i \in m + 1 .. n + 1 : Rank(s) < Rank(z[i])
  <2>1. ASSUME NEW i \in 1 .. m - 1 PROVE Rank(z[i]) < Rank(s)
    <3>1. i \in 1 .. n /\ m - 1 \in 1 .. n /\ m # 1 /\ (i = m - 1 \/ i < m - 1)
      BY <1>1
    <3>2. Rank(w[i]) <= Rank(w[m - 1]) /\ z[i] = w[i]
      BY <1>2, <1>5, <3>1
    <3> QED
      BY <1>2, <1>6, <3>1, <3>2
  <2>2. ASSUME NEW i \in m + 1 .. n + 1 PROVE Rank(s) < Rank(z[i])
    <3>1. i - 1 \in 1 .. n /\ m \in 1 .. n /\ m # n + 1 /\ (i - 1 = m \/ m < i - 1)
      BY <1>1
    <3>2. Rank(w[m]) <= Rank(w[i - 1]) /\ z[i] = w[i - 1]
      BY <1>2, <1>5, <3>1
    <3> QED
      BY <1>2, <1>6, <3>1, <3>2
  <2> QED
    BY <2>1, <2>2
<1>10. ASSUME NEW i \in 1 .. n + 1, NEW j \in 1 .. n + 1, i < j
       PROVE  Rank(z[i]) < Rank(z[j])
  <2>1. CASE j \in 1 .. m - 1
    <3>1. i \in 1 .. m - 1 /\ i \in 1 .. n /\ j \in 1 .. n
      BY <1>1, <1>10, <2>1
    <3> QED
      BY <1>2, <1>5, <1>10, <2>1, <3>1
  <2>2. CASE j = m
    <3>1. i \in 1 .. m - 1
      BY <1>1, <1>10, <2>2
    <3> QED
      BY <1>5, <1>9, <2>2, <3>1
  <2>3. CASE j \in m + 1 .. n + 1
    <3>1. CASE i \in 1 .. m - 1
      BY <1>2, <1>8, <1>9, <2>3, <3>1
    <3>2. CASE i = m
      BY <1>5, <1>9, <2>3, <3>2
    <3>3. CASE i \in m + 1 .. n + 1
      <4>1. i - 1 \in 1 .. n /\ j - 1 \in 1 .. n /\ i - 1 < j - 1
        BY <1>1, <1>10, <2>3, <3>3
      <4> QED
        BY <1>2, <1>5, <2>3, <3>3, <4>1
    <3> QED
      BY <1>7, <3>1, <3>2, <3>3
  <2> QED
    BY <1>7, <2>1, <2>2, <2>3
<1>11. ASSUME NEW i \in 1 .. n + 2
       PROVE  /\ v[i] \in ex /\ lv[v[i]] + 1 = h
              /\ lo[v[i]] = From(z, a, i) /\ end2[v[i]] = To(z, b, i)
  <2>1. CASE i \in 1 .. m
    <3>1. v[i] = u[i] /\ i \in 1 .. n + 1
      BY <1>1, <1>4, <2>1
    <3>2. From(z, a, i) = From(w, a, i)
      <4>1. i = 1 \/ i - 1 \in 1 .. m - 1
        BY <1>1, <2>1
      <4> QED
        BY <1>5, <4>1 DEF From
    <3>3. end2[v[i]] = To(z, b, i)
      <4>0. i # n + 2 /\ Len(z) + 1 = n + 2
        BY <1>1, <1>5, <2>1
      <4>1. CASE i = m
        BY <1>5, <3>1, <4>0, <4>1 DEF To
      <4>2. CASE i # m
        <5>1. i \in 1 .. m - 1 /\ i # n + 1
          BY <1>1, <2>1, <4>2
        <5>2. To(z, b, i) = To(w, b, i)
          BY <1>5, <4>0, <5>1 DEF To, n
        <5> QED
          BY <1>1, <1>3, <3>1, <4>2, <5>2
      <4> QED
        BY <4>1, <4>2
    <3> QED
      BY <1>3, <3>1, <3>2, <3>3
  <2>2. CASE i = m + 1
    <3>1. v[i] = q /\ i # 1 /\ i - 1 = m
      BY <1>1, <1>4, <2>2
    <3>2. lo[q] = From(z, a, i)
      BY <1>5, <3>1 DEF From
    <3>3. To(z, b, i) = To(w, b, m)
      <4>1. CASE m = n + 1
        BY <1>1, <1>5, <2>2, <4>1 DEF To, n
      <4>2. CASE m # n + 1
        <5>1. m + 1 \in m + 1 .. n + 1 /\ (m + 1) - 1 = m /\ m + 1 # n + 2 /\ Len(z) + 1 = n + 2
          BY <1>1, <1>5, <4>2
        <5> QED
          BY <1>5, <2>2, <4>2, <5>1 DEF To, n
      <4> QED
        BY <4>1, <4>2
    <3> QED
      BY <1>1, <1>3, <3>1, <3>2, <3>3
  <2>3. CASE i \in m + 2 .. n + 2
    <3>1. /\ v[i] = u[i - 1] /\ i - 1 \in 1 .. n + 1 /\ i - 1 # m /\ i # 1 /\ i - 1 # 1
          /\ i - 1 \in m + 1 .. n + 1
      BY <1>1, <1>4, <2>3
    <3>2. From(z, a, i) = From(w, a, i - 1)
      BY <1>5, <3>1 DEF From
    <3>3. To(z, b, i) = To(w, b, i - 1)
      <4>1. i = n + 2 <=> i - 1 = n + 1
        BY <1>1, <2>3
      <4>2. i # n + 2 => i \in m + 1 .. n + 1
        BY <1>1, <2>3
      <4>3. Len(z) + 1 = n + 2
        BY <1>1, <1>5
      <4> QED
        BY <1>5, <4>1, <4>2, <4>3 DEF To, n
    <3> QED
      BY <1>1, <1>3, <3>1, <3>2, <3>3
  <2> QED
    BY <1>1, <2>1, <2>2, <2>3
<1>12. Len(v) = Len(z) + 1 /\ 1 .. Len(v) = 1 .. n + 2 /\ 1 .. Len(z) = 1 .. n + 1
  BY <1>1, <1>4, <1>5
<1>13. Row(v, z, a, b, h, ex, lv, lo, end2)
  BY <1>1, <1>4, <1>5, <1>8, <1>10, <1>11, <1>12 DEF Row
<1> QED
  BY <1>13 DEF v, z

\* Child m has taken in the one after it.
LEMMA RowDropped ==
  ASSUME EntriesBounded, NEW a \in Int, NEW b \in Int,
         NEW h, NEW ex, NEW ex2, NEW lv, NEW lo, NEW end, NEW end2, NEW u, NEW w,
         Row(u, w, a, b, h, ex, lv, lo, end), NEW m \in 1 .. Len(w),
         end2[u[m]] = end[u[m + 1]],
         \A i \in 1 .. Len(u) : i # m + 1 => u[i] \in ex2,
         \A i \in 1 .. Len(u) : i # m /\ i # m + 1 => end2[u[i]] = end[u[i]]
  PROVE  Row(RemoveAt(u, m + 1), RemoveAt(w, m), a, b, h, ex2, lv, lo, end2)
<1> DEFINE n == Len(w)
           v == RemoveAt(u, m + 1)
           z == RemoveAt(w, m)
<1>1. /\ u \in Seq(Page) /\ w \in Seq(Entry) /\ n \in Nat /\ Len(u) = n + 1 /\ m \in 1 .. n
      /\ a < b
  BY DEF Row
<1>2. /\ \A i \in 1 .. n : Rank(w[i]) \in Int /\ a < Rank(w[i]) /\ Rank(w[i]) < b
      /\ \A i, j \in 1 .. n : i < j => Rank(w[i]) < Rank(w[j])
  <2>1. \A i \in 1 .. n : w[i] \in Entry
    BY <1>1
  <2> QED
    BY <2>1, Ranked DEF Row
<1>3. \A i \in 1 .. n + 1 :
        /\ lv[u[i]] + 1 = h
        /\ lo[u[i]] = From(w, a, i) /\ end[u[i]] = To(w, b, i)
  BY <1>1 DEF Row
<1>4. /\ v \in Seq(Page) /\ Len(v) = n
      /\ \A j \in 1 .. m : v[j] = u[j]
      /\ \A j \in m + 1 .. n : v[j] = u[j + 1]
  <2> DEFINE g == m + 1
  <2>1. g \in 1 .. Len(u) /\ g - 1 = m /\ Len(u) - 1 = n /\ v = RemoveAt(u, g)
    BY <1>1
  <2> HIDE DEF g, v, n
  <2>2. /\ v \in Seq(Page) /\ Len(v) = Len(u) - 1
        /\ \A j \in 1 .. g - 1 : v[j] = u[j]
        /\ \A j \in g .. Len(u) - 1 : v[j] = u[j + 1]
    BY <1>1, <2>1, PageRemoved
  <2>3. \A j \in m + 1 .. n : v[j] = u[j + 1]
    BY <2>1, <2>2 DEF g
  <2> QED
    BY <2>1, <2>2, <2>3
<1>5. /\ z \in Seq(Entry) /\ Len(z) = n - 1
      /\ \A j \in 1 .. m - 1 : z[j] = w[j]
      /\ \A j \in m .. n - 1 : z[j] = w[j + 1]
  <2> HIDE DEF z
  <2>1. z = RemoveAt(w, m)
    BY DEF z
  <2> QED
    BY <1>1, <2>1, EntryRemoved
<1> HIDE DEF n, v, z
<1>6. \A i \in 1 .. n - 1 : \/ i \in 1 .. m - 1 /\ i \in 1 .. n
                            \/ i \in m .. n - 1 /\ i + 1 \in 1 .. n
  BY <1>1
<1>7. \A i \in 1 .. n - 1 : a < Rank(z[i]) /\ Rank(z[i]) < b
  BY <1>2, <1>5, <1>6
<1>8. ASSUME NEW i \in 1 .. n - 1, NEW j \in 1 .. n - 1, i < j
      PROVE  Rank(z[i]) < Rank(z[j])
  <2>1. CASE i \in 1 .. m - 1 /\ j \in 1 .. m - 1
    <3>1. i \in 1 .. n /\ j \in 1 .. n
      BY <1>1, <2>1
    <3> QED
      BY <1>2, <1>5, <1>8, <2>1, <3>1
  <2>2. CASE i \in 1 .. m - 1 /\ j \in m .. n - 1
    <3>1. i \in 1 .. n /\ j + 1 \in 1 .. n /\ i < j + 1
      BY <1>1, <2>2
    <3> QED
      BY <1>2, <1>5, <2>2, <3>1
  <2>3. CASE i \in m .. n - 1 /\ j \in m .. n - 1
    <3>1. i + 1 \in 1 .. n /\ j + 1 \in 1 .. n /\ i + 1 < j + 1
      BY <1>1, <1>8, <2>3
    <3> QED
      BY <1>2, <1>5, <2>3, <3>1
  <2> QED
    BY <1>1, <1>6, <1>8, <2>1, <2>2, <2>3
<1>9. ASSUME NEW i \in 1 .. n
      PROVE  /\ v[i] \in ex2 /\ lv[v[i]] + 1 = h
             /\ lo[v[i]] = From(z, a, i) /\ end2[v[i]] = To(z, b, i)
  <2>0. Len(z) + 1 = n
    BY <1>1, <1>5
  <2>1. CASE i \in 1 .. m
    <3>1. v[i] = u[i] /\ i \in 1 .. n + 1 /\ i # m + 1
      BY <1>1, <1>4, <2>1
    <3>2. From(z, a, i) = From(w, a, i)
      <4>1. i = 1 \/ i - 1 \in 1 .. m - 1
        BY <1>1, <2>1
      <4> QED
        BY <1>5, <4>1 DEF From
    <3>3. end2[v[i]] = To(z, b, i)
      <4>1. CASE i = m
        <5>1. /\ m + 1 \in 1 .. n + 1 /\ (m = n <=> m + 1 = n + 1)
              /\ m # n => m \in m .. n - 1
          BY <1>1
        <5>2. To(w, b, m + 1) = To(z, b, m)
          BY <1>5, <2>0, <5>1 DEF To, n
        <5> QED
          BY <1>3, <3>1, <4>1, <5>1, <5>2
      <4>2. CASE i # m
        <5>1. i \in 1 .. m - 1 /\ i # n /\ i # n + 1
          BY <1>1, <2>1, <4>2
        <5>2. To(z, b, i) = To(w, b, i)
          BY <1>5, <2>0, <5>1 DEF To, n
        <5> QED
          BY <1>1, <1>3, <3>1, <4>2, <5>2
      <4> QED
        BY <4>1, <4>2
    <3> QED
      BY <1>1, <1>3, <3>1, <3>2, <3>3
  <2>2. CASE i \in m + 1 .. n
    <3>1. /\ v[i] = u[i + 1] /\ i + 1 \in 1 .. n + 1 /\ i + 1 # m /\ i + 1 # m + 1
          /\ i # 1 /\ i + 1 # 1 /\ i - 1 \in m .. n - 1 /\ (i - 1) + 1 = (i + 1) - 1
      BY <1>1, <1>4, <2>2
    <3>2. From(z, a, i) = From(w, a, i + 1)
      BY <1>5, <3>1 DEF From
    <3>3. To(z, b, i) = To(w, b, i + 1)
      <4>1. (i = n <=> i + 1 = n + 1) /\ (i # n => i \in m .. n - 1)
        BY <1>1, <2>2
      <4> QED
        BY <1>5, <2>0, <4>1 DEF To, n
    <3> QED
      BY <1>1, <1>3, <3>1, <3>2, <3>3
  <2> QED
    BY <1>1, <2>1, <2>2
<1>10. Len(v) = Len(z) + 1 /\ 1 .. Len(v) = 1 .. n /\ 1 .. Len(z) = 1 .. n - 1
  BY <1>1, <1>4, <1>5
<1>11. Row(v, z, a, b, h, ex2, lv, lo, end2)
  BY <1>1, <1>4, <1>5, <1>7, <1>8, <1>9, <1>10 DEF Row
<1> QED
  BY <1>11 DEF v, z

\* The border between children m and m + 1 has moved to s.
BorderMoved(u, w, z, m, s, lo, lo2, end, end2) ==
  /\ m \in 1 .. Len(w) /\ s \in Entry
  /\ lo[u[m]] < Rank(s) /\ Rank(s) < end[u[m + 1]]
  /\ lo2[u[m + 1]] = Rank(s) /\ end2[u[m]] = Rank(s)
  /\ \A i \in 1 .. Len(u) : i # m => end2[u[i]] = end[u[i]]
  /\ \A i \in 1 .. Len(u) : i # m + 1 => lo2[u[i]] = lo[u[i]]
  /\ z \in Seq(Entry) /\ Len(z) = Len(w) /\ z[m] = s
  /\ \A j \in 1 .. Len(w) : j # m => z[j] = w[j]

LEMMA RowMoved ==
  ASSUME EntriesBounded, NEW a \in Int, NEW b \in Int,
         NEW h, NEW ex, NEW lv, NEW lo, NEW lo2, NEW end, NEW end2, NEW u, NEW w,
         Row(u, w, a, b, h, ex, lv, lo, end), NEW m, NEW s, NEW z,
         BorderMoved(u, w, z, m, s, lo, lo2, end, end2)
  PROVE  Row(u, z, a, b, h, ex, lv, lo2, end2)
<1>0. /\ m \in 1 .. Len(w) /\ s \in Entry
      /\ lo[u[m]] < Rank(s) /\ Rank(s) < end[u[m + 1]]
      /\ lo2[u[m + 1]] = Rank(s) /\ end2[u[m]] = Rank(s)
      /\ \A i \in 1 .. Len(u) : i # m => end2[u[i]] = end[u[i]]
      /\ \A i \in 1 .. Len(u) : i # m + 1 => lo2[u[i]] = lo[u[i]]
      /\ z \in Seq(Entry) /\ Len(z) = Len(w) /\ z[m] = s
      /\ \A j \in 1 .. Len(w) : j # m => z[j] = w[j]
  BY DEF BorderMoved
<1> USE <1>0
<1> DEFINE n == Len(w)
<1>1. /\ u \in Seq(Page) /\ w \in Seq(Entry) /\ n \in Nat /\ Len(u) = n + 1 /\ m \in 1 .. n
      /\ a < b
  BY DEF Row
<1>2. /\ \A i \in 1 .. n : Rank(w[i]) \in Int /\ a < Rank(w[i]) /\ Rank(w[i]) < b
      /\ \A i, j \in 1 .. n : i < j => Rank(w[i]) < Rank(w[j])
      /\ Rank(s) \in Int
  <2>1. \A i \in 1 .. n : w[i] \in Entry
    BY <1>1
  <2> QED
    BY <2>1, Ranked DEF Row
<1>3. \A i \in 1 .. n + 1 :
        /\ u[i] \in ex /\ lv[u[i]] + 1 = h
        /\ lo[u[i]] = From(w, a, i) /\ end[u[i]] = To(w, b, i)
  BY <1>1 DEF Row
<1>4. /\ z \in Seq(Entry) /\ Len(z) = n /\ z[m] = s
      /\ \A j \in 1 .. n : j # m => z[j] = w[j]
  BY <1>1
<1> HIDE DEF n
<1>5. /\ m # 1 => m - 1 \in 1 .. n /\ Rank(w[m - 1]) < Rank(s)
      /\ m # n => m + 1 \in 1 .. n /\ Rank(s) < Rank(w[m + 1])
      /\ a < Rank(s) /\ Rank(s) < b
  <2>1. m \in 1 .. n + 1 /\ m + 1 \in 1 .. n + 1
    BY <1>1
  <2>2. From(w, a, m) < Rank(s) /\ Rank(s) < To(w, b, m + 1)
    BY <1>3, <2>1
  <2>3. (m = 1 \/ m - 1 \in 1 .. n) /\ (m = n \/ m + 1 \in 1 .. n) /\ (m + 1 = n + 1 <=> m = n)
    BY <1>1
  <2>4. From(w, a, m) = IF m = 1 THEN a ELSE Rank(w[m - 1])
    BY DEF From
  <2>5. To(w, b, m + 1) = IF m + 1 = n + 1 THEN b ELSE Rank(w[m + 1])
    BY DEF To, n
  <2>6. a < Rank(s)
    BY <1>1, <1>2, <2>2, <2>3, <2>4
  <2>7. Rank(s) < b
    BY <1>1, <1>2, <2>2, <2>3, <2>5
  <2> QED
    BY <2>2, <2>3, <2>4, <2>5, <2>6, <2>7
<1>6. \A i \in 1 .. n : a < Rank(z[i]) /\ Rank(z[i]) < b /\ Rank(z[i]) \in Int
  BY <1>2, <1>4, <1>5
<1>7. /\ \A i \in 1 .. n : i < m => Rank(w[i]) < Rank(s)
      /\ \A i \in 1 .. n : m < i => Rank(s) < Rank(w[i])
  <2>1. ASSUME NEW i \in 1 .. n, i < m PROVE Rank(w[i]) < Rank(s)
    <3>1. m # 1 /\ (i = m - 1 \/ i < m - 1)
      BY <1>1, <2>1
    <3>2. Rank(w[i]) <= Rank(w[m - 1])
      BY <1>2, <1>5, <3>1
    <3> QED
      BY <1>2, <1>5, <3>1, <3>2
  <2>2. ASSUME NEW i \in 1 .. n, m < i PROVE Rank(s) < Rank(w[i])
    <3>1. m # n /\ (i = m + 1 \/ m + 1 < i)
      BY <1>1, <2>2
    <3>2. Rank(w[m + 1]) <= Rank(w[i])
      BY <1>2, <1>5, <3>1
    <3> QED
      BY <1>2, <1>5, <3>1, <3>2
  <2> QED
    BY <2>1, <2>2
<1>8. \A i, j \in 1 .. n : i < j => Rank(z[i]) < Rank(z[j])
  <2> SUFFICES ASSUME NEW i \in 1 .. n, NEW j \in 1 .. n, i < j
               PROVE  Rank(z[i]) < Rank(z[j])
    OBVIOUS
  <2>1. CASE i = m
    <3>1. j # m
      BY <1>1, <2>1
    <3> QED
      BY <1>4, <1>7, <2>1, <3>1
  <2>2. CASE j = m
    <3>1. i # m
      BY <1>1, <2>2
    <3> QED
      BY <1>4, <1>7, <2>2, <3>1
  <2>3. CASE i # m /\ j # m
    BY <1>2, <1>4, <2>3
  <2> QED
    BY <2>1, <2>2, <2>3
<1>9. ASSUME NEW i \in 1 .. n + 1
      PROVE  /\ u[i] \in ex /\ lv[u[i]] + 1 = h
             /\ lo2[u[i]] = From(z, a, i) /\ end2[u[i]] = To(z, b, i)
  <2>1. lo2[u[i]] = From(z, a, i)
    <3>1. CASE i = m + 1
      <4>1. i # 1 /\ i - 1 = m
        BY <1>1, <3>1
      <4> QED
        BY <1>4, <3>1, <4>1 DEF From
    <3>2. CASE i # m + 1
      <4>1. i = 1 \/ (i - 1 \in 1 .. n /\ i - 1 # m)
        BY <1>1, <3>2
      <4>2. From(z, a, i) = From(w, a, i)
        BY <1>4, <4>1 DEF From
      <4> QED
        BY <1>1, <1>3, <3>2, <4>2
    <3> QED
      BY <3>1, <3>2
  <2>2. end2[u[i]] = To(z, b, i)
    <3>1. CASE i = m
      <4>1. i # n + 1
        BY <1>1, <3>1
      <4> QED
        BY <1>4, <3>1, <4>1 DEF To
    <3>2. CASE i # m
      <4>1. i = n + 1 \/ i \in 1 .. n
        BY <1>1
      <4>2. To(z, b, i) = To(w, b, i)
        BY <1>4, <3>2, <4>1 DEF To, n
      <4> QED
        BY <1>1, <1>3, <3>2, <4>2
    <3> QED
      BY <3>1, <3>2
  <2> QED
    BY <1>3, <2>1, <2>2
<1>10. Len(u) = Len(z) + 1 /\ 1 .. Len(u) = 1 .. n + 1 /\ 1 .. Len(z) = 1 .. n
  BY <1>1, <1>4
<1>11. Row(u, z, a, b, h, ex, lv, lo2, end2)
  BY <1>1, <1>4, <1>6, <1>8, <1>9, <1>10 DEF Row
<1> QED
  BY <1>11

-----------------------------------------------------------------------------
(* The entries of a leaf.                                                  *)

Filed(s, a, b) ==
  /\ s \in Seq(Entry)
  /\ \A i \in 1 .. Len(s) : a <= Rank(s[i]) /\ Rank(s[i]) < b
  /\ \A i, j \in 1 .. Len(s) : i < j => Rank(s[i]) < Rank(s[j])

LEMMA FiledRanks ==
  ASSUME EntriesBounded, NEW s \in Seq(Entry)
  PROVE  Len(s) \in Nat /\ \A i \in 1 .. Len(s) : s[i] \in Entry /\ Rank(s[i]) \in Int
<1>1. \A i \in 1 .. Len(s) : s[i] \in Entry
  OBVIOUS
<1> QED
  BY <1>1, Ranked

LEMMA FiledWider ==
  ASSUME EntriesBounded, NEW a \in Int, NEW b \in Int, NEW a2 \in Int, NEW b2 \in Int,
         a2 <= a, b <= b2, NEW s, Filed(s, a, b)
  PROVE  Filed(s, a2, b2)
<1>1. s \in Seq(Entry)
  BY DEF Filed
<1> QED
  BY <1>1, FiledRanks DEF Filed

LEMMA FiledJoined ==
  ASSUME EntriesBounded, NEW a \in Int, NEW x \in Int, NEW b \in Int, a <= x, x <= b,
         NEW s, NEW u, Filed(s, a, x), Filed(u, x, b)
  PROVE  Filed(s \o u, a, b)
<1> DEFINE v == s \o u
           m == Len(s)
           n == Len(u)
<1>1. s \in Seq(Entry) /\ u \in Seq(Entry)
  BY DEF Filed
<1>2. /\ m \in Nat /\ n \in Nat
      /\ \A i \in 1 .. m : Rank(s[i]) \in Int
      /\ \A i \in 1 .. n : Rank(u[i]) \in Int
  BY <1>1, FiledRanks
<1>3. /\ v \in Seq(Entry) /\ Len(v) = m + n
      /\ \A j \in 1 .. m : v[j] = s[j]
      /\ \A j \in m + 1 .. m + n : v[j] = u[j - m]
  BY <1>1, Joined
<1>4. /\ \A i \in 1 .. m : a <= Rank(s[i]) /\ Rank(s[i]) < x
      /\ \A i, j \in 1 .. m : i < j => Rank(s[i]) < Rank(s[j])
      /\ \A i \in 1 .. n : x <= Rank(u[i]) /\ Rank(u[i]) < b
      /\ \A i, j \in 1 .. n : i < j => Rank(u[i]) < Rank(u[j])
  BY DEF Filed
<1> HIDE DEF v, m, n
<1>5. \A i \in 1 .. m + n : i \in 1 .. m \/ (i \in m + 1 .. m + n /\ i - m \in 1 .. n)
  BY <1>2
<1>6. \A i \in 1 .. m + n : /\ a <= Rank(v[i]) /\ Rank(v[i]) < b
                            /\ i <= m => Rank(v[i]) < x
                            /\ m < i => x <= Rank(v[i])
                            /\ Rank(v[i]) \in Int
  <2> SUFFICES ASSUME NEW i \in 1 .. m + n
               PROVE  /\ a <= Rank(v[i]) /\ Rank(v[i]) < b
                      /\ i <= m => Rank(v[i]) < x
                      /\ m < i => x <= Rank(v[i])
                      /\ Rank(v[i]) \in Int
    OBVIOUS
  <2>1. CASE i \in 1 .. m
    BY <1>2, <1>3, <1>4, <2>1
  <2>2. CASE i \in m + 1 .. m + n /\ i - m \in 1 .. n
    BY <1>2, <1>3, <1>4, <2>2
  <2> QED
    BY <1>5, <2>1, <2>2
<1>7. ASSUME NEW i \in 1 .. m + n, NEW j \in 1 .. m + n, i < j PROVE Rank(v[i]) < Rank(v[j])
  <2>1. CASE i \in 1 .. m /\ j \in 1 .. m
    BY <1>3, <1>4, <1>7, <2>1
  <2>2. CASE i \in 1 .. m /\ j \in m + 1 .. m + n
    BY <1>2, <1>6, <2>2
  <2>3. CASE i \in m + 1 .. m + n /\ j \in m + 1 .. m + n
    <3>1. i - m \in 1 .. n /\ j - m \in 1 .. n /\ i - m < j - m
      BY <1>2, <1>7, <2>3
    <3> QED
      BY <1>3, <1>4, <2>3, <3>1
  <2> QED
    BY <1>2, <1>7, <2>1, <2>2, <2>3
<1>8. 1 .. Len(v) = 1 .. m + n /\ v \in Seq(Entry)
  BY <1>3
<1>9. Filed(v, a, b)
  BY <1>6, <1>7, <1>8 DEF Filed
<1> QED
  BY <1>9 DEF v

\* The entries before and from index k.
LEMMA FiledCut ==
  ASSUME EntriesBounded, NEW a \in Int, NEW b \in Int, NEW s, Filed(s, a, b),
         NEW k \in 1 .. Len(s)
  PROVE  /\ s[k] \in Entry /\ Rank(s[k]) \in Int /\ a <= Rank(s[k]) /\ Rank(s[k]) < b
         /\ k # 1 => a < Rank(s[k])
         /\ Filed(SubSeq(s, 1, k - 1), a, Rank(s[k]))
         /\ Filed(SubSeq(s, k, Len(s)), Rank(s[k]), b)
<1> DEFINE n == Len(s)
           x == Rank(s[k])
           u == SubSeq(s, 1, k - 1)
           v == SubSeq(s, k, n)
<1>1. s \in Seq(Entry)
  BY DEF Filed
<1>2. n \in Nat /\ \A i \in 1 .. n : s[i] \in Entry /\ Rank(s[i]) \in Int
  BY <1>1, FiledRanks
<1>3. /\ \A i \in 1 .. n : a <= Rank(s[i]) /\ Rank(s[i]) < b
      /\ \A i, j \in 1 .. n : i < j => Rank(s[i]) < Rank(s[j])
  BY DEF Filed
<1>4. u \in Seq(Entry) /\ Len(u) = k - 1 /\ \A j \in 1 .. k - 1 : u[j] = s[j]
  <2>1. 1 \in 1 .. n + 1 /\ k - 1 \in 0 .. n /\ 1 <= k - 1 + 1 /\ k - 1 - 1 + 1 = k - 1
    BY <1>2
  <2>2. \A j \in 1 .. k - 1 - 1 + 1 : u[j] = s[j + 1 - 1]
    BY <1>1, <2>1, Cut
  <2>3. u \in Seq(Entry) /\ Len(u) = k - 1 - 1 + 1
    BY <1>1, <2>1, Cut
  <2> HIDE DEF u, n
  <2>4. \A j \in 1 .. k - 1 : j + 1 - 1 = j
    OBVIOUS
  <2> QED
    BY <2>1, <2>2, <2>3, <2>4
<1>5. v \in Seq(Entry) /\ Len(v) = n - k + 1 /\ \A j \in 1 .. n - k + 1 : v[j] = s[j + k - 1]
  <2>1. k \in 1 .. n + 1 /\ n \in 0 .. n /\ k <= n + 1
    BY <1>2
  <2> QED
    BY <1>1, <2>1, Cut
<1> HIDE DEF n, u, v
<1>6. /\ \A j \in 1 .. k - 1 : j \in 1 .. n /\ j < k
      /\ \A j \in 1 .. n - k + 1 : j + k - 1 \in 1 .. n /\ (j + k - 1 = k \/ k < j + k - 1)
      /\ k \in 1 .. n
  BY <1>2 DEF n
<1>7. Filed(u, a, x)
  <2>1. \A i \in 1 .. k - 1 : a <= Rank(u[i]) /\ Rank(u[i]) < x
    BY <1>3, <1>4, <1>6
  <2>2. \A i, j \in 1 .. k - 1 : i < j => Rank(u[i]) < Rank(u[j])
    BY <1>3, <1>4, <1>6
  <2> QED
    BY <1>4, <2>1, <2>2 DEF Filed
<1>8. Filed(v, x, b)
  <2>1. ASSUME NEW i \in 1 .. n - k + 1 PROVE x <= Rank(v[i]) /\ Rank(v[i]) < b
    <3>1. PICK j : j = i + k - 1
      OBVIOUS
    <3>2. j \in 1 .. n /\ k \in 1 .. n /\ (j = k \/ k < j) /\ v[i] = s[j]
      BY <1>5, <1>6, <3>1
    <3>3. Rank(s[j]) \in Int /\ Rank(s[k]) \in Int /\ Rank(s[j]) < b
      BY <1>2, <1>3, <3>2
    <3>4. CASE j = k
      BY <3>2, <3>3, <3>4
    <3>5. CASE k < j
      <4>1. x < Rank(s[j])
        BY <1>3, <3>2, <3>5
      <4> QED
        BY <4>1, <3>2, <3>3
    <3> QED
      BY <3>2, <3>4, <3>5
  <2>2. ASSUME NEW i \in 1 .. n - k + 1, NEW j \in 1 .. n - k + 1, i < j
        PROVE  Rank(v[i]) < Rank(v[j])
    <3>1. i + k - 1 \in 1 .. n /\ j + k - 1 \in 1 .. n /\ i + k - 1 < j + k - 1
      BY <1>2, <1>6, <2>2
    <3> QED
      BY <1>3, <1>5, <3>1
  <2> QED
    BY <1>5, <2>1, <2>2 DEF Filed
<1>9. k # 1 => a < x
  <2> SUFFICES ASSUME k # 1 PROVE a < x
    OBVIOUS
  <2>1. 1 \in 1 .. n /\ 1 < k
    BY <1>2, <1>6
  <2> QED
    BY <1>2, <1>3, <1>6, <2>1
<1> QED
  BY <1>2, <1>3, <1>6, <1>7, <1>8, <1>9 DEF n, u, v

LEMMA FiledInserted ==
  ASSUME EntriesBounded, NEW a \in Int, NEW b \in Int, NEW s, Filed(s, a, b),
         NEW k \in 1 .. Len(s) + 1, NEW e \in Entry, a <= Rank(e), Rank(e) < b,
         \A i \in 1 .. Len(s) : i < k => Rank(s[i]) < Rank(e),
         \A i \in 1 .. Len(s) : k <= i => Rank(e) < Rank(s[i])
  PROVE  Filed(InsertAt(s, k, e), a, b)
<1> DEFINE n == Len(s)
           v == InsertAt(s, k, e)
<1>1. s \in Seq(Entry)
  BY DEF Filed
<1>2. n \in Nat /\ \A i \in 1 .. n : s[i] \in Entry /\ Rank(s[i]) \in Int
  BY <1>1, FiledRanks
<1>3. /\ \A i \in 1 .. n : a <= Rank(s[i]) /\ Rank(s[i]) < b
      /\ \A i, j \in 1 .. n : i < j => Rank(s[i]) < Rank(s[j])
  BY DEF Filed
<1>4. /\ v \in Seq(Entry) /\ Len(v) = n + 1
      /\ \A j \in 1 .. k - 1 : v[j] = s[j]
      /\ v[k] = e
      /\ \A j \in k + 1 .. n + 1 : v[j] = s[j - 1]
  <2> HIDE DEF v
  <2>1. v = InsertAt(s, k, e)
    BY DEF v
  <2> QED
    BY <1>1, <2>1, EntryInserted, SMTT(60)
<1>5. /\ \A i \in 1 .. n : i < k => Rank(s[i]) < Rank(e)
      /\ \A i \in 1 .. n : k <= i => Rank(e) < Rank(s[i])
      /\ k \in 1 .. n + 1
  OBVIOUS
<1> HIDE DEF n, v
<1>6. \A i \in 1 .. n + 1 : \/ i \in 1 .. k - 1 /\ i \in 1 .. n /\ i < k
                            \/ i = k
                            \/ i \in k + 1 .. n + 1 /\ i - 1 \in 1 .. n /\ k <= i - 1
  BY <1>2, <1>5
<1>7. \A i \in 1 .. n + 1 : a <= Rank(v[i]) /\ Rank(v[i]) < b
  BY <1>3, <1>4, <1>6
<1>8. ASSUME NEW i \in 1 .. n + 1, NEW j \in 1 .. n + 1, i < j PROVE Rank(v[i]) < Rank(v[j])
  <2>1. CASE j \in 1 .. k - 1
    <3>1. i \in 1 .. k - 1 /\ i \in 1 .. n /\ j \in 1 .. n
      BY <1>2, <1>5, <1>8, <2>1
    <3> QED
      BY <1>3, <1>4, <1>8, <2>1, <3>1
  <2>2. CASE j = k
    <3>1. i \in 1 .. k - 1 /\ i \in 1 .. n /\ i < k
      BY <1>2, <1>5, <1>8, <2>2
    <3> QED
      BY <1>4, <1>5, <2>2, <3>1
  <2>3. CASE j \in k + 1 .. n + 1
    <3>0. v[j] = s[j - 1] /\ j - 1 \in 1 .. n /\ k <= j - 1
      BY <1>2, <1>4, <1>5, <2>3
    <3>1. CASE i \in 1 .. k - 1
      <4>1. i \in 1 .. n /\ i < j - 1 /\ v[i] = s[i]
        BY <1>2, <1>4, <1>5, <2>3, <3>1
      <4> QED
        BY <1>3, <3>0, <4>1
    <3>2. CASE i = k
      BY <1>4, <1>5, <3>0, <3>2
    <3>3. CASE i \in k + 1 .. n + 1
      <4>1. i - 1 \in 1 .. n /\ i - 1 < j - 1 /\ v[i] = s[i - 1]
        BY <1>2, <1>4, <1>5, <1>8, <3>3
      <4> QED
        BY <1>3, <3>0, <4>1
    <3> QED
      BY <1>6, <3>1, <3>2, <3>3
  <2> QED
    BY <1>6, <2>1, <2>2, <2>3
<1>9. 1 .. Len(v) = 1 .. n + 1 /\ v \in Seq(Entry)
  BY <1>4
<1>10. Filed(v, a, b)
  BY <1>7, <1>8, <1>9 DEF Filed
<1> QED
  BY <1>10 DEF v

LEMMA FiledRemoved ==
  ASSUME EntriesBounded, NEW a \in Int, NEW b \in Int, NEW s, Filed(s, a, b),
         NEW k \in 1 .. Len(s)
  PROVE  Filed(RemoveAt(s, k), a, b)
<1> DEFINE n == Len(s)
           v == RemoveAt(s, k)
<1>1. s \in Seq(Entry)
  BY DEF Filed
<1>2. n \in Nat /\ k \in 1 .. n
  BY <1>1, FiledRanks
<1>3. /\ \A i \in 1 .. n : a <= Rank(s[i]) /\ Rank(s[i]) < b
      /\ \A i, j \in 1 .. n : i < j => Rank(s[i]) < Rank(s[j])
  BY DEF Filed
<1>4. /\ v \in Seq(Entry) /\ Len(v) = n - 1
      /\ \A j \in 1 .. k - 1 : v[j] = s[j]
      /\ \A j \in k .. n - 1 : v[j] = s[j + 1]
  <2> HIDE DEF v
  <2>1. v = RemoveAt(s, k)
    BY DEF v
  <2> QED
    BY <1>1, <2>1, EntryRemoved
<1> HIDE DEF n, v
<1>5. \A i \in 1 .. n - 1 : \/ i < k /\ i \in 1 .. n /\ v[i] = s[i]
                            \/ k <= i /\ i + 1 \in 1 .. n /\ v[i] = s[i + 1]
  BY <1>2, <1>4
<1>6. \A i \in 1 .. n - 1 : a <= Rank(v[i]) /\ Rank(v[i]) < b
  BY <1>3, <1>5
<1>7. ASSUME NEW i \in 1 .. n - 1, NEW j \in 1 .. n - 1, i < j PROVE Rank(v[i]) < Rank(v[j])
  <2>1. CASE j < k /\ j \in 1 .. n /\ v[j] = s[j]
    <3>1. i < k /\ i \in 1 .. n
      BY <1>2, <1>7, <2>1
    <3>2. v[i] = s[i]
      BY <1>2, <1>5, <3>1
    <3> QED
      BY <1>3, <1>7, <2>1, <3>1, <3>2
  <2>2. CASE k <= j /\ j + 1 \in 1 .. n /\ v[j] = s[j + 1]
    <3>1. CASE i < k /\ i \in 1 .. n /\ v[i] = s[i]
      <4>1. i < j + 1
        BY <1>2, <2>2, <3>1
      <4> QED
        BY <1>3, <2>2, <3>1, <4>1
    <3>2. CASE k <= i /\ i + 1 \in 1 .. n /\ v[i] = s[i + 1]
      <4>1. i + 1 < j + 1
        BY <1>2, <1>7
      <4> QED
        BY <1>3, <2>2, <3>2, <4>1
    <3> QED
      BY <1>5, <3>1, <3>2
  <2> QED
    BY <1>5, <2>1, <2>2
<1>8. 1 .. Len(v) = 1 .. n - 1 /\ v \in Seq(Entry)
  BY <1>4
<1>9. Filed(v, a, b)
  BY <1>6, <1>7, <1>8 DEF Filed
<1> QED
  BY <1>9 DEF v

-----------------------------------------------------------------------------
(* Trees of pages.                                                         *)

NoPage == INVALID_PAGE_ID

LeafRecords ==
  [kind : {"leaf"}, entries : Seq(Entry), tombstones : {<<>>}, next : Page \cup {NoPage}]
NodeRecords == [kind : {"internal"}, children : Seq(Page), seps : Seq(Entry)]

\* There are no tombstones.
PageRecords == {Free} \cup LeafRecords \cup NodeRecords

Pages(nd) == {p \in Page : nd[p].kind # "free"}

\* Where the range ends for which p has a parent.
Ends(pend, hi) == [p \in Page |-> IF pend[p] = NoPage THEN hi[p] ELSE hi[pend[p]]]

LeafOK(nd, lv, lo, hi, p) ==
  /\ lv[p] = 0
  /\ Filed(nd[p].entries, lo[p], hi[p])
  /\ IF hi[p] = Ceiling THEN nd[p].next = NoPage
     ELSE /\ nd[p].next \in Page /\ nd[nd[p].next].kind = "leaf"
          /\ lo[nd[p].next] = hi[p]

NodeOK(nd, pend, lv, lo, hi, p) ==
  Row(nd[p].children, nd[p].seps, lo[p], hi[p], lv[p], Pages(nd), lv, lo, Ends(pend, hi))

PageOK(nd, pend, lv, lo, hi, p) ==
  \/ nd[p].kind = "leaf" /\ LeafOK(nd, lv, lo, hi, p)
  \/ nd[p].kind = "internal" /\ NodeOK(nd, pend, lv, lo, hi, p)

ChildOf(nd, c, p) ==
  p \in Page /\ nd[p].kind = "internal" /\ \E i \in 1 .. Len(nd[p].children) : nd[p].children[i] = c

Typed(nd, top, pend, lv, lo, hi) ==
  /\ nd \in [Page -> PageRecords]
  /\ top \in Pages(nd) \cup {NoPage}
  /\ pend \in [Page -> Page \cup {NoPage}]
  /\ lv \in [Page -> Nat] /\ lo \in [Page -> Int] /\ hi \in [Page -> Int]

Spread(nd, lo, hi) ==
  \A p \in Pages(nd) : Bottom <= lo[p] /\ lo[p] < hi[p] /\ hi[p] <= Ceiling

Disjoint(nd, lv, lo, hi) ==
  \A p, q \in Pages(nd) : p # q /\ lv[p] = lv[q] => hi[p] <= lo[q] \/ hi[q] <= lo[p]

Halves(nd, pend, lv, lo, hi) ==
  \A p \in Page : pend[p] # NoPage =>
    /\ p \in Pages(nd) /\ pend[p] \in Pages(nd) /\ lv[pend[p]] = lv[p]
    /\ lo[pend[p]] = hi[p] /\ pend[pend[p]] = NoPage

Rooted(nd, top, pend, lv, lo, hi) ==
  IF top = NoPage THEN Pages(nd) = {}
  ELSE /\ lo[top] = Bottom /\ Ends(pend, hi)[top] = Ceiling
       /\ \A p \in Pages(nd) : lv[p] <= lv[top]

Owned(nd, top, pend) ==
  \A p \in Pages(nd) : p = top \/ \E q \in Page : ChildOf(nd, p, q) \/ pend[q] = p

Tree(nd, top, pend, lv, lo, hi) ==
  /\ Typed(nd, top, pend, lv, lo, hi)
  /\ Spread(nd, lo, hi)
  /\ Disjoint(nd, lv, lo, hi)
  /\ Halves(nd, pend, lv, lo, hi)
  /\ Rooted(nd, top, pend, lv, lo, hi)
  /\ Owned(nd, top, pend)
  /\ \A p \in Pages(nd) : PageOK(nd, pend, lv, lo, hi, p)

LEMMA NoPageIsNone ==
  NoPage \notin Page /\ NoPage = 0
BY PageAssumption DEF NoPage, INVALID_PAGE_ID

\* A page is a leaf, an internal page or free.
LEMMA Kinds ==
  ASSUME NEW nd \in [Page -> PageRecords], NEW p \in Page
  PROVE  /\ nd[p] = Free \/ nd[p].kind = "leaf" \/ nd[p].kind = "internal"
         /\ p \in Pages(nd) <=> nd[p] # Free
         /\ nd[p] = Free <=> nd[p].kind = "free"
         /\ nd[p].kind = "leaf" <=> nd[p] \in LeafRecords
         /\ nd[p].kind = "internal" <=> nd[p] \in NodeRecords
<1>1. nd[p] = Free \/ nd[p] \in LeafRecords \/ nd[p] \in NodeRecords
  BY DEF PageRecords
<1>2. /\ nd[p] = Free => nd[p].kind = "free"
      /\ nd[p] \in LeafRecords => nd[p].kind = "leaf"
      /\ nd[p] \in NodeRecords => nd[p].kind = "internal"
  BY DEF Free, LeafRecords, NodeRecords
<1> QED
  BY <1>1, <1>2 DEF Pages

LEMMA EndsAt ==
  ASSUME NEW pend, NEW hi, NEW p \in Page
  PROVE  Ends(pend, hi)[p] = IF pend[p] = NoPage THEN hi[p] ELSE hi[pend[p]]
BY DEF Ends

\* The end of a page's range, with its other half.
LEMMA EndsAfter ==
  ASSUME NEW nd, NEW top, NEW pend, NEW lv, NEW lo, NEW hi, Tree(nd, top, pend, lv, lo, hi),
         EntriesBounded, NEW p \in Pages(nd)
  PROVE  /\ p \in Page /\ lo[p] \in Int /\ hi[p] \in Int /\ lo[p] < hi[p] /\ lv[p] \in Nat
         /\ Bottom <= lo[p] /\ hi[p] <= Ceiling
         /\ Ends(pend, hi)[p] \in Int /\ hi[p] <= Ends(pend, hi)[p]
         /\ Ends(pend, hi)[p] <= Ceiling
         /\ pend[p] = NoPage => Ends(pend, hi)[p] = hi[p]
         /\ pend[p] # NoPage => /\ pend[p] \in Pages(nd) /\ Ends(pend, hi)[p] = hi[pend[p]]
                                /\ hi[p] < Ends(pend, hi)[p]
<1>1. p \in Page /\ lo[p] \in Int /\ hi[p] \in Int /\ lv[p] \in Nat
  BY DEF Tree, Typed, Pages
<1>2. lo[p] < hi[p] /\ Bottom <= lo[p] /\ hi[p] <= Ceiling
  BY DEF Tree, Spread
<1>3. Bottom \in Int /\ Ceiling \in Int
  BY Ranked
<1>4. CASE pend[p] = NoPage
  BY <1>1, <1>2, <1>4, EndsAt, <1>3
<1>5. CASE pend[p] # NoPage
  <2> DEFINE q == pend[p]
  <2>1. q \in Pages(nd) /\ lo[q] = hi[p]
    BY <1>5, <1>1 DEF Tree, Halves
  <2>2. q \in Page /\ lo[q] \in Int /\ hi[q] \in Int /\ lo[q] < hi[q] /\ hi[q] <= Ceiling
    BY <2>1 DEF Tree, Typed, Spread, Pages
  <2>3. Ends(pend, hi)[p] = hi[q]
    BY <1>1, <1>5, EndsAt
  <2> QED
    BY <1>1, <1>2, <1>3, <1>5, <2>1, <2>2, <2>3
<1> QED
  BY <1>4, <1>5

\* Two pages of a level that share a point are the same.
LEMMA SamePlace ==
  ASSUME NEW nd, NEW top, NEW pend, NEW lv, NEW lo, NEW hi, Tree(nd, top, pend, lv, lo, hi),
         NEW p \in Pages(nd), NEW q \in Pages(nd), lv[p] = lv[q],
         NEW x \in Int, lo[p] <= x, x < hi[p], lo[q] <= x, x < hi[q]
  PROVE  p = q
<1>1. /\ lo[p] \in Int /\ hi[p] \in Int /\ lo[q] \in Int /\ hi[q] \in Int
  BY DEF Tree, Typed, Pages
<1>2. p # q => hi[p] <= lo[q] \/ hi[q] <= lo[p]
  BY DEF Tree, Disjoint
<1> QED
  BY <1>1, <1>2

\* What a child's parent says about it.
LEMMA Children ==
  ASSUME NEW nd, NEW top, NEW pend, NEW lv, NEW lo, NEW hi, Tree(nd, top, pend, lv, lo, hi),
         EntriesBounded, NEW p \in Page, nd[p].kind = "internal"
  PROVE  /\ p \in Pages(nd)
         /\ NodeOK(nd, pend, lv, lo, hi, p)
         /\ nd[p].children \in Seq(Page) /\ nd[p].seps \in Seq(Entry)
         /\ nd[p] = InternalNode(nd[p].children, nd[p].seps)
         /\ Len(nd[p].children) \in Nat /\ Len(nd[p].seps) \in Nat
         /\ Len(nd[p].children) = Len(nd[p].seps) + 1
         /\ \A i \in 1 .. Len(nd[p].children) :
              LET c == nd[p].children[i]
              IN /\ c \in Pages(nd) /\ lv[c] + 1 = lv[p] /\ ChildOf(nd, c, p) /\ c # p
                 /\ lo[c] = From(nd[p].seps, lo[p], i)
                 /\ Ends(pend, hi)[c] = To(nd[p].seps, hi[p], i)
                 /\ lo[p] <= lo[c] /\ lo[c] < Ends(pend, hi)[c] /\ Ends(pend, hi)[c] <= hi[p]
         /\ \A i, j \in 1 .. Len(nd[p].children) :
              /\ i < j => Ends(pend, hi)[nd[p].children[i]] <= lo[nd[p].children[j]]
              /\ nd[p].children[i] = nd[p].children[j] => i = j
<1> DEFINE u == nd[p].children
           w == nd[p].seps
           end == Ends(pend, hi)
<1>1. p \in Pages(nd) /\ nd[p] \in PageRecords /\ lo[p] \in Int /\ hi[p] \in Int /\ lv[p] \in Nat
  BY DEF Tree, Typed, Pages
<1>2. nd[p] = InternalNode(u, w)
  BY <1>1 DEF PageRecords, Free, LeafRecords, NodeRecords, InternalNode
<1>3. Row(u, w, lo[p], hi[p], lv[p], Pages(nd), lv, lo, end)
  BY <1>1 DEF Tree, PageOK, NodeOK
<1>4. /\ Len(w) \in Nat /\ Len(u) = Len(w) + 1
      /\ \A i \in 1 .. Len(u) :
              /\ u[i] \in Page /\ lo[u[i]] \in Int /\ end[u[i]] \in Int
              /\ lo[p] <= lo[u[i]] /\ lo[u[i]] < end[u[i]] /\ end[u[i]] <= hi[p]
      /\ \A i, j \in 1 .. Len(u) : i < j => end[u[i]] <= lo[u[j]]
      /\ \A i, j \in 1 .. Len(u) : u[i] = u[j] => i = j
  <2> HIDE DEF u, w, end
  <2> QED
    BY <1>1, <1>3, RowOrder
<1>5. /\ u \in Seq(Page) /\ w \in Seq(Entry)
      /\ \A i \in 1 .. Len(u) : /\ u[i] \in Pages(nd) /\ lv[u[i]] + 1 = lv[p]
                                /\ lo[u[i]] = From(w, lo[p], i)
                                /\ end[u[i]] = To(w, hi[p], i)
  BY <1>3 DEF Row
<1>6. \A i \in 1 .. Len(u) : ChildOf(nd, u[i], p)
  BY DEF ChildOf
<1>7. \A i \in 1 .. Len(u) : u[i] # p
  BY <1>5, <1>1
<1>8. NodeOK(nd, pend, lv, lo, hi, p)
  BY <1>3 DEF NodeOK
<1> HIDE DEF u, w, end
<1>9. Len(u) \in Nat
  BY <1>4
<1> QED
  BY <1>1, <1>2, <1>4, <1>5, <1>6, <1>7, <1>8, <1>9 DEF u, w, end

\* Where a child begins, and with its other half ends.
LEMMA ChildRange ==
  ASSUME NEW nd, NEW top, NEW pend, NEW lv, NEW lo, NEW hi, Tree(nd, top, pend, lv, lo, hi),
         EntriesBounded, NEW c, NEW p, ChildOf(nd, c, p)
  PROVE  /\ p \in Pages(nd) /\ c \in Pages(nd) /\ lv[c] + 1 = lv[p] /\ c # p
         /\ lv[c] \in Nat /\ lv[p] \in Nat
         /\ lo[p] <= lo[c] /\ lo[c] < Ends(pend, hi)[c] /\ Ends(pend, hi)[c] <= hi[p]
<1>1. p \in Page /\ nd[p].kind = "internal"
  BY DEF ChildOf
<1>2. PICK i \in 1 .. Len(nd[p].children) : nd[p].children[i] = c
  BY DEF ChildOf
<1>3. /\ p \in Pages(nd) /\ c \in Pages(nd) /\ lv[c] + 1 = lv[p] /\ c # p
      /\ lo[p] <= lo[c] /\ lo[c] < Ends(pend, hi)[c] /\ Ends(pend, hi)[c] <= hi[p]
  BY <1>1, <1>2, Children
<1> QED
  BY <1>3, EndsAfter

\* Two children that share a point are the same, and have the same parent.
LEMMA SameChild ==
  ASSUME NEW nd, NEW top, NEW pend, NEW lv, NEW lo, NEW hi, Tree(nd, top, pend, lv, lo, hi),
         EntriesBounded, NEW c, NEW p, ChildOf(nd, c, p), NEW d, NEW q, ChildOf(nd, d, q),
         lv[c] = lv[d],
         NEW x \in Int, lo[c] <= x, x < Ends(pend, hi)[c], lo[d] <= x, x < Ends(pend, hi)[d]
  PROVE  p = q /\ c = d
<1>1. /\ p \in Pages(nd) /\ c \in Pages(nd) /\ lv[c] + 1 = lv[p] /\ lo[p] <= lo[c]
      /\ lv[p] \in Nat /\ Ends(pend, hi)[c] <= hi[p]
  BY ChildRange
<1>2. /\ q \in Pages(nd) /\ d \in Pages(nd) /\ lv[d] + 1 = lv[q] /\ lo[q] <= lo[d]
      /\ lv[q] \in Nat /\ Ends(pend, hi)[d] <= hi[q]
  BY ChildRange
<1>3. /\ lo[p] \in Int /\ lo[q] \in Int /\ hi[p] \in Int /\ hi[q] \in Int
      /\ lo[c] \in Int /\ lo[d] \in Int
      /\ Ends(pend, hi)[c] \in Int /\ Ends(pend, hi)[d] \in Int
  BY <1>1, <1>2, EndsAfter
<1>4. p = q
  <2>1. lo[p] <= x /\ x < hi[p] /\ lo[q] <= x /\ x < hi[q] /\ lv[p] = lv[q]
    BY <1>1, <1>2, <1>3
  <2> QED
    BY <1>1, <1>2, <2>1, SamePlace
<1>5. p \in Page /\ nd[p].kind = "internal"
  BY DEF ChildOf
<1>6. PICK i \in 1 .. Len(nd[p].children) : nd[p].children[i] = c
  BY DEF ChildOf
<1>7. PICK j \in 1 .. Len(nd[p].children) : nd[p].children[j] = d
  BY <1>4 DEF ChildOf
<1>8. \A k, l \in 1 .. Len(nd[p].children) :
        k < l => Ends(pend, hi)[nd[p].children[k]] <= lo[nd[p].children[l]]
  BY <1>5, Children
<1>9. Len(nd[p].children) \in Nat
  BY <1>5, Children
<1>10. ~(i < j)
  BY <1>6, <1>7, <1>8, <1>3, SMTT(60)
<1>11. ~(j < i)
  BY <1>6, <1>7, <1>8, <1>3, SMTT(60)
<1>12. i = j
  BY <1>9, <1>10, <1>11
<1> QED
  BY <1>4, <1>6, <1>7, <1>12

\* A page has one parent.
LEMMA OneParent ==
  ASSUME NEW nd, NEW top, NEW pend, NEW lv, NEW lo, NEW hi, Tree(nd, top, pend, lv, lo, hi),
         EntriesBounded, NEW c, NEW p, ChildOf(nd, c, p), NEW q, ChildOf(nd, c, q)
  PROVE  p = q
<1>1. /\ c \in Pages(nd) /\ lo[c] < Ends(pend, hi)[c]
  BY ChildRange
<1>2. lo[c] \in Int
  BY <1>1, EndsAfter
<1> QED
  BY <1>1, <1>2, SameChild

\* The root is nobody's child.
LEMMA TopNoChild ==
  ASSUME NEW nd, NEW top, NEW pend, NEW lv, NEW lo, NEW hi, Tree(nd, top, pend, lv, lo, hi),
         EntriesBounded, NEW p
  PROVE  ~ChildOf(nd, top, p)
<1> SUFFICES ASSUME ChildOf(nd, top, p) PROVE FALSE
  OBVIOUS
<1>1. p \in Pages(nd) /\ top \in Pages(nd) /\ lv[top] + 1 = lv[p] /\ lv[top] \in Nat /\ lv[p] \in Nat
  BY ChildRange
<1>2. top # NoPage
  BY <1>1, NoPageIsNone DEF Pages
<1>3. lv[p] <= lv[top]
  BY <1>1, <1>2 DEF Tree, Rooted
<1> QED
  BY <1>1, <1>3

\* The other half of a split page has no parent yet, and is not the root.
LEMMA PendingNoChild ==
  ASSUME NEW nd, NEW top, NEW pend, NEW lv, NEW lo, NEW hi, Tree(nd, top, pend, lv, lo, hi),
         EntriesBounded, NEW q \in Page, pend[q] # NoPage
  PROVE  pend[q] # top /\ \A p : ~ChildOf(nd, pend[q], p)
<1> DEFINE c == pend[q]
           end == Ends(pend, hi)
<1>1. /\ q \in Pages(nd) /\ c \in Pages(nd) /\ lv[c] = lv[q] /\ lo[c] = hi[q] /\ pend[c] = NoPage
  BY DEF Tree, Halves
<1>2. /\ lo[c] \in Int /\ hi[c] \in Int /\ lo[c] < hi[c] /\ end[c] = hi[c]
      /\ lo[q] \in Int /\ hi[q] \in Int /\ lo[q] < hi[q] /\ end[q] = hi[c]
      /\ lv[q] \in Nat /\ Bottom <= lo[q] /\ Bottom \in Int
  BY <1>1, EndsAfter, Ranked
<1>3. c # top
  <2> SUFFICES ASSUME c = top PROVE FALSE
    OBVIOUS
  <2>1. top # NoPage
    BY <1>1, NoPageIsNone DEF Pages
  <2>2. lo[c] = Bottom
    BY <2>1 DEF Tree, Rooted
  <2> QED
    BY <2>2, <1>1, <1>2
<1>4. ASSUME NEW p, ChildOf(nd, c, p) PROVE FALSE
  <2>1. p \in Pages(nd) /\ lv[c] + 1 = lv[p]
    BY <1>4, ChildRange
  <2>2. q = top \/ (\E r \in Page : ChildOf(nd, q, r)) \/ (\E r \in Page : pend[r] = q)
    BY <1>1 DEF Tree, Owned
  <2>3. CASE q = top
    <3>1. top # NoPage
      BY <2>3, <1>1, NoPageIsNone DEF Pages
    <3>2. lv[p] <= lv[q]
      BY <2>1, <2>3, <3>1 DEF Tree, Rooted
    <3> QED
      BY <3>2, <2>1, <1>1, <1>2
  <2>4. CASE \E r \in Page : ChildOf(nd, q, r)
    <3>1. PICK r \in Page : ChildOf(nd, q, r)
      BY <2>4
    <3>2. lo[q] <= lo[c] /\ lo[c] < end[q] /\ lo[c] <= lo[c] /\ lo[c] < end[c]
      BY <1>1, <1>2
    <3> HIDE DEF c
    <3>3. c = q
      BY <3>1, <3>2, <1>1, <1>2, <1>4, SameChild
    <3> QED
      BY <3>3, <1>1, <1>2
  <2>5. CASE \E r \in Page : pend[r] = q
    <3>1. PICK r \in Page : pend[r] = q
      BY <2>5
    <3>2. pend[r] # NoPage
      BY <3>1, NoPageIsNone
    <3>3. pend[q] = NoPage
      BY <3>1, <3>2 DEF Tree, Halves
    <3> QED
      BY <3>3
  <2> QED
    BY <2>2, <2>3, <2>4, <2>5
<1> QED
  BY <1>3, <1>4

-----------------------------------------------------------------------------
(* Changes.                                                                *)

\* A page is as it should be if it stays what it was, and so does all it says of
\* others.
Unmoved(nd, pend, lv, lo, hi, nd2, pend2, lv2, lo2, hi2, p) ==
  /\ nd2[p] = nd[p] /\ lv2[p] = lv[p] /\ lo2[p] = lo[p] /\ hi2[p] = hi[p]
  /\ nd[p].kind = "internal" => \A i \in 1 .. Len(nd[p].children) :
       LET c == nd[p].children[i]
       IN /\ c \in Pages(nd2) /\ lv2[c] = lv[c] /\ lo2[c] = lo[c]
          /\ Ends(pend2, hi2)[c] = Ends(pend, hi)[c]
  /\ nd[p].kind = "leaf" /\ hi[p] # Ceiling =>
       nd2[nd[p].next].kind = "leaf" /\ lo2[nd[p].next] = lo[nd[p].next]

LEMMA PageKept ==
  ASSUME NEW nd, NEW pend, NEW lv, NEW lo, NEW hi,
         NEW nd2, NEW pend2, NEW lv2, NEW lo2, NEW hi2, NEW p,
         PageOK(nd, pend, lv, lo, hi, p),
         Unmoved(nd, pend, lv, lo, hi, nd2, pend2, lv2, lo2, hi2, p)
  PROVE  PageOK(nd2, pend2, lv2, lo2, hi2, p)
<1>1. CASE nd[p].kind = "leaf"
  <2>1. LeafOK(nd, lv, lo, hi, p)
    BY <1>1 DEF PageOK
  <2>2. LeafOK(nd2, lv2, lo2, hi2, p)
    BY <2>1, <1>1 DEF LeafOK, Unmoved
  <2> QED
    BY <2>2, <1>1 DEF PageOK, Unmoved
<1>2. CASE nd[p].kind = "internal"
  <2> DEFINE u == nd[p].children
             w == nd[p].seps
             e == Ends(pend, hi)
             e2 == Ends(pend2, hi2)
             ex == Pages(nd)
             ex2 == Pages(nd2)
  <2>1. Row(u, w, lo[p], hi[p], lv[p], ex, lv, lo, e)
    BY <1>2 DEF PageOK, NodeOK
  <2>2. \A i \in 1 .. Len(u) : /\ u[i] \in ex2 /\ lv2[u[i]] = lv[u[i]]
                               /\ lo2[u[i]] = lo[u[i]] /\ e2[u[i]] = e[u[i]]
    BY <1>2 DEF Unmoved
  <2> HIDE DEF u, w, e, e2, ex, ex2
  <2>3. Row(u, w, lo[p], hi[p], lv[p], ex2, lv2, lo2, e2)
    BY <2>1, <2>2, RowSame
  <2>4. Row(nd2[p].children, nd2[p].seps, lo2[p], hi2[p], lv2[p], ex2, lv2, lo2, e2)
    BY <2>3 DEF u, w, Unmoved
  <2> QED
    BY <2>4, <1>2 DEF PageOK, NodeOK, Unmoved, e2, ex2
<1> QED
  BY <1>1, <1>2 DEF PageOK

\* The leaf to the right of one.
LEMMA NextLeaf ==
  ASSUME NEW nd, NEW top, NEW pend, NEW lv, NEW lo, NEW hi, Tree(nd, top, pend, lv, lo, hi),
         NEW p \in Page, nd[p].kind = "leaf"
  PROVE  /\ p \in Pages(nd) /\ lv[p] = 0 /\ Filed(nd[p].entries, lo[p], hi[p])
         /\ nd[p] \in LeafRecords
         /\ nd[p].next = NoPage <=> hi[p] = Ceiling
         /\ nd[p].next # NoPage =>
              /\ nd[p].next \in Pages(nd) /\ nd[nd[p].next].kind = "leaf"
              /\ lo[nd[p].next] = hi[p]
<1>1. p \in Pages(nd) /\ nd[p] \in LeafRecords
  BY Kinds DEF Tree, Typed, Pages
<1>2. LeafOK(nd, lv, lo, hi, p)
  BY <1>1 DEF Tree, PageOK
<1>3. nd[p].next \in Page => nd[p].next # NoPage
  BY NoPageIsNone
<1> QED
  BY <1>1, <1>2, <1>3 DEF LeafOK, Pages

LEMMA LeafEdited ==
  ASSUME NEW nd, NEW top, NEW pend, NEW lv, NEW lo, NEW hi, Tree(nd, top, pend, lv, lo, hi),
         EntriesBounded, NEW p \in Page, nd[p].kind = "leaf",
         NEW nd2 \in [Page -> PageRecords], \A z \in Page : z # p => nd2[z] = nd[z],
         nd2[p].kind = "leaf", nd2[p].next = nd[p].next,
         Filed(nd2[p].entries, lo[p], hi[p])
  PROVE  Tree(nd2, top, pend, lv, lo, hi)
<1>1. Pages(nd2) = Pages(nd)
  BY DEF Pages
<1>2. \A c, q : ChildOf(nd, c, q) <=> ChildOf(nd2, c, q)
  BY DEF ChildOf
<1>3. ASSUME NEW z \in Pages(nd) PROVE PageOK(nd2, pend, lv, lo, hi, z)
  <2>1. PageOK(nd, pend, lv, lo, hi, z) /\ z \in Page
    BY DEF Tree, Pages
  <2>2. \A r \in Page : nd2[r].kind = nd[r].kind
    OBVIOUS
  <2>3. nd[z].kind = "leaf" /\ hi[z] # Ceiling => nd[z].next \in Page /\ nd[nd[z].next].kind = "leaf"
    BY <2>1, NextLeaf DEF Pages
  <2>4. CASE z = p
    <3>1. LeafOK(nd2, lv, lo, hi, p)
      BY <2>1, <2>2, <2>3, <2>4 DEF PageOK, LeafOK
    <3> QED
      BY <2>4, <3>1 DEF PageOK
  <2>5. CASE z # p
    <3>1. nd[z].kind = "internal" => \A i \in 1 .. Len(nd[z].children) :
            nd[z].children[i] \in Pages(nd2)
      BY <2>1, <1>1, Children
    <3>2. nd2[z] = nd[z]
      BY <2>5, <2>1
    <3>3. nd[z].kind = "leaf" /\ hi[z] # Ceiling => nd2[nd[z].next].kind = "leaf"
      BY <2>2, <2>3
    <3>4. Unmoved(nd, pend, lv, lo, hi, nd2, pend, lv, lo, hi, z)
      BY <3>1, <3>2, <3>3 DEF Unmoved
    <3> QED
      BY <2>1, <3>4, PageKept
  <2> QED
    BY <2>4, <2>5
<1>4. Typed(nd2, top, pend, lv, lo, hi)
  BY <1>1 DEF Tree, Typed
<1>5. Spread(nd2, lo, hi) /\ Disjoint(nd2, lv, lo, hi) /\ Halves(nd2, pend, lv, lo, hi)
      /\ Rooted(nd2, top, pend, lv, lo, hi)
  BY <1>1 DEF Tree, Spread, Disjoint, Halves, Rooted
<1>6. Owned(nd2, top, pend)
  BY <1>1, <1>2 DEF Tree, Owned
<1> QED
  BY <1>1, <1>3, <1>4, <1>5, <1>6 DEF Tree

\* A page cut in two at x: its right half is the new page q.
CutInTwo(nd, pend, lv, lo, hi, p, q, x, nd2, pend2, lv2, lo2, hi2) ==
  /\ p \in Pages(nd)
  /\ pend[p] = NoPage
  /\ \A r \in Page : pend[r] # p
  /\ q \in Page
  /\ q \notin Pages(nd)
  /\ x \in Int
  /\ lo[p] < x
  /\ x < hi[p]
  /\ nd2 \in [Page -> PageRecords]
  /\ \A z \in Page : z # p /\ z # q => nd2[z] = nd[z]
  /\ pend2 = [pend EXCEPT ![p] = q]
  /\ lv2 = [lv EXCEPT ![q] = lv[p]]
  /\ lo2 = [lo EXCEPT ![q] = x]
  /\ hi2 = [hi EXCEPT ![p] = x, ![q] = hi[p]]
  /\ PageOK(nd2, pend2, lv2, lo2, hi2, p)
  /\ PageOK(nd2, pend2, lv2, lo2, hi2, q)
  /\ (nd[p].kind = "leaf" => nd2[p].kind = "leaf")
  /\ \A c : ChildOf(nd, c, p) => ChildOf(nd2, c, p) \/ ChildOf(nd2, c, q)

LEMMA Split ==
  ASSUME NEW nd, NEW top, NEW pend, NEW lv, NEW lo, NEW hi, NEW p, NEW q, NEW x, NEW nd2,
         NEW pend2, NEW lv2, NEW lo2, NEW hi2,
         Tree(nd, top, pend, lv, lo, hi), EntriesBounded,
         CutInTwo(nd, pend, lv, lo, hi, p, q, x, nd2, pend2, lv2, lo2, hi2)
  PROVE  Tree(nd2, top, pend2, lv2, lo2, hi2)
<1>0. /\ p \in Pages(nd)
      /\ pend[p] = NoPage
      /\ \A r \in Page : pend[r] # p
      /\ q \in Page
      /\ q \notin Pages(nd)
      /\ x \in Int
      /\ lo[p] < x
      /\ x < hi[p]
      /\ nd2 \in [Page -> PageRecords]
      /\ \A z \in Page : z # p /\ z # q => nd2[z] = nd[z]
      /\ pend2 = [pend EXCEPT ![p] = q]
      /\ lv2 = [lv EXCEPT ![q] = lv[p]]
      /\ lo2 = [lo EXCEPT ![q] = x]
      /\ hi2 = [hi EXCEPT ![p] = x, ![q] = hi[p]]
      /\ PageOK(nd2, pend2, lv2, lo2, hi2, p)
      /\ PageOK(nd2, pend2, lv2, lo2, hi2, q)
      /\ (nd[p].kind = "leaf" => nd2[p].kind = "leaf")
      /\ \A c : ChildOf(nd, c, p) => ChildOf(nd2, c, p) \/ ChildOf(nd2, c, q)
  BY DEF CutInTwo
<1> USE <1>0
<1> DEFINE end == Ends(pend, hi)
           end2 == Ends(pend2, hi2)
<1>1. /\ p \in Page /\ p # q /\ q # NoPage /\ top # q
      /\ \A r \in Page : pend[r] # q /\ pend[r] \in Page \cup {NoPage}
      /\ pend[q] = NoPage
      /\ \A z \in Page : lo[z] \in Int /\ hi[z] \in Int /\ lv[z] \in Nat
  BY NoPageIsNone DEF Tree, Typed, Pages, Halves
<1>2. /\ pend2 \in [Page -> Page \cup {NoPage}] /\ lv2 \in [Page -> Nat]
      /\ lo2 \in [Page -> Int] /\ hi2 \in [Page -> Int]
      /\ pend2[p] = q /\ \A z \in Page : z # p => pend2[z] = pend[z]
      /\ lv2[q] = lv[p] /\ \A z \in Page : z # q => lv2[z] = lv[z]
      /\ lo2[q] = x /\ \A z \in Page : z # q => lo2[z] = lo[z]
      /\ hi2[p] = x /\ hi2[q] = hi[p] /\ \A z \in Page : z # q /\ z # p => hi2[z] = hi[z]
  BY <1>1 DEF Tree, Typed
<1>3. Pages(nd2) = Pages(nd) \cup {q}
  <2>1. nd2[p].kind # "free" /\ nd2[q].kind # "free"
    BY DEF PageOK
  <2> QED
    BY <2>1, <1>1 DEF Pages
<1>4. \A z \in Pages(nd) : z \in Page /\ z # q
  BY DEF Pages
<1>5. ASSUME NEW z \in Pages(nd) PROVE end2[z] = end[z]
  <2>0. /\ z \in Page /\ z # q /\ end[z] = (IF pend[z] = NoPage THEN hi[z] ELSE hi[pend[z]])
        /\ end2[z] = (IF pend2[z] = NoPage THEN hi2[z] ELSE hi2[pend2[z]])
    BY <1>4 DEF Ends
  <2> HIDE DEF end, end2
  <2>1. CASE z = p
    BY <2>0, <2>1, <1>1, <1>2
  <2>2. CASE z # p
    <3>1. pend2[z] = pend[z] /\ hi2[z] = hi[z] /\ (pend[z] # NoPage => hi2[pend[z]] = hi[pend[z]])
      BY <2>0, <2>2, <1>1, <1>2
    <3> QED
      BY <3>1, <2>0
  <2> QED
    BY <2>1, <2>2
<1>6. ASSUME NEW z \in Pages(nd), z # p PROVE PageOK(nd2, pend2, lv2, lo2, hi2, z)
  <2>1. PageOK(nd, pend, lv, lo, hi, z) /\ z \in Page /\ z # q
    BY <1>4 DEF Tree
  <2>2. nd2[z] = nd[z] /\ lv2[z] = lv[z] /\ lo2[z] = lo[z] /\ hi2[z] = hi[z]
    BY <2>1, <1>6, <1>2
  <2>3. nd[z].kind = "internal" => \A i \in 1 .. Len(nd[z].children) :
           LET c == nd[z].children[i]
           IN /\ c \in Pages(nd2) /\ lv2[c] = lv[c] /\ lo2[c] = lo[c]
              /\ Ends(pend2, hi2)[c] = Ends(pend, hi)[c]
    <3> SUFFICES ASSUME nd[z].kind = "internal", NEW i \in 1 .. Len(nd[z].children)
                 PROVE LET c == nd[z].children[i]
                       IN c \in Pages(nd2) /\ lv2[c] = lv[c] /\ lo2[c] = lo[c] /\ end2[c] = end[c]
      OBVIOUS
    <3>1. nd[z].children[i] \in Pages(nd)
      BY <2>1, Children
    <3> QED
      BY <3>1, <1>2, <1>3, <1>4, <1>5
  <2>4. nd[z].kind = "leaf" /\ hi[z] # Ceiling =>
           nd2[nd[z].next].kind = "leaf" /\ lo2[nd[z].next] = lo[nd[z].next]
    <3> SUFFICES ASSUME nd[z].kind = "leaf", hi[z] # Ceiling
                 PROVE nd2[nd[z].next].kind = "leaf" /\ lo2[nd[z].next] = lo[nd[z].next]
      OBVIOUS
    <3>1. nd[z].next \in Pages(nd) /\ nd[nd[z].next].kind = "leaf"
      BY <2>1, NextLeaf
    <3> QED
      BY <3>1, <1>2, <1>4
  <2>5. Unmoved(nd, pend, lv, lo, hi, nd2, pend2, lv2, lo2, hi2, z)
    BY <2>2, <2>3, <2>4 DEF Unmoved
  <2> QED
    BY <2>1, <2>5, PageKept
<1>7. Typed(nd2, top, pend2, lv2, lo2, hi2)
  BY <1>2, <1>3 DEF Tree, Typed
<1>8. Spread(nd2, lo2, hi2)
  <2>1. ASSUME NEW z \in Pages(nd) PROVE Bottom <= lo2[z] /\ lo2[z] < hi2[z] /\ hi2[z] <= Ceiling
    <3>1. Bottom <= lo[z] /\ lo[z] < hi[z] /\ hi[z] <= Ceiling
      BY DEF Tree, Spread
    <3>2. z \in Page /\ z # q
      BY <1>4
    <3> QED
      BY <3>1, <3>2, <1>1, <1>2, Ranked
  <2>2. Bottom <= lo2[q] /\ lo2[q] < hi2[q] /\ hi2[q] <= Ceiling
    <3>1. Bottom <= lo[p] /\ hi[p] <= Ceiling
      BY DEF Tree, Spread
    <3> QED
      BY <3>1, <1>1, <1>2, Ranked
  <2> QED
    BY <2>1, <2>2, <1>3 DEF Spread
<1>9. Disjoint(nd2, lv2, lo2, hi2)
  <2>1. \A y, z \in Pages(nd) : y # z /\ lv[y] = lv[z] => hi[y] <= lo[z] \/ hi[z] <= lo[y]
    BY DEF Tree, Disjoint
  <2>2. ASSUME NEW y \in Pages(nd), NEW z \in Pages(nd), y # z, lv2[y] = lv2[z]
        PROVE  hi2[y] <= lo2[z] \/ hi2[z] <= lo2[y]
    <3>1. y \in Page /\ z \in Page /\ y # q /\ z # q
      BY <1>4
    <3>2. hi[y] <= lo[z] \/ hi[z] <= lo[y]
      BY <2>1, <2>2, <3>1, <1>2
    <3>3. hi2[y] <= hi[y] /\ hi2[z] <= hi[z]
      BY <3>1, <1>1, <1>2
    <3> QED
      BY <3>1, <3>2, <3>3, <1>1, <1>2
  <2>3. ASSUME NEW z \in Pages(nd), lv2[q] = lv2[z]
        PROVE  hi2[q] <= lo2[z] \/ hi2[z] <= lo2[q]
    <3>1. z \in Page /\ z # q
      BY <1>4
    <3>2. CASE z = p
      BY <3>1, <3>2, <1>1, <1>2
    <3>3. CASE z # p
      <4>1. hi[p] <= lo[z] \/ hi[z] <= lo[p]
        BY <2>1, <2>3, <3>1, <3>3, <1>2
      <4> QED
        BY <4>1, <3>1, <3>3, <1>1, <1>2
    <3> QED
      BY <3>2, <3>3
  <2> QED
    BY <2>2, <2>3, <1>3 DEF Disjoint
<1>10. Halves(nd2, pend2, lv2, lo2, hi2)
  <2> SUFFICES ASSUME NEW z \in Page, pend2[z] # NoPage
               PROVE  /\ z \in Pages(nd2) /\ pend2[z] \in Pages(nd2)
                      /\ lv2[pend2[z]] = lv2[z] /\ lo2[pend2[z]] = hi2[z]
                      /\ pend2[pend2[z]] = NoPage
    BY DEF Halves
  <2>1. CASE z = p
    BY <2>1, <1>1, <1>2, <1>3
  <2>2. CASE z # p
    <3>1. pend2[z] = pend[z] /\ z # q
      BY <2>2, <1>1, <1>2
    <3>2. /\ z \in Pages(nd) /\ pend[z] \in Pages(nd) /\ lv[pend[z]] = lv[z]
          /\ lo[pend[z]] = hi[z] /\ pend[pend[z]] = NoPage
      BY <3>1 DEF Tree, Halves
    <3>3. pend[z] # p /\ pend[z] # q /\ pend[z] \in Page
      BY <3>2, <1>4
    <3> QED
      BY <3>1, <3>2, <3>3, <2>2, <1>2, <1>3
  <2> QED
    BY <2>1, <2>2
<1>11. Rooted(nd2, top, pend2, lv2, lo2, hi2)
  <2>1. top # NoPage
    BY DEF Tree, Rooted
  <2>2. top \in Pages(nd) /\ lo[top] = Bottom /\ end[top] = Ceiling
        /\ \A z \in Pages(nd) : lv[z] <= lv[top]
    BY <2>1 DEF Tree, Rooted, Typed
  <2>3. lo2[top] = Bottom /\ end2[top] = Ceiling
    BY <2>2, <1>2, <1>4, <1>5
  <2>4. \A z \in Pages(nd2) : lv2[z] <= lv2[top]
    BY <2>2, <1>2, <1>3, <1>4
  <2> QED
    BY <2>1, <2>3, <2>4 DEF Rooted
<1>12. Owned(nd2, top, pend2)
  <2> SUFFICES ASSUME NEW z \in Pages(nd2)
               PROVE  z = top \/ \E r \in Page : ChildOf(nd2, z, r) \/ pend2[r] = z
    BY DEF Owned
  <2>1. CASE z = q
    BY <2>1, <1>1, <1>2
  <2>2. CASE z \in Pages(nd)
    <3>1. z = top \/ (\E r \in Page : ChildOf(nd, z, r)) \/ (\E r \in Page : pend[r] = z)
      BY <2>2 DEF Tree, Owned
    <3>2. ASSUME NEW r \in Page, ChildOf(nd, z, r) PROVE \E s \in Page : ChildOf(nd2, z, s)
      <4>1. CASE r = p
        BY <4>1, <3>2, <1>1
      <4>2. CASE r # p
        <5>1. r # q
          BY <3>2, <1>4 DEF ChildOf, Pages
        <5>2. nd2[r] = nd[r]
          BY <4>2, <5>1
        <5> QED
          BY <5>2, <3>2 DEF ChildOf
      <4> QED
        BY <4>1, <4>2
    <3>3. ASSUME NEW r \in Page, pend[r] = z PROVE pend2[r] = z
      <4>1. r # p
        BY <3>3, <1>1, <2>2, <1>4, NoPageIsNone
      <4> QED
        BY <4>1, <3>3, <1>2
    <3> QED
      BY <3>1, <3>2, <3>3
  <2> QED
    BY <2>1, <2>2, <1>3
<1> QED
  BY <1>3, <1>6, <1>7, <1>8, <1>9, <1>10, <1>11, <1>12 DEF Tree

\* Two pages of a level that end at the same point are the same.
LEMMA SameEnd ==
  ASSUME NEW nd, NEW top, NEW pend, NEW lv, NEW lo, NEW hi, Tree(nd, top, pend, lv, lo, hi),
         NEW p \in Pages(nd), NEW q \in Pages(nd), lv[p] = lv[q], hi[p] = hi[q]
  PROVE  p = q
<1>1. /\ lo[p] \in Int /\ hi[p] \in Int /\ lo[q] \in Int /\ hi[q] \in Int
      /\ lo[p] < hi[p] /\ lo[q] < hi[q]
  BY DEF Tree, Typed, Pages, Spread
<1>2. hi[p] - 1 \in Int /\ lo[p] <= hi[p] - 1 /\ hi[p] - 1 < hi[p] /\ lo[q] <= hi[p] - 1
      /\ hi[p] - 1 < hi[q]
  BY <1>1
<1> QED
  BY <1>2, SamePlace

\* The other half of a child is given to the child's parent.
LEMMA Adopted ==
  ASSUME NEW nd, NEW top, NEW pend, NEW lv, NEW lo, NEW hi, Tree(nd, top, pend, lv, lo, hi),
         EntriesBounded, NEW p \in Page, nd[p].kind = "internal",
         NEW m \in 1 .. Len(nd[p].children), NEW l, l = nd[p].children[m],
         NEW q \in Page, q = pend[l], NEW s \in Entry, Rank(s) = lo[q],
         NEW nd2, nd2 = [nd EXCEPT ![p] = InternalNode(InsertAt(nd[p].children, m + 1, q),
                                                       InsertAt(nd[p].seps, m, s))],
         NEW pend2, pend2 = [pend EXCEPT ![l] = NoPage]
  PROVE  Tree(nd2, top, pend2, lv, lo, hi)
<1> DEFINE end == Ends(pend, hi)
           end2 == Ends(pend2, hi)
           u == nd[p].children
           w == nd[p].seps
<1>1. /\ p \in Pages(nd) /\ NodeOK(nd, pend, lv, lo, hi, p)
      /\ u \in Seq(Page) /\ w \in Seq(Entry) /\ Len(u) \in Nat /\ Len(u) = Len(w) + 1
      /\ Len(w) \in Nat /\ lv[l] + 1 = lv[p] /\ l \in Pages(nd) /\ ChildOf(nd, l, p)
      /\ \A i \in 1 .. Len(u) : u[i] \in Pages(nd)
      /\ \A i \in 1 .. Len(u) : u[i] = l => i = m
  BY Children
<1>2. l \in Page /\ q # NoPage /\ pend[l] # NoPage
  BY <1>1, NoPageIsNone DEF Pages
<1>3. q \in Pages(nd) /\ lv[q] = lv[l] /\ lo[q] = hi[l] /\ pend[q] = NoPage
  BY <1>2 DEF Tree, Halves
<1>4. /\ lo[l] \in Int /\ hi[l] \in Int /\ lo[l] < hi[l] /\ end[l] = hi[q] /\ hi[l] < end[l]
      /\ end[q] = hi[q] /\ lo[p] \in Int /\ hi[p] \in Int /\ q # l
  BY <1>1, <1>2, <1>3, EndsAfter, SMTT(60)
<1>5. q # top /\ \A z : ~ChildOf(nd, q, z)
  <2>1. pend[l] # top /\ \A z : ~ChildOf(nd, pend[l], z)
    <3>1. Tree(nd, top, pend, lv, lo, hi) /\ EntriesBounded /\ l \in Page /\ pend[l] # NoPage
      BY <1>2
    <3> QED
      BY ONLY <3>1, PendingNoChild
  <2> QED
    BY <2>1
<1>6. /\ pend2[l] = NoPage /\ \A z \in Page : z # l => pend2[z] = pend[z]
      /\ pend2 \in [Page -> Page \cup {NoPage}]
  BY <1>2 DEF Tree, Typed
<1>7. /\ end2[l] = hi[l] /\ end2[q] = end[l]
      /\ \A z \in Page : z # l => end2[z] = end[z]
  BY <1>2, <1>3, <1>4, <1>6 DEF Ends
<1> HIDE DEF end, end2
<1>8. /\ InsertAt(u, m + 1, q) \in Seq(Page) /\ InsertAt(w, m, s) \in Seq(Entry)
      /\ Len(InsertAt(u, m + 1, q)) = Len(u) + 1
      /\ \A j \in 1 .. m : InsertAt(u, m + 1, q)[j] = u[j]
      /\ InsertAt(u, m + 1, q)[m + 1] = q
      /\ \A j \in m + 2 .. Len(u) + 1 : InsertAt(u, m + 1, q)[j] = u[j - 1]
  <2> DEFINE g == m + 1
  <2>1. g \in 1 .. Len(u) + 1 /\ m \in 1 .. Len(w) + 1 /\ g - 1 = m /\ g + 1 = m + 2
    BY <1>1
  <2> HIDE DEF g, u, w
  <2>2. /\ InsertAt(u, g, q) \in Seq(Page)
        /\ Len(InsertAt(u, g, q)) = Len(u) + 1
        /\ \A j \in 1 .. g - 1 : InsertAt(u, g, q)[j] = u[j]
        /\ InsertAt(u, g, q)[g] = q
        /\ \A j \in g + 1 .. Len(u) + 1 : InsertAt(u, g, q)[j] = u[j - 1]
    BY <2>1, <1>1, PageInserted
  <2>3. InsertAt(w, m, s) \in Seq(Entry)
    BY <2>1, <1>1, EntryInserted
  <2> QED
    BY <2>1, <2>2, <2>3 DEF g
<1> DEFINE u2 == InsertAt(u, m + 1, q)
           w2 == InsertAt(w, m, s)
<1>9. Row(u2, w2, lo[p], hi[p], lv[p], Pages(nd), lv, lo, end2)
  <2>1. Row(u, w, lo[p], hi[p], lv[p], Pages(nd), lv, lo, end)
    BY <1>1 DEF NodeOK, end
  <2>2. \A i \in 1 .. Len(u) : i # m => end2[u[i]] = end[u[i]]
    BY <1>1, <1>7 DEF Pages
  <2>3. /\ m \in 1 .. Len(u) /\ q \in Pages(nd) /\ lv[q] + 1 = lv[p]
        /\ lo[u[m]] < Rank(s) /\ Rank(s) < end[u[m]]
        /\ end2[u[m]] = Rank(s) /\ end2[q] = end[u[m]]
    BY <1>1, <1>3, <1>4, <1>7
  <2>4. lo[p] \in Int /\ hi[p] \in Int
    BY <1>4
  <2> HIDE DEF u, w
  <2> QED
    BY <2>1, <2>2, <2>3, <2>4, RowAdopted, ZenonT(60)
<1>10. /\ nd2 \in [Page -> PageRecords] /\ nd2[p] = InternalNode(u2, w2)
       /\ \A z \in Page : z # p => nd2[z] = nd[z]
  <2>1. InternalNode(u2, w2) \in PageRecords
    BY <1>8 DEF PageRecords, NodeRecords, InternalNode
  <2> QED
    BY <2>1 DEF Tree, Typed
<1>11. nd2[p].kind = "internal" /\ nd2[p].children = u2 /\ nd2[p].seps = w2
  BY <1>10 DEF InternalNode
<1> HIDE DEF u2, w2
<1>12. Pages(nd2) = Pages(nd)
  BY <1>10, <1>11 DEF Pages
<1>13. ASSUME NEW z \in Pages(nd) PROVE PageOK(nd2, pend2, lv, lo, hi, z)
  <2>1. PageOK(nd, pend, lv, lo, hi, z) /\ z \in Page
    BY DEF Tree, Pages
  <2>2. CASE z = p
    BY <2>2, <1>9, <1>11, <1>12 DEF PageOK, NodeOK, end2
  <2>3. CASE z # p
    <3>1. nd[z].kind = "internal" => \A i \in 1 .. Len(nd[z].children) :
             LET c == nd[z].children[i]
             IN c \in Pages(nd2) /\ Ends(pend2, hi)[c] = Ends(pend, hi)[c]
      <4> SUFFICES ASSUME nd[z].kind = "internal", NEW i \in 1 .. Len(nd[z].children)
                   PROVE LET c == nd[z].children[i]
                         IN c \in Pages(nd2) /\ Ends(pend2, hi)[c] = Ends(pend, hi)[c]
        OBVIOUS
      <4> DEFINE c == nd[z].children[i]
      <4>1. c \in Pages(nd) /\ ChildOf(nd, c, z)
        BY <2>1, Children
      <4>2. c # l
        BY <4>1, <1>1, <2>3, OneParent
      <4> QED
        BY <4>1, <4>2, <1>7, <1>12 DEF Pages, end, end2
    <3>2. nd[z].kind = "leaf" /\ hi[z] # Ceiling => nd2[nd[z].next].kind = "leaf"
      <4> SUFFICES ASSUME nd[z].kind = "leaf", hi[z] # Ceiling PROVE nd2[nd[z].next].kind = "leaf"
        OBVIOUS
      <4>1. nd[z].next \in Page /\ nd[nd[z].next].kind = "leaf"
        BY <2>1, NextLeaf DEF Pages
      <4> QED
        BY <4>1, <1>10
    <3>3. Unmoved(nd, pend, lv, lo, hi, nd2, pend2, lv, lo, hi, z)
      BY <2>1, <2>3, <3>1, <3>2, <1>10 DEF Unmoved
    <3> QED
      BY <2>1, <3>3, PageKept
  <2> QED
    BY <2>2, <2>3
<1>14. Typed(nd2, top, pend2, lv, lo, hi) /\ Spread(nd2, lo, hi) /\ Disjoint(nd2, lv, lo, hi)
  BY <1>6, <1>10, <1>12 DEF Tree, Typed, Spread, Disjoint
<1>15. Halves(nd2, pend2, lv, lo, hi)
  BY <1>6, <1>12 DEF Tree, Halves
<1>16. Rooted(nd2, top, pend2, lv, lo, hi)
  <2>1. top # NoPage /\ top \in Page
    BY <1>1 DEF Tree, Rooted, Typed, Pages
  <2>2. top # l
    BY <1>1, TopNoChild
  <2>3. Ends(pend2, hi)[top] = Ends(pend, hi)[top]
    BY <2>1, <2>2, <1>7 DEF end, end2
  <2> QED
    BY <2>1, <2>3, <1>12 DEF Tree, Rooted
<1>17. Owned(nd2, top, pend2)
  <2> SUFFICES ASSUME NEW z \in Pages(nd)
               PROVE  z = top \/ \E r \in Page : ChildOf(nd2, z, r) \/ pend2[r] = z
    BY <1>12 DEF Owned
  <2>1. CASE z = q
    <3>1. m + 1 \in 1 .. Len(u2) /\ u2[m + 1] = q
      BY <1>1, <1>8 DEF u2
    <3>2. ChildOf(nd2, z, p)
      BY <2>1, <3>1, <1>11 DEF ChildOf
    <3> QED
      BY <3>2
  <2>2. CASE z # q
    <3>1. z = top \/ (\E r \in Page : ChildOf(nd, z, r)) \/ (\E r \in Page : pend[r] = z)
      BY DEF Tree, Owned
    <3>2. ASSUME NEW r \in Page, ChildOf(nd, z, r) PROVE ChildOf(nd2, z, r)
      <4>1. CASE r = p
        <5>1. PICK i \in 1 .. Len(u) : u[i] = z
          BY <3>2, <4>1 DEF ChildOf
        <5>2. CASE i \in 1 .. m
          <6>1. i \in 1 .. Len(u2) /\ u2[i] = z
            BY <5>1, <5>2, <1>1, <1>8, SMTT(60) DEF u2
          <6> QED
            BY <6>1, <4>1, <1>11 DEF ChildOf
        <5>3. CASE i \notin 1 .. m
          <6>1. i + 1 \in m + 2 .. Len(u) + 1 /\ i + 1 \in 1 .. Len(u) + 1 /\ (i + 1) - 1 = i
            BY <5>1, <5>3, <1>1
          <6>2. i + 1 \in 1 .. Len(u2) /\ u2[i + 1] = u[(i + 1) - 1]
            BY <6>1, <1>8 DEF u2
          <6>3. u2[i + 1] = z
            BY <6>1, <6>2, <5>1
          <6> QED
            BY <6>2, <6>3, <4>1, <1>11 DEF ChildOf
        <5> QED
          BY <5>2, <5>3
      <4>2. CASE r # p
        BY <3>2, <4>2, <1>10 DEF ChildOf
      <4> QED
        BY <4>1, <4>2
    <3>3. ASSUME NEW r \in Page, pend[r] = z PROVE pend2[r] = z
      BY <3>3, <2>2, <1>6
    <3> QED
      BY <3>1, <3>2, <3>3
  <2> QED
    BY <2>1, <2>2
<1> QED
  BY <1>12, <1>13, <1>14, <1>15, <1>16, <1>17 DEF Tree

\* The root has been split: a new root is put above its halves.
LEMMA Grown ==
  ASSUME NEW nd, NEW top, NEW pend, NEW lv, NEW lo, NEW hi, Tree(nd, top, pend, lv, lo, hi),
         EntriesBounded, top # NoPage, NEW q \in Page, q = pend[top],
         NEW p \in Page, p \notin Pages(nd), NEW s \in Entry, Rank(s) = lo[q],
         NEW nd2, nd2 = [nd EXCEPT ![p] = InternalNode(<<top, q>>, <<s>>)],
         NEW pend2, pend2 = [pend EXCEPT ![top] = NoPage],
         NEW lv2, lv2 = [lv EXCEPT ![p] = lv[top] + 1],
         NEW lo2, lo2 = [lo EXCEPT ![p] = Bottom],
         NEW hi2, hi2 = [hi EXCEPT ![p] = Ceiling]
  PROVE  Tree(nd2, p, pend2, lv2, lo2, hi2)
<1> DEFINE end == Ends(pend, hi)
           end2 == Ends(pend2, hi2)
<1>1. top \in Page /\ top \in Pages(nd) /\ q # NoPage /\ p # NoPage
  BY NoPageIsNone DEF Tree, Typed, Pages
<1>2. q \in Pages(nd) /\ lv[q] = lv[top] /\ lo[q] = hi[top] /\ pend[q] = NoPage
  BY <1>1 DEF Tree, Halves
<1>3. /\ lo[top] \in Int /\ hi[top] \in Int /\ lo[top] < hi[top] /\ hi[top] < end[top]
      /\ end[top] = hi[q] /\ end[q] = hi[q] /\ q # top /\ lo[q] \in Int /\ hi[q] \in Int
      /\ lo[q] < hi[q] /\ lv[top] \in Nat
  BY <1>1, <1>2, EndsAfter
<1>4. lo[top] = Bottom /\ end[top] = Ceiling /\ \A z \in Pages(nd) : lv[z] <= lv[top]
  BY DEF Tree, Rooted
<1>5. Bottom \in Int /\ Ceiling \in Int /\ Bottom < Ceiling
  BY Ranked
<1>6. /\ pend2[top] = NoPage /\ \A z \in Page : z # top => pend2[z] = pend[z]
      /\ pend2 \in [Page -> Page \cup {NoPage}]
      /\ lv2[p] = lv[top] + 1 /\ \A z \in Page : z # p => lv2[z] = lv[z]
      /\ lo2[p] = Bottom /\ \A z \in Page : z # p => lo2[z] = lo[z]
      /\ hi2[p] = Ceiling /\ \A z \in Page : z # p => hi2[z] = hi[z]
      /\ lv2 \in [Page -> Nat] /\ lo2 \in [Page -> Int] /\ hi2 \in [Page -> Int]
  BY <1>1, <1>3, <1>5 DEF Tree, Typed
<1>7. \A z \in Pages(nd) : z \in Page /\ z # p
  BY DEF Pages
<1>8. pend[p] = NoPage /\ \A z \in Page : pend[z] # p
  <2>1. \A z \in Page : pend[z] # NoPage => z \in Pages(nd) /\ pend[z] \in Pages(nd)
    BY DEF Tree, Halves
  <2> QED
    BY <2>1, <1>1, <1>7
<1>9. /\ end2[top] = hi[top] /\ end2[q] = end[top] /\ end2[p] = Ceiling
      /\ \A z \in Page : z # top /\ z # p => end2[z] = end[z]
  <2>1. end2[top] = hi[top]
    BY <1>1, <1>6, <1>7 DEF Ends
  <2>2. end2[p] = Ceiling
    BY <1>1, <1>6, <1>7, <1>8 DEF Ends
  <2>3. ASSUME NEW z \in Page, z # top, z # p PROVE end2[z] = end[z]
    <3>1. pend2[z] = pend[z] /\ hi2[z] = hi[z] /\ (pend[z] # NoPage => hi2[pend[z]] = hi[pend[z]])
      <4>1. pend[z] \in Page \cup {NoPage} /\ pend[z] # p
        BY <1>8 DEF Tree, Typed
      <4> QED
        BY <4>1, <2>3, <1>6
    <3> QED
      BY <3>1 DEF Ends
  <2>4. end2[q] = end[top]
    BY <2>3, <1>2, <1>3, <1>7
  <2> QED
    BY <2>1, <2>2, <2>3, <2>4
<1> HIDE DEF end, end2
<1> DEFINE u == <<top, q>>
           w == <<s>>
<1>10. /\ nd2 \in [Page -> PageRecords] /\ nd2[p] = InternalNode(u, w)
       /\ \A z \in Page : z # p => nd2[z] = nd[z]
  <2>1. u \in Seq(Page) /\ w \in Seq(Entry)
    BY <1>1
  <2>2. InternalNode(u, w) \in PageRecords
    BY <2>1 DEF PageRecords, NodeRecords, InternalNode
  <2> QED
    BY <2>2 DEF Tree, Typed
<1>11. nd2[p].kind = "internal" /\ nd2[p].children = u /\ nd2[p].seps = w
  BY <1>10 DEF InternalNode
<1>12. Pages(nd2) = Pages(nd) \cup {p}
  BY <1>10, <1>11 DEF Pages
<1>13. Row(u, w, Bottom, Ceiling, lv2[p], Pages(nd2), lv2, lo2, end2)
  <2>1. /\ u \in Seq(Page) /\ w \in Seq(Entry) /\ Len(u) = 2 /\ Len(w) = 1
        /\ u[1] = top /\ u[2] = q /\ w[1] = s
    BY <1>1
  <2> HIDE DEF u, w
  <2>2. Bottom < Rank(s) /\ Rank(s) < Ceiling
    BY <1>2, <1>3, <1>4, <1>5
  <2>3. ASSUME NEW i \in 1 .. Len(u)
        PROVE  /\ u[i] \in Pages(nd2) /\ lv2[u[i]] + 1 = lv2[p]
               /\ lo2[u[i]] = From(w, Bottom, i) /\ end2[u[i]] = To(w, Ceiling, i)
    <3>1. top # p /\ q # p
      BY <1>1, <1>2, <1>7
    <3>4. /\ lv2[top] + 1 = lv2[p] /\ lo2[top] = Bottom /\ end2[top] = Rank(s)
          /\ lv2[q] + 1 = lv2[p] /\ lo2[q] = Rank(s) /\ end2[q] = Ceiling
          /\ top \in Pages(nd2) /\ q \in Pages(nd2)
      BY <3>1, <1>1, <1>2, <1>4, <1>6, <1>9, <1>12
    <3>2. CASE i = 1
      <4>1. From(w, Bottom, i) = Bottom /\ To(w, Ceiling, i) = Rank(s)
        BY <2>1, <3>2 DEF From, To
      <4> QED
        BY <4>1, <3>2, <3>4, <2>1
    <3>3. CASE i = 2
      <4>1. From(w, Bottom, i) = Rank(s) /\ To(w, Ceiling, i) = Ceiling
        BY <2>1, <3>3 DEF From, To
      <4> QED
        BY <4>1, <3>3, <3>4, <2>1
    <3> QED
      BY <3>2, <3>3, <2>1
  <2>4. \A i, j \in 1 .. Len(w) : i < j => Rank(w[i]) < Rank(w[j])
    BY <2>1
  <2>5. \A i \in 1 .. Len(w) : Bottom < Rank(w[i]) /\ Rank(w[i]) < Ceiling
    BY <2>1, <2>2
  <2> QED
    BY <2>1, <2>3, <2>4, <2>5, <1>5 DEF Row
<1>14. PageOK(nd2, pend2, lv2, lo2, hi2, p)
  BY <1>13, <1>11, <1>6, <1>1 DEF PageOK, NodeOK, end2
<1> HIDE DEF u, w
<1>15. ASSUME NEW z \in Pages(nd) PROVE PageOK(nd2, pend2, lv2, lo2, hi2, z)
  <2>1. PageOK(nd, pend, lv, lo, hi, z) /\ z \in Page /\ z # p
    BY <1>7 DEF Tree
  <2>2. nd2[z] = nd[z] /\ lv2[z] = lv[z] /\ lo2[z] = lo[z] /\ hi2[z] = hi[z]
    BY <2>1, <1>6, <1>10
  <2>3. nd[z].kind = "internal" => \A i \in 1 .. Len(nd[z].children) :
           LET c == nd[z].children[i]
           IN /\ c \in Pages(nd2) /\ lv2[c] = lv[c] /\ lo2[c] = lo[c]
              /\ Ends(pend2, hi2)[c] = Ends(pend, hi)[c]
    <3> SUFFICES ASSUME nd[z].kind = "internal", NEW i \in 1 .. Len(nd[z].children)
                 PROVE LET c == nd[z].children[i]
                       IN /\ c \in Pages(nd2) /\ lv2[c] = lv[c] /\ lo2[c] = lo[c]
                          /\ end2[c] = end[c]
      BY DEF end, end2
    <3> DEFINE c == nd[z].children[i]
    <3>1. c \in Pages(nd) /\ ChildOf(nd, c, z)
      BY <2>1, Children
    <3>2. c # top /\ c # p /\ c \in Page
      BY <3>1, TopNoChild, <1>7
    <3> QED
      BY <3>1, <3>2, <1>6, <1>9, <1>12
  <2>4. nd[z].kind = "leaf" /\ hi[z] # Ceiling =>
           nd2[nd[z].next].kind = "leaf" /\ lo2[nd[z].next] = lo[nd[z].next]
    <3> SUFFICES ASSUME nd[z].kind = "leaf", hi[z] # Ceiling
                 PROVE nd2[nd[z].next].kind = "leaf" /\ lo2[nd[z].next] = lo[nd[z].next]
      OBVIOUS
    <3>1. nd[z].next \in Pages(nd) /\ nd[nd[z].next].kind = "leaf"
      BY <2>1, NextLeaf
    <3> QED
      BY <3>1, <1>6, <1>7, <1>10
  <2>5. Unmoved(nd, pend, lv, lo, hi, nd2, pend2, lv2, lo2, hi2, z)
    BY <2>2, <2>3, <2>4 DEF Unmoved
  <2> QED
    BY <2>1, <2>5, PageKept
<1>16. Typed(nd2, p, pend2, lv2, lo2, hi2)
  BY <1>6, <1>10, <1>12 DEF Typed
<1>17. Spread(nd2, lo2, hi2)
  <2>1. \A z \in Pages(nd) : Bottom <= lo[z] /\ lo[z] < hi[z] /\ hi[z] <= Ceiling
    BY DEF Tree, Spread
  <2> QED
    BY <2>1, <1>5, <1>6, <1>7, <1>12 DEF Spread
<1>18. Disjoint(nd2, lv2, lo2, hi2)
  <2>1. \A y, z \in Pages(nd) : y # z /\ lv[y] = lv[z] => hi[y] <= lo[z] \/ hi[z] <= lo[y]
    BY DEF Tree, Disjoint
  <2>2. \A z \in Pages(nd) : lv2[z] # lv2[p]
    <3>1. \A z \in Pages(nd) : lv[z] \in Nat
      BY <1>7 DEF Tree, Typed
    <3> QED
      BY <3>1, <1>3, <1>4, <1>6, <1>7
  <2> QED
    BY <2>1, <2>2, <1>6, <1>7, <1>12 DEF Disjoint
<1>19. Halves(nd2, pend2, lv2, lo2, hi2)
  <2> SUFFICES ASSUME NEW z \in Page, pend2[z] # NoPage
               PROVE  /\ z \in Pages(nd2) /\ pend2[z] \in Pages(nd2)
                      /\ lv2[pend2[z]] = lv2[z] /\ lo2[pend2[z]] = hi2[z]
                      /\ pend2[pend2[z]] = NoPage
    BY DEF Halves
  <2>1. z # top /\ pend2[z] = pend[z]
    BY <1>6
  <2>2. /\ z \in Pages(nd) /\ pend[z] \in Pages(nd) /\ lv[pend[z]] = lv[z]
        /\ lo[pend[z]] = hi[z] /\ pend[pend[z]] = NoPage
    BY <2>1 DEF Tree, Halves
  <2>3. pend[z] # p /\ z # p /\ pend[z] \in Page
    BY <2>2, <1>7
  <2>4. pend2[pend[z]] = NoPage
    BY <2>2, <2>3, <1>6
  <2> QED
    BY <2>1, <2>2, <2>3, <2>4, <1>6, <1>12
<1>20. Rooted(nd2, p, pend2, lv2, lo2, hi2)
  <2>1. \A z \in Pages(nd) : lv[z] \in Nat
    BY <1>7 DEF Tree, Typed
  <2>2. \A z \in Pages(nd2) : lv2[z] <= lv2[p]
    BY <2>1, <1>3, <1>4, <1>6, <1>7, <1>12
  <2> QED
    BY <2>2, <1>1, <1>6, <1>9 DEF Rooted, end2
<1>21. Owned(nd2, p, pend2)
  <2> SUFFICES ASSUME NEW z \in Pages(nd)
               PROVE  z = p \/ \E r \in Page : ChildOf(nd2, z, r) \/ pend2[r] = z
    BY <1>12 DEF Owned
  <2>1. u[1] = top /\ u[2] = q /\ Len(u) = 2
    BY DEF u
  <2>2. CASE z = q \/ z = top
    <3>1. ChildOf(nd2, z, p)
      BY <2>1, <2>2, <1>11 DEF ChildOf
    <3> QED
      BY <3>1
  <2>3. CASE z # q /\ z # top
    <3>1. (\E r \in Page : ChildOf(nd, z, r)) \/ (\E r \in Page : pend[r] = z)
      BY <2>3 DEF Tree, Owned
    <3>2. ASSUME NEW r \in Page, ChildOf(nd, z, r) PROVE ChildOf(nd2, z, r)
      <4>1. r # p
        BY <3>2, <1>7 DEF ChildOf, Pages
      <4> QED
        BY <4>1, <3>2, <1>10 DEF ChildOf
    <3>3. ASSUME NEW r \in Page, pend[r] = z PROVE pend2[r] = z
      BY <3>3, <2>3, <1>6
    <3> QED
      BY <3>1, <3>2, <3>3
  <2> QED
    BY <2>2, <2>3
<1> QED
  BY <1>12, <1>14, <1>15, <1>16, <1>17, <1>18, <1>19, <1>20, <1>21 DEF Tree

\* A root that is a leaf is the only page.
LEMMA TopAlone ==
  ASSUME NEW nd, NEW top, NEW pend, NEW lv, NEW lo, NEW hi, Tree(nd, top, pend, lv, lo, hi),
         EntriesBounded, top \in Page, nd[top].kind = "leaf", pend[top] = NoPage
  PROVE  Pages(nd) = {top} /\ \A z \in Page : pend[z] = NoPage
<1>1. top # NoPage /\ top \in Pages(nd)
  BY NoPageIsNone DEF Pages
<1>2. lv[top] = 0 /\ lo[top] = Bottom /\ hi[top] = Ceiling /\ \A z \in Pages(nd) : lv[z] <= lv[top]
  BY <1>1, NextLeaf, EndsAfter DEF Tree, Rooted
<1>3. ASSUME NEW z \in Pages(nd) PROVE z = top
  <2>1. lv[z] \in Nat /\ lo[z] \in Int /\ hi[z] \in Int /\ lo[z] < hi[z] /\ Bottom <= lo[z]
        /\ hi[z] <= Ceiling
    BY EndsAfter
  <2>2. lv[z] = lv[top]
    BY <2>1, <1>2
  <2>3. Bottom \in Int /\ Ceiling \in Int
    BY Ranked
  <2>4. lo[top] <= lo[z] /\ lo[z] < hi[top]
    BY <2>1, <2>3, <1>2
  <2>5. lo[z] <= lo[z]
    BY <2>1
  <2> QED
    BY <1>1, <2>1, <2>2, <2>4, <2>5, SamePlace
<1>4. \A z \in Page : pend[z] = NoPage
  BY <1>3 DEF Tree, Halves
<1> QED
  BY <1>1, <1>3, <1>4

\* The last page goes.
LEMMA Felled ==
  ASSUME NEW nd, NEW top, NEW pend, NEW lv, NEW lo, NEW hi, Tree(nd, top, pend, lv, lo, hi),
         EntriesBounded, top \in Page, nd[top].kind = "leaf", pend[top] = NoPage,
         NEW nd2 \in [Page -> PageRecords], Pages(nd2) = {}
  PROVE  Tree(nd2, NoPage, pend, lv, lo, hi)
<1>1. \A z \in Page : pend[z] = NoPage
  BY TopAlone
<1>2. Typed(nd2, NoPage, pend, lv, lo, hi)
  BY DEF Tree, Typed
<1>3. Spread(nd2, lo, hi) /\ Disjoint(nd2, lv, lo, hi) /\ Owned(nd2, NoPage, pend)
  BY DEF Spread, Disjoint, Owned
<1>4. Halves(nd2, pend, lv, lo, hi) /\ Rooted(nd2, NoPage, pend, lv, lo, hi)
  BY <1>1 DEF Halves, Rooted
<1> QED
  BY <1>2, <1>3, <1>4 DEF Tree

\* The only child of the root takes its place.
LEMMA Shrunk ==
  ASSUME NEW nd, NEW top, NEW pend, NEW lv, NEW lo, NEW hi, Tree(nd, top, pend, lv, lo, hi),
         EntriesBounded, top \in Page, nd[top].kind = "internal", pend[top] = NoPage,
         Len(nd[top].children) = 1, NEW c, c = nd[top].children[1],
         NEW nd2, nd2 = [nd EXCEPT ![top] = Free]
  PROVE  Tree(nd2, c, pend, lv, lo, hi)
<1>1. /\ top \in Pages(nd) /\ nd[top].children \in Seq(Page)
      /\ c \in Pages(nd) /\ lv[c] + 1 = lv[top] /\ ChildOf(nd, c, top) /\ c # top
      /\ lo[c] = From(nd[top].seps, lo[top], 1)
      /\ Ends(pend, hi)[c] = To(nd[top].seps, hi[top], 1)
      /\ Len(nd[top].children) = Len(nd[top].seps) + 1 /\ Len(nd[top].seps) \in Nat
  <2>1. 1 \in 1 .. Len(nd[top].children)
    OBVIOUS
  <2> QED
    BY <2>1, Children
<1>2. c \in Page /\ c # NoPage /\ top # NoPage
  BY <1>1, NoPageIsNone DEF Pages
<1>3. lo[top] = Bottom /\ hi[top] = Ceiling /\ \A z \in Pages(nd) : lv[z] <= lv[top]
  BY <1>1, <1>2, EndsAfter DEF Tree, Rooted
<1>4. lo[c] = Bottom /\ Ends(pend, hi)[c] = Ceiling
  <2>1. Len(nd[top].seps) = 0
    <3>1. Len(nd[top].seps) \in Nat /\ 1 = Len(nd[top].seps) + 1
      BY <1>1
    <3> QED
      BY <3>1
  <2> QED
    BY <2>1, <1>1, <1>3 DEF From, To
<1>5. /\ nd2 \in [Page -> PageRecords] /\ nd2[top] = Free
      /\ \A z \in Page : z # top => nd2[z] = nd[z]
  BY DEF Tree, Typed, PageRecords
<1>6. Pages(nd2) = Pages(nd) \ {top}
  BY <1>5 DEF Pages, Free
<1>7. ASSUME NEW z \in Pages(nd2) PROVE lv[z] \in Nat /\ lv[z] <= lv[c]
  <2>1. z \in Pages(nd) /\ z # top
    BY <1>6
  <2>2. /\ lv[z] \in Nat /\ lo[z] \in Int /\ hi[z] \in Int /\ lo[z] < hi[z] /\ Bottom <= lo[z]
        /\ hi[z] <= Ceiling /\ lv[top] \in Nat /\ lv[c] \in Nat
    BY <2>1, <1>1, EndsAfter
  <2>3. Bottom \in Int /\ Ceiling \in Int
    BY Ranked
  <2>4. lo[top] <= lo[z] /\ lo[z] < hi[top] /\ lo[z] <= lo[z]
    BY <2>2, <2>3, <1>3
  <2>5. lv[z] # lv[top]
    BY <2>1, <1>1, <2>2, <2>4, SamePlace
  <2> QED
    BY <2>1, <2>2, <2>5, <1>1, <1>3
<1>8. \A z \in Page : pend[z] # top
  <2>1. ASSUME NEW z \in Page, pend[z] = top PROVE FALSE
    <3>1. pend[z] # NoPage
      BY <2>1, <1>2
    <3>2. pend[z] # top
      BY ONLY <3>1, PendingNoChild, Tree(nd, top, pend, lv, lo, hi), EntriesBounded, z \in Page
    <3> QED
      BY <3>2, <2>1
  <2> QED
    BY <2>1
<1>9. ASSUME NEW z \in Pages(nd2) PROVE PageOK(nd2, pend, lv, lo, hi, z)
  <2>1. PageOK(nd, pend, lv, lo, hi, z) /\ z \in Page /\ z # top
    BY <1>6 DEF Tree, Pages
  <2>2. nd[z].kind = "internal" => \A i \in 1 .. Len(nd[z].children) :
           nd[z].children[i] \in Pages(nd2)
    <3> SUFFICES ASSUME nd[z].kind = "internal", NEW i \in 1 .. Len(nd[z].children)
                 PROVE nd[z].children[i] \in Pages(nd2)
      OBVIOUS
    <3>1. nd[z].children[i] \in Pages(nd) /\ ChildOf(nd, nd[z].children[i], z)
      BY <2>1, Children
    <3>2. nd[z].children[i] # top
      BY <3>1, TopNoChild
    <3> QED
      BY <3>1, <3>2, <1>6
  <2>3. nd[z].kind = "leaf" /\ hi[z] # Ceiling => nd2[nd[z].next].kind = "leaf"
    <3> SUFFICES ASSUME nd[z].kind = "leaf", hi[z] # Ceiling PROVE nd2[nd[z].next].kind = "leaf"
      OBVIOUS
    <3>1. nd[z].next \in Page /\ nd[nd[z].next].kind = "leaf"
      BY <2>1, NextLeaf DEF Pages
    <3> QED
      BY <3>1, <1>5
  <2>4. Unmoved(nd, pend, lv, lo, hi, nd2, pend, lv, lo, hi, z)
    BY <2>1, <2>2, <2>3, <1>5 DEF Unmoved
  <2> QED
    BY <2>1, <2>4, PageKept
<1>10. Typed(nd2, c, pend, lv, lo, hi)
  BY <1>1, <1>5, <1>6 DEF Tree, Typed
<1>11. Spread(nd2, lo, hi) /\ Disjoint(nd2, lv, lo, hi)
  BY <1>6 DEF Tree, Spread, Disjoint
<1>12. Halves(nd2, pend, lv, lo, hi)
  <2> SUFFICES ASSUME NEW z \in Page, pend[z] # NoPage
               PROVE  /\ z \in Pages(nd2) /\ pend[z] \in Pages(nd2)
                      /\ lv[pend[z]] = lv[z] /\ lo[pend[z]] = hi[z]
                      /\ pend[pend[z]] = NoPage
    BY DEF Halves
  <2>1. z # top /\ pend[z] # top
    BY <1>8
  <2> QED
    BY <2>1, <1>6 DEF Tree, Halves
<1>13. Rooted(nd2, c, pend, lv, lo, hi)
  BY <1>2, <1>4, <1>7 DEF Rooted
<1>14. Owned(nd2, c, pend)
  <2> SUFFICES ASSUME NEW z \in Pages(nd2)
               PROVE  z = c \/ \E r \in Page : ChildOf(nd2, z, r) \/ pend[r] = z
    BY DEF Owned
  <2>1. (\E r \in Page : ChildOf(nd, z, r)) \/ (\E r \in Page : pend[r] = z)
    BY <1>6 DEF Tree, Owned
  <2>2. ASSUME NEW r \in Page, ChildOf(nd, z, r) PROVE z = c \/ ChildOf(nd2, z, r)
    <3>1. CASE r = top
      <4>1. PICK i \in 1 .. Len(nd[top].children) : nd[top].children[i] = z
        BY <2>2, <3>1 DEF ChildOf
      <4>2. i = 1
        BY <4>1
      <4> QED
        BY <4>1, <4>2
    <3>2. CASE r # top
      BY <3>2, <2>2, <1>5 DEF ChildOf
    <3> QED
      BY <3>1, <3>2
  <2> QED
    BY <2>1, <2>2
<1> QED
  BY <1>9, <1>10, <1>11, <1>12, <1>13, <1>14 DEF Tree

\* The first leaf of an empty tree.
LEMMA Planted ==
  ASSUME NEW nd, NEW pend, NEW lv, NEW lo, NEW hi, Tree(nd, NoPage, pend, lv, lo, hi),
         EntriesBounded, NEW p \in Page,
         NEW leaf \in LeafRecords, leaf.next = NoPage, Filed(leaf.entries, Bottom, Ceiling),
         NEW nd2, nd2 = [nd EXCEPT ![p] = leaf],
         NEW lv2, lv2 = [lv EXCEPT ![p] = 0],
         NEW lo2, lo2 = [lo EXCEPT ![p] = Bottom],
         NEW hi2, hi2 = [hi EXCEPT ![p] = Ceiling]
  PROVE  Tree(nd2, p, pend, lv2, lo2, hi2)
<1>1. Pages(nd) = {}
  BY DEF Tree, Rooted
<1>2. \A z \in Page : pend[z] = NoPage
  BY <1>1 DEF Tree, Halves
<1>3. Bottom \in Int /\ Ceiling \in Int /\ Bottom < Ceiling
  BY Ranked
<1>4. /\ nd2 \in [Page -> PageRecords] /\ nd2[p] = leaf
      /\ \A z \in Page : z # p => nd2[z] = nd[z]
      /\ lv2[p] = 0 /\ lo2[p] = Bottom /\ hi2[p] = Ceiling
      /\ lv2 \in [Page -> Nat] /\ lo2 \in [Page -> Int] /\ hi2 \in [Page -> Int]
      /\ pend \in [Page -> Page \cup {NoPage}]
  BY <1>3 DEF Tree, Typed, PageRecords
<1>5. leaf.kind = "leaf"
  BY DEF LeafRecords
<1>6. Pages(nd2) = {p}
  BY <1>1, <1>4, <1>5 DEF Pages
<1>7. p # NoPage
  BY NoPageIsNone
<1>8. PageOK(nd2, pend, lv2, lo2, hi2, p)
  BY <1>4, <1>5 DEF PageOK, LeafOK
<1>9. Typed(nd2, p, pend, lv2, lo2, hi2)
  BY <1>4, <1>6 DEF Typed
<1>10. /\ Spread(nd2, lo2, hi2) /\ Disjoint(nd2, lv2, lo2, hi2) /\ Owned(nd2, p, pend)
       /\ Halves(nd2, pend, lv2, lo2, hi2)
  <2>1. Spread(nd2, lo2, hi2)
    <3>1. Bottom <= lo2[p] /\ lo2[p] < hi2[p] /\ hi2[p] <= Ceiling
      BY <1>3, <1>4
    <3> QED
      BY <3>1, <1>6 DEF Spread
  <2>2. Disjoint(nd2, lv2, lo2, hi2)
    BY <1>6 DEF Disjoint
  <2>3. Owned(nd2, p, pend)
    BY <1>6 DEF Owned
  <2>4. Halves(nd2, pend, lv2, lo2, hi2)
    BY <1>2 DEF Halves
  <2> QED
    BY <2>1, <2>2, <2>3, <2>4
<1>11. Rooted(nd2, p, pend, lv2, lo2, hi2)
  <2>1. Ends(pend, hi2)[p] = Ceiling
    BY <1>2, <1>4 DEF Ends
  <2>2. \A z \in Pages(nd2) : lv2[z] <= lv2[p]
    BY <1>4, <1>6
  <2> QED
    BY <2>1, <2>2, <1>4, <1>7 DEF Rooted
<1> QED
  BY <1>6, <1>8, <1>9, <1>10, <1>11 DEF Tree

\* l and r are the children of p on the two sides of its separator m.
Adjacent(nd, top, pend, lv, lo, hi, p, m, l, r) ==
  /\ l \in Pages(nd) /\ r \in Pages(nd) /\ l \in Page /\ r \in Page
  /\ l # r /\ l # p /\ r # p /\ lv[l] = lv[r] /\ lv[l] + 1 = lv[p] /\ lv[l] \in Nat
  /\ lo[l] \in Int /\ hi[l] \in Int /\ lo[r] \in Int /\ hi[r] \in Int
  /\ lo[l] < hi[l] /\ hi[l] = lo[r] /\ lo[r] < hi[r] /\ hi[r] <= Ceiling
  /\ lo[r] = Rank(nd[p].seps[m]) /\ nd[p].seps[m] \in Entry
  /\ ChildOf(nd, l, p) /\ ChildOf(nd, r, p) /\ p \in Pages(nd)
  /\ Ends(pend, hi)[l] = hi[l] /\ Ends(pend, hi)[r] = hi[r]
  /\ m \in 1 .. Len(nd[p].children) /\ m + 1 \in 1 .. Len(nd[p].children)
  /\ \A i \in 1 .. Len(nd[p].children) :
       /\ nd[p].children[i] = l => i = m
       /\ nd[p].children[i] = r => i = m + 1
  /\ l # top /\ r # top
  /\ \A z \in Page : pend[z] # l /\ pend[z] # r

\* Neighbours under the same parent, neither of which is being split.
LEMMA Neighbours ==
  ASSUME NEW nd, NEW top, NEW pend, NEW lv, NEW lo, NEW hi, Tree(nd, top, pend, lv, lo, hi),
         EntriesBounded, NEW p \in Page, nd[p].kind = "internal",
         NEW m \in 1 .. Len(nd[p].seps), NEW l, l = nd[p].children[m],
         NEW r, r = nd[p].children[m + 1], pend[l] = NoPage, pend[r] = NoPage
  PROVE  Adjacent(nd, top, pend, lv, lo, hi, p, m, l, r)
<1> DEFINE u == nd[p].children
           w == nd[p].seps
           end == Ends(pend, hi)
<1>1. /\ p \in Pages(nd) /\ u \in Seq(Page) /\ w \in Seq(Entry) /\ Len(w) \in Nat
      /\ Len(u) = Len(w) + 1 /\ Len(u) \in Nat
      /\ \A i \in 1 .. Len(u) :
           /\ u[i] \in Pages(nd) /\ lv[u[i]] + 1 = lv[p] /\ ChildOf(nd, u[i], p) /\ u[i] # p
           /\ lo[u[i]] = From(w, lo[p], i) /\ end[u[i]] = To(w, hi[p], i)
      /\ \A i, j \in 1 .. Len(u) : u[i] = u[j] => i = j
  BY Children
<1>2. /\ m \in 1 .. Len(u) /\ m + 1 \in 1 .. Len(u) /\ m # m + 1 /\ m # Len(w) + 1
      /\ m + 1 # 1 /\ (m + 1) - 1 = m /\ w[m] \in Entry
  BY <1>1
<1>3. /\ l \in Pages(nd) /\ r \in Pages(nd) /\ l # r /\ l # p /\ r # p
      /\ lv[l] + 1 = lv[p] /\ lv[r] + 1 = lv[p] /\ ChildOf(nd, l, p) /\ ChildOf(nd, r, p)
      /\ end[l] = To(w, hi[p], m) /\ lo[r] = From(w, lo[p], m + 1)
  BY <1>1, <1>2
<1>4. end[l] = Rank(w[m]) /\ lo[r] = Rank(w[m])
  BY <1>2, <1>3 DEF From, To
<1>5. /\ l \in Page /\ r \in Page /\ lv[l] \in Nat /\ lv[r] \in Nat
      /\ lo[l] \in Int /\ hi[l] \in Int /\ lo[r] \in Int /\ hi[r] \in Int
      /\ lo[l] < hi[l] /\ lo[r] < hi[r] /\ hi[r] <= Ceiling
      /\ end[l] = hi[l] /\ end[r] = hi[r]
  BY <1>3, EndsAfter, SMTT(60)
<1>6. l # top /\ r # top
  BY <1>3, TopNoChild
<1>7. ASSUME NEW z \in Page PROVE pend[z] # l /\ pend[z] # r
  <2>1. CASE pend[z] = NoPage
    BY <2>1, <1>5, NoPageIsNone
  <2>2. CASE pend[z] # NoPage
    <3>1. \A y : ~ChildOf(nd, pend[z], y)
      BY ONLY <2>2, PendingNoChild, Tree(nd, top, pend, lv, lo, hi), EntriesBounded, z \in Page
    <3> QED
      BY <3>1, <1>3
  <2> QED
    BY <2>1, <2>2
<1>8. lv[l] = lv[r]
  BY <1>3, <1>5, SMTT(30)
<1> HIDE DEF end
<1>9. \A i \in 1 .. Len(u) : (u[i] = l => i = m) /\ (u[i] = r => i = m + 1)
  BY <1>1, <1>2
<1> QED
  BY <1>1, <1>2, <1>3, <1>4, <1>5, <1>6, <1>7, <1>8, <1>9 DEF end, Adjacent

\* The boundary between two neighbours is moved to s, and so is what is between.
BorderShifted(nd, pend, lv, lo, hi, p, m, l, r, s, nd2, lo2, hi2) ==
  /\ p \in Page
  /\ nd[p].kind = "internal"
  /\ m \in 1 .. Len(nd[p].seps)
  /\ l = nd[p].children[m]
  /\ r = nd[p].children[m + 1]
  /\ pend[l] = NoPage
  /\ pend[r] = NoPage
  /\ s \in Entry
  /\ lo[l] < Rank(s)
  /\ Rank(s) < hi[r]
  /\ nd2 \in [Page -> PageRecords]
  /\ \A z \in Page : z # p /\ z # l /\ z # r => nd2[z] = nd[z]
  /\ nd2[p] = InternalNode(nd[p].children, [nd[p].seps EXCEPT ![m] = s])
  /\ lo2 = [lo EXCEPT ![r] = Rank(s)]
  /\ hi2 = [hi EXCEPT ![l] = Rank(s)]
  /\ PageOK(nd2, pend, lv, lo2, hi2, l)
  /\ PageOK(nd2, pend, lv, lo2, hi2, r)
  /\ (nd[l].kind = "leaf" => nd2[l].kind = "leaf")
  /\ (nd[r].kind = "leaf" => nd2[r].kind = "leaf")
  /\ \A c : ChildOf(nd, c, l) \/ ChildOf(nd, c, r) => ChildOf(nd2, c, l) \/ ChildOf(nd2, c, r)

LEMMA Shifted ==
  ASSUME NEW nd, NEW top, NEW pend, NEW lv, NEW lo, NEW hi, NEW p, NEW m, NEW l, NEW r, NEW s,
         NEW nd2, NEW lo2, NEW hi2,
         Tree(nd, top, pend, lv, lo, hi), EntriesBounded,
         BorderShifted(nd, pend, lv, lo, hi, p, m, l, r, s, nd2, lo2, hi2)
  PROVE  Tree(nd2, top, pend, lv, lo2, hi2)
<1>0. /\ p \in Page
      /\ nd[p].kind = "internal"
      /\ m \in 1 .. Len(nd[p].seps)
      /\ pend[l] = NoPage
      /\ pend[r] = NoPage
      /\ s \in Entry
      /\ lo[l] < Rank(s)
      /\ Rank(s) < hi[r]
      /\ nd2 \in [Page -> PageRecords]
      /\ \A z \in Page : z # p /\ z # l /\ z # r => nd2[z] = nd[z]
      /\ PageOK(nd2, pend, lv, lo2, hi2, l)
      /\ PageOK(nd2, pend, lv, lo2, hi2, r)
      /\ (nd[l].kind = "leaf" => nd2[l].kind = "leaf")
      /\ (nd[r].kind = "leaf" => nd2[r].kind = "leaf")
      /\ \A c : ChildOf(nd, c, l) \/ ChildOf(nd, c, r) => ChildOf(nd2, c, l) \/ ChildOf(nd2, c, r)
  BY DEF BorderShifted
<1>eq. /\ l = nd[p].children[m]
       /\ r = nd[p].children[m + 1]
       /\ nd2[p] = InternalNode(nd[p].children, [nd[p].seps EXCEPT ![m] = s])
       /\ lo2 = [lo EXCEPT ![r] = Rank(s)]
       /\ hi2 = [hi EXCEPT ![l] = Rank(s)]
  BY DEF BorderShifted
<1> USE <1>0
<1> DEFINE end == Ends(pend, hi)
           end2 == Ends(pend, hi2)
           u == nd[p].children
           w == nd[p].seps
           x == Rank(s)
<1>1. /\ l \in Pages(nd) /\ r \in Pages(nd) /\ l \in Page /\ r \in Page
      /\ l # r /\ l # p /\ r # p /\ lv[l] = lv[r] /\ lv[l] + 1 = lv[p] /\ lv[l] \in Nat
      /\ lo[l] \in Int /\ hi[l] \in Int /\ lo[r] \in Int /\ hi[r] \in Int
      /\ lo[l] < hi[l] /\ hi[l] = lo[r] /\ lo[r] < hi[r] /\ hi[r] <= Ceiling
      /\ ChildOf(nd, l, p) /\ ChildOf(nd, r, p) /\ p \in Pages(nd)
      /\ end[l] = hi[l] /\ end[r] = hi[r]
      /\ m \in 1 .. Len(u) /\ m + 1 \in 1 .. Len(u)
      /\ \A i \in 1 .. Len(u) : (u[i] = l => i = m) /\ (u[i] = r => i = m + 1)
      /\ l # top /\ r # top
      /\ \A z \in Page : pend[z] # l /\ pend[z] # r
  <2>1. Adjacent(nd, top, pend, lv, lo, hi, p, m, l, r)
    BY <1>eq, Neighbours
  <2> QED
    BY <2>1 DEF Adjacent
<1>2. /\ NodeOK(nd, pend, lv, lo, hi, p)
      /\ u \in Seq(Page) /\ w \in Seq(Entry) /\ Len(u) = Len(w) + 1 /\ Len(w) \in Nat
      /\ \A i \in 1 .. Len(u) : u[i] \in Pages(nd)
  BY Children
<1>3. x \in Int /\ lo[l] < x /\ x < hi[r] /\ Bottom \in Int /\ Ceiling \in Int
  BY Ranked
<1>4. /\ lo2[r] = x /\ \A z \in Page : z # r => lo2[z] = lo[z]
      /\ hi2[l] = x /\ \A z \in Page : z # l => hi2[z] = hi[z]
      /\ lo2 \in [Page -> Int] /\ hi2 \in [Page -> Int]
      /\ \A z \in Page : lo[z] \in Int /\ hi[z] \in Int /\ lv[z] \in Nat
  BY <1>eq, <1>1, <1>3 DEF Tree, Typed
<1>5. end2[l] = x /\ \A z \in Page : z # l => end2[z] = end[z]
  <2>1. end2[l] = x
    BY <1>1, <1>4 DEF Ends
  <2>2. ASSUME NEW z \in Page, z # l PROVE end2[z] = end[z]
    <3>1. hi2[z] = hi[z] /\ (pend[z] # NoPage => hi2[pend[z]] = hi[pend[z]])
      <4>1. pend[z] \in Page \cup {NoPage} /\ pend[z] # l
        BY <1>1 DEF Tree, Typed
      <4> QED
        BY <4>1, <2>2, <1>4
    <3> QED
      BY <3>1 DEF Ends
  <2> QED
    BY <2>1, <2>2
<1> HIDE DEF end, end2
<1>6. nd2[p].kind = "internal" /\ nd2[p].children = u /\ nd2[p].seps = [w EXCEPT ![m] = s]
  BY <1>eq DEF InternalNode
<1>7. Pages(nd2) = Pages(nd)
  <2>1. nd2[l].kind # "free" /\ nd2[r].kind # "free"
    BY DEF PageOK
  <2> QED
    BY <2>1, <1>1, <1>6 DEF Pages
<1>8. PageOK(nd2, pend, lv, lo2, hi2, p)
  <2>1. Row(u, w, lo[p], hi[p], lv[p], Pages(nd), lv, lo, end)
    BY <1>2 DEF NodeOK, end
  <2>2. \A i \in 1 .. Len(u) : i # m => end2[u[i]] = end[u[i]]
    BY <1>1, <1>2, <1>5 DEF Pages
  <2>3. \A i \in 1 .. Len(u) : i # m + 1 => lo2[u[i]] = lo[u[i]]
    BY <1>1, <1>2, <1>4 DEF Pages
  <2>4. u[m] = l /\ u[m + 1] = r
    BY <1>eq
  <2>5. /\ lo[u[m]] < Rank(s) /\ Rank(s) < end[u[m + 1]]
        /\ lo2[u[m + 1]] = Rank(s) /\ end2[u[m]] = Rank(s)
    BY <2>4, <1>1, <1>3, <1>4, <1>5
  <2>6. lo[p] \in Int /\ hi[p] \in Int /\ m \in 1 .. Len(w)
    BY <1>4
  <2>7. Row(u, [w EXCEPT ![m] = s], lo[p], hi[p], lv[p], Pages(nd), lv, lo2, end2)
    <3> DEFINE z == [w EXCEPT ![m] = s]
    <3>1. /\ z \in Seq(Entry) /\ Len(z) = Len(w) /\ z[m] = s
          /\ \A j \in 1 .. Len(w) : j # m => z[j] = w[j]
      BY <1>2
    <3>3. BorderMoved(u, w, z, m, s, lo, lo2, end, end2)
      BY <3>1, <2>2, <2>3, <2>5, <2>6 DEF BorderMoved
    <3> HIDE DEF u, w, z
    <3>2. Row(u, z, lo[p], hi[p], lv[p], Pages(nd), lv, lo2, end2)
      BY <3>3, <2>1, <2>6, RowMoved
    <3> QED
      BY <3>2 DEF z
  <2>8. lo2[p] = lo[p] /\ hi2[p] = hi[p]
    BY <1>1, <1>4
  <2> HIDE DEF u, w
  <2> QED
    BY <2>7, <2>8, <1>6, <1>7 DEF PageOK, NodeOK, end2
<1>9. ASSUME NEW z \in Pages(nd), z # p, z # l, z # r PROVE PageOK(nd2, pend, lv, lo2, hi2, z)
  <2>1. PageOK(nd, pend, lv, lo, hi, z) /\ z \in Page
    BY DEF Tree, Pages
  <2>2. nd2[z] = nd[z] /\ lo2[z] = lo[z] /\ hi2[z] = hi[z]
    BY <2>1, <1>9, <1>4
  <2>3. nd[z].kind = "internal" => \A i \in 1 .. Len(nd[z].children) :
           LET c == nd[z].children[i]
           IN /\ c \in Pages(nd2) /\ lo2[c] = lo[c]
              /\ Ends(pend, hi2)[c] = Ends(pend, hi)[c]
    <3> SUFFICES ASSUME nd[z].kind = "internal", NEW i \in 1 .. Len(nd[z].children)
                 PROVE LET c == nd[z].children[i]
                       IN c \in Pages(nd2) /\ lo2[c] = lo[c] /\ end2[c] = end[c]
      BY DEF end, end2
    <3> DEFINE c == nd[z].children[i]
    <3>1. c \in Pages(nd) /\ ChildOf(nd, c, z)
      BY <2>1, Children
    <3>2. c # l /\ c # r
      BY <3>1, <1>1, <1>9, OneParent, SMTT(30)
    <3> QED
      BY <3>1, <3>2, <1>4, <1>5, <1>7 DEF Pages
  <2>4. nd[z].kind = "leaf" /\ hi[z] # Ceiling =>
           nd2[nd[z].next].kind = "leaf" /\ lo2[nd[z].next] = lo[nd[z].next]
    <3> SUFFICES ASSUME nd[z].kind = "leaf", hi[z] # Ceiling
                 PROVE nd2[nd[z].next].kind = "leaf" /\ lo2[nd[z].next] = lo[nd[z].next]
      OBVIOUS
    <3> DEFINE n == nd[z].next
    <3>1. n \in Page /\ n \in Pages(nd) /\ nd[n].kind = "leaf" /\ lo[n] = hi[z] /\ lv[z] = 0
      BY <2>1, NextLeaf DEF Pages
    <3>2. lv[n] = 0
      BY <3>1, NextLeaf
    <3>3. n # r
      <4> SUFFICES ASSUME n = r PROVE FALSE
        OBVIOUS
      <4>1. hi[z] = hi[l] /\ lv[z] = lv[l]
        BY <3>1, <3>2, <1>1
      <4>2. z = l
        BY <4>1, <1>1, SameEnd
      <4> QED
        BY <4>2, <1>9
    <3>4. n # p
      BY <3>1
    <3> QED
      BY <3>1, <3>3, <3>4, <1>4
  <2>5. Unmoved(nd, pend, lv, lo, hi, nd2, pend, lv, lo2, hi2, z)
    BY <2>2, <2>3, <2>4 DEF Unmoved
  <2> QED
    BY <2>1, <2>5, PageKept
<1>10. Typed(nd2, top, pend, lv, lo2, hi2)
  BY <1>4, <1>7 DEF Tree, Typed
<1>11. Spread(nd2, lo2, hi2)
  <2> SUFFICES ASSUME NEW z \in Pages(nd)
               PROVE Bottom <= lo2[z] /\ lo2[z] < hi2[z] /\ hi2[z] <= Ceiling
    BY <1>7 DEF Spread
  <2>1. z \in Page /\ Bottom <= lo[z] /\ lo[z] < hi[z] /\ hi[z] <= Ceiling
    BY DEF Tree, Spread, Pages
  <2>2. Bottom <= lo[l]
    BY <1>1 DEF Tree, Spread
  <2>3. CASE z = l
    <3>1. lo2[l] = lo[l] /\ hi2[l] = x /\ x \in Int /\ lo[l] < x
      BY <1>1, <1>3, <1>4
    <3>2. x <= Ceiling
      BY <1>1, <1>3
    <3> QED
      BY <2>3, <3>1, <3>2, <2>2
  <2>4. CASE z = r
    BY <2>4, <2>2, <1>1, <1>3, <1>4
  <2>5. CASE z # l /\ z # r
    BY <2>5, <2>1, <1>4
  <2> QED
    BY <2>3, <2>4, <2>5
<1>12. Disjoint(nd2, lv, lo2, hi2)
  <2> SUFFICES ASSUME NEW y \in Pages(nd), NEW z \in Pages(nd), y # z, lv[y] = lv[z]
               PROVE hi2[y] <= lo2[z] \/ hi2[z] <= lo2[y]
    BY <1>7 DEF Disjoint
  <2>1. \A a, b \in Pages(nd) : a # b /\ lv[a] = lv[b] => hi[a] <= lo[b] \/ hi[b] <= lo[a]
    BY DEF Tree, Disjoint
  <2>2. y \in Page /\ z \in Page /\ lo[y] < hi[y] /\ lo[z] < hi[z]
    BY DEF Tree, Spread, Pages
  <2>3. ASSUME NEW a \in Pages(nd), a # l, a # r, lv[a] = lv[l]
        PROVE  hi[a] <= lo[l] \/ hi[r] <= lo[a]
    <3>1. a \in Page /\ lo[a] < hi[a] /\ lo[a] \in Int /\ hi[a] \in Int
      BY <1>4 DEF Tree, Spread, Pages
    <3>2. hi[a] <= lo[l] \/ hi[l] <= lo[a]
      BY <2>1, <2>3, <1>1
    <3>3. hi[a] <= lo[r] \/ hi[r] <= lo[a]
      BY <2>1, <2>3, <1>1
    <3> QED
      BY <3>1, <3>2, <3>3, <1>1
  <2>4. ASSUME NEW a \in Pages(nd), NEW b \in {l, r}, a # l, a # r, lv[a] = lv[b]
        PROVE  hi2[a] <= lo2[b] \/ hi2[b] <= lo2[a]
    <3>1. a \in Page /\ (hi[a] <= lo[l] \/ hi[r] <= lo[a])
      BY <2>3, <2>4, <1>1 DEF Pages
    <3>2. lo2[a] = lo[a] /\ hi2[a] = hi[a] /\ lo[a] \in Int /\ hi[a] \in Int
      BY <2>4, <1>4 DEF Pages
    <3>3. hi2[l] = x /\ lo2[l] = lo[l] /\ hi2[r] = hi[r] /\ lo2[r] = x
      BY <1>1, <1>4
    <3>4. CASE b = l
      BY <3>1, <3>2, <3>3, <3>4, <1>1, <1>3, SMTT(30)
    <3>5. CASE b = r
      BY <3>1, <3>2, <3>3, <3>5, <1>1, <1>3
    <3> QED
      BY <3>4, <3>5
  <2>5. CASE y \in {l, r} /\ z \in {l, r}
    <3>1. hi2[l] = x /\ lo2[r] = x /\ x <= x
      BY <1>1, <1>3, <1>4
    <3> QED
      BY <2>5, <3>1, <2>2
  <2>6. CASE y \notin {l, r} /\ z \in {l, r}
    BY <2>4, <2>6, <2>2
  <2>7. CASE y \in {l, r} /\ z \notin {l, r}
    BY <2>4, <2>7, <2>2
  <2>8. CASE y \notin {l, r} /\ z \notin {l, r}
    BY <2>1, <2>2, <2>8, <1>4
  <2> QED
    BY <2>5, <2>6, <2>7, <2>8
<1>13. Halves(nd2, pend, lv, lo2, hi2)
  <2> SUFFICES ASSUME NEW z \in Page, pend[z] # NoPage
               PROVE  /\ z \in Pages(nd) /\ pend[z] \in Pages(nd)
                      /\ lv[pend[z]] = lv[z] /\ lo2[pend[z]] = hi2[z]
                      /\ pend[pend[z]] = NoPage
    BY <1>7 DEF Halves
  <2>1. /\ z \in Pages(nd) /\ pend[z] \in Pages(nd)
        /\ lv[pend[z]] = lv[z] /\ lo[pend[z]] = hi[z] /\ pend[pend[z]] = NoPage
    BY DEF Tree, Halves
  <2>2. z # l /\ pend[z] # r /\ pend[z] \in Page
    BY <2>1, <1>1 DEF Pages
  <2> QED
    BY <2>1, <2>2, <1>4
<1>14. Rooted(nd2, top, pend, lv, lo2, hi2)
  <2>1. top # NoPage /\ top \in Page
    BY <1>1 DEF Tree, Rooted, Typed, Pages
  <2>2. lo2[top] = lo[top] /\ end2[top] = end[top]
    BY <2>1, <1>1, <1>4, <1>5
  <2> QED
    BY <2>1, <2>2, <1>7 DEF Tree, Rooted, end, end2
<1>15. Owned(nd2, top, pend)
  <2> SUFFICES ASSUME NEW z \in Pages(nd)
               PROVE  z = top \/ \E q \in Page : ChildOf(nd2, z, q) \/ pend[q] = z
    BY <1>7 DEF Owned
  <2>1. z = top \/ (\E q \in Page : ChildOf(nd, z, q)) \/ (\E q \in Page : pend[q] = z)
    BY DEF Tree, Owned
  <2>2. ASSUME NEW q \in Page, ChildOf(nd, z, q) PROVE \E y \in Page : ChildOf(nd2, z, y)
    <3>1. CASE q = l \/ q = r
      BY <3>1, <2>2, <1>1
    <3>2. CASE q = p
      <4>1. ChildOf(nd2, z, p)
        BY <3>2, <2>2, <1>6 DEF ChildOf
      <4> QED
        BY <4>1
    <3>3. CASE q # l /\ q # r /\ q # p
      <4>1. ChildOf(nd2, z, q)
        BY <3>3, <2>2 DEF ChildOf
      <4> QED
        BY <4>1
    <3> QED
      BY <3>1, <3>2, <3>3
  <2> QED
    BY <2>1, <2>2
<1> QED
  BY <1>7, <1>8, <1>9, <1>10, <1>11, <1>12, <1>13, <1>14, <1>15 DEF Tree

\* Two neighbours become one.
MadeOne(nd, pend, lv, lo, hi, p, m, l, r, nd2, hi2) ==
  /\ p \in Page
  /\ nd[p].kind = "internal"
  /\ m \in 1 .. Len(nd[p].seps)
  /\ l = nd[p].children[m]
  /\ r = nd[p].children[m + 1]
  /\ pend[l] = NoPage
  /\ pend[r] = NoPage
  /\ nd2 \in [Page -> PageRecords]
  /\ \A z \in Page : z # p /\ z # l /\ z # r => nd2[z] = nd[z]
  /\ nd2[p] = InternalNode(RemoveAt(nd[p].children, m + 1), RemoveAt(nd[p].seps, m))
  /\ nd2[r] = Free
  /\ hi2 = [hi EXCEPT ![l] = hi[r]]
  /\ PageOK(nd2, pend, lv, lo, hi2, l)
  /\ (nd[l].kind = "leaf" => nd2[l].kind = "leaf")
  /\ \A c : ChildOf(nd, c, l) \/ ChildOf(nd, c, r) => ChildOf(nd2, c, l)

LEMMA Merged ==
  ASSUME NEW nd, NEW top, NEW pend, NEW lv, NEW lo, NEW hi, NEW p, NEW m, NEW l, NEW r, NEW nd2,
         NEW hi2,
         Tree(nd, top, pend, lv, lo, hi), EntriesBounded,
         MadeOne(nd, pend, lv, lo, hi, p, m, l, r, nd2, hi2)
  PROVE  Tree(nd2, top, pend, lv, lo, hi2)
<1>0. /\ p \in Page
      /\ nd[p].kind = "internal"
      /\ m \in 1 .. Len(nd[p].seps)
      /\ pend[l] = NoPage
      /\ pend[r] = NoPage
      /\ nd2 \in [Page -> PageRecords]
      /\ \A z \in Page : z # p /\ z # l /\ z # r => nd2[z] = nd[z]
      /\ PageOK(nd2, pend, lv, lo, hi2, l)
      /\ (nd[l].kind = "leaf" => nd2[l].kind = "leaf")
      /\ \A c : ChildOf(nd, c, l) \/ ChildOf(nd, c, r) => ChildOf(nd2, c, l)
  BY DEF MadeOne
<1>eq. /\ l = nd[p].children[m]
       /\ r = nd[p].children[m + 1]
       /\ nd2[p] = InternalNode(RemoveAt(nd[p].children, m + 1), RemoveAt(nd[p].seps, m))
       /\ nd2[r] = Free
       /\ hi2 = [hi EXCEPT ![l] = hi[r]]
  BY DEF MadeOne
<1> USE <1>0
<1> DEFINE end == Ends(pend, hi)
           end2 == Ends(pend, hi2)
           u == nd[p].children
           w == nd[p].seps
<1>1. /\ l \in Pages(nd) /\ r \in Pages(nd) /\ l \in Page /\ r \in Page
      /\ l # r /\ l # p /\ r # p /\ lv[l] = lv[r] /\ lv[l] + 1 = lv[p] /\ lv[l] \in Nat
      /\ lo[l] \in Int /\ hi[l] \in Int /\ lo[r] \in Int /\ hi[r] \in Int
      /\ lo[l] < hi[l] /\ hi[l] = lo[r] /\ lo[r] < hi[r] /\ hi[r] <= Ceiling
      /\ ChildOf(nd, l, p) /\ ChildOf(nd, r, p) /\ p \in Pages(nd)
      /\ end[l] = hi[l] /\ end[r] = hi[r]
      /\ m \in 1 .. Len(u) /\ m + 1 \in 1 .. Len(u)
      /\ \A i \in 1 .. Len(u) : (u[i] = l => i = m) /\ (u[i] = r => i = m + 1)
      /\ l # top /\ r # top
      /\ \A z \in Page : pend[z] # l /\ pend[z] # r
  <2>1. Adjacent(nd, top, pend, lv, lo, hi, p, m, l, r)
    BY <1>eq, Neighbours
  <2> QED
    BY <2>1 DEF Adjacent
<1>2. /\ NodeOK(nd, pend, lv, lo, hi, p)
      /\ u \in Seq(Page) /\ w \in Seq(Entry) /\ Len(u) = Len(w) + 1 /\ Len(w) \in Nat
      /\ \A i \in 1 .. Len(u) : u[i] \in Pages(nd)
  BY Children
<1>4. /\ hi2[l] = hi[r] /\ \A z \in Page : z # l => hi2[z] = hi[z]
      /\ hi2 \in [Page -> Int]
      /\ \A z \in Page : lo[z] \in Int /\ hi[z] \in Int /\ lv[z] \in Nat
  BY <1>eq, <1>1 DEF Tree, Typed
<1>5. end2[l] = hi[r] /\ \A z \in Page : z # l => end2[z] = end[z]
  <2>1. end2[l] = hi[r]
    BY <1>1, <1>4 DEF Ends
  <2>2. ASSUME NEW z \in Page, z # l PROVE end2[z] = end[z]
    <3>1. hi2[z] = hi[z] /\ (pend[z] # NoPage => hi2[pend[z]] = hi[pend[z]])
      <4>1. pend[z] \in Page \cup {NoPage} /\ pend[z] # l
        BY <1>1 DEF Tree, Typed
      <4> QED
        BY <4>1, <2>2, <1>4
    <3> QED
      BY <3>1 DEF Ends
  <2> QED
    BY <2>1, <2>2
<1> HIDE DEF end, end2
<1> DEFINE u2 == RemoveAt(u, m + 1)
           w2 == RemoveAt(w, m)
<1>6. nd2[p].kind = "internal" /\ nd2[p].children = u2 /\ nd2[p].seps = w2
  BY <1>eq DEF InternalNode
<1>7. Pages(nd2) = Pages(nd) \ {r}
  <2>1. nd2[l].kind # "free"
    BY DEF PageOK
  <2>2. nd2[r].kind = "free"
    BY <1>eq DEF Free
  <2> QED
    BY <2>1, <2>2, <1>1, <1>6 DEF Pages
<1>20. /\ Len(u2) = Len(u) - 1 /\ \A j \in 1 .. m : u2[j] = u[j]
       /\ \A j \in m + 1 .. Len(u) - 1 : u2[j] = u[j + 1]
  <2> DEFINE g == m + 1
  <2>1. g \in 1 .. Len(u) /\ g - 1 = m
    BY <1>1
  <2> HIDE DEF g, u
  <2>2. /\ Len(RemoveAt(u, g)) = Len(u) - 1
        /\ \A j \in 1 .. g - 1 : RemoveAt(u, g)[j] = u[j]
        /\ \A j \in g .. Len(u) - 1 : RemoveAt(u, g)[j] = u[j + 1]
    BY <2>1, <1>2, PageRemoved
  <2> QED
    BY <2>1, <2>2 DEF g
<1>8. PageOK(nd2, pend, lv, lo, hi2, p)
  <2>1. Row(u, w, lo[p], hi[p], lv[p], Pages(nd), lv, lo, end)
    BY <1>2 DEF NodeOK, end
  <2>2. \A i \in 1 .. Len(u) : i # m /\ i # m + 1 => end2[u[i]] = end[u[i]]
    BY <1>1, <1>2, <1>5 DEF Pages
  <2>3. \A i \in 1 .. Len(u) : i # m + 1 => u[i] \in Pages(nd2)
    BY <1>1, <1>2, <1>7
  <2>4. u[m] = l /\ u[m + 1] = r
    BY <1>eq
  <2>5. end2[u[m]] = end[u[m + 1]]
    BY <2>4, <1>1, <1>5
  <2>6. lo[p] \in Int /\ hi[p] \in Int /\ m \in 1 .. Len(w)
    BY <1>4
  <2>7. Row(u2, w2, lo[p], hi[p], lv[p], Pages(nd2), lv, lo, end2)
    <3> HIDE DEF u, w
    <3> QED
      BY <2>1, <2>2, <2>3, <2>5, <2>6, RowDropped
  <2>8. hi2[p] = hi[p]
    BY <1>1, <1>4
  <2> HIDE DEF u2, w2
  <2> QED
    BY <2>7, <2>8, <1>6 DEF PageOK, NodeOK, end2
<1>9. ASSUME NEW z \in Pages(nd), z # p, z # l, z # r PROVE PageOK(nd2, pend, lv, lo, hi2, z)
  <2>1. PageOK(nd, pend, lv, lo, hi, z) /\ z \in Page
    BY DEF Tree, Pages
  <2>2. nd2[z] = nd[z] /\ hi2[z] = hi[z]
    BY <2>1, <1>9, <1>4
  <2>3. nd[z].kind = "internal" => \A i \in 1 .. Len(nd[z].children) :
           LET c == nd[z].children[i]
           IN c \in Pages(nd2) /\ Ends(pend, hi2)[c] = Ends(pend, hi)[c]
    <3> SUFFICES ASSUME nd[z].kind = "internal", NEW i \in 1 .. Len(nd[z].children)
                 PROVE LET c == nd[z].children[i]
                       IN c \in Pages(nd2) /\ end2[c] = end[c]
      BY DEF end, end2
    <3> DEFINE c == nd[z].children[i]
    <3>1. c \in Pages(nd) /\ ChildOf(nd, c, z)
      BY <2>1, Children
    <3>2. c # l /\ c # r
      BY <3>1, <1>1, <1>9, OneParent
    <3> QED
      BY <3>1, <3>2, <1>5, <1>7 DEF Pages
  <2>4. nd[z].kind = "leaf" /\ hi[z] # Ceiling => nd2[nd[z].next].kind = "leaf"
    <3> SUFFICES ASSUME nd[z].kind = "leaf", hi[z] # Ceiling
                 PROVE nd2[nd[z].next].kind = "leaf"
      OBVIOUS
    <3> DEFINE n == nd[z].next
    <3>1. n \in Page /\ n \in Pages(nd) /\ nd[n].kind = "leaf" /\ lo[n] = hi[z] /\ lv[z] = 0
      BY <2>1, NextLeaf DEF Pages
    <3>2. lv[n] = 0
      BY <3>1, NextLeaf
    <3>3. n # r
      <4> SUFFICES ASSUME n = r PROVE FALSE
        OBVIOUS
      <4>1. hi[z] = hi[l] /\ lv[z] = lv[l]
        BY <3>1, <3>2, <1>1
      <4>2. z = l
        BY <4>1, <1>1, SameEnd
      <4> QED
        BY <4>2, <1>9
    <3>4. n # p
      BY <3>1
    <3> QED
      BY <3>1, <3>3, <3>4
  <2>5. Unmoved(nd, pend, lv, lo, hi, nd2, pend, lv, lo, hi2, z)
    BY <2>2, <2>3, <2>4 DEF Unmoved
  <2> QED
    BY <2>1, <2>5, PageKept
<1>10. Typed(nd2, top, pend, lv, lo, hi2)
  <2>1. top \in Pages(nd2) \cup {NoPage}
    BY <1>1, <1>7 DEF Tree, Typed
  <2> QED
    BY <2>1, <1>4 DEF Tree, Typed
<1>11. Spread(nd2, lo, hi2)
  <2> SUFFICES ASSUME NEW z \in Pages(nd)
               PROVE Bottom <= lo[z] /\ lo[z] < hi2[z] /\ hi2[z] <= Ceiling
    BY <1>7 DEF Spread
  <2>1. z \in Page /\ Bottom <= lo[z] /\ lo[z] < hi[z] /\ hi[z] <= Ceiling
    BY DEF Tree, Spread, Pages
  <2>2. CASE z = l
    BY <2>1, <2>2, <1>1, <1>4
  <2>3. CASE z # l
    BY <2>1, <2>3, <1>4
  <2> QED
    BY <2>2, <2>3
<1>12. Disjoint(nd2, lv, lo, hi2)
  <2> SUFFICES ASSUME NEW y \in Pages(nd), NEW z \in Pages(nd), y # r, z # r,
                      y # z, lv[y] = lv[z]
               PROVE hi2[y] <= lo[z] \/ hi2[z] <= lo[y]
    BY <1>7 DEF Disjoint
  <2>1. \A a, b \in Pages(nd) : a # b /\ lv[a] = lv[b] => hi[a] <= lo[b] \/ hi[b] <= lo[a]
    BY DEF Tree, Disjoint
  <2>2. y \in Page /\ z \in Page
    BY DEF Pages
  <2>3. ASSUME NEW a \in Pages(nd), a # l, a # r, lv[a] = lv[l]
        PROVE  hi[a] <= lo[l] \/ hi[r] <= lo[a]
    <3>1. a \in Page /\ lo[a] < hi[a] /\ lo[a] \in Int /\ hi[a] \in Int
      BY <1>4 DEF Tree, Spread, Pages
    <3>2. hi[a] <= lo[l] \/ hi[l] <= lo[a]
      BY <2>1, <2>3, <1>1
    <3>3. hi[a] <= lo[r] \/ hi[r] <= lo[a]
      BY <2>1, <2>3, <1>1
    <3> QED
      BY <3>1, <3>2, <3>3, <1>1
  <2>4. CASE y = l
    <3>1. hi[z] <= lo[l] \/ hi[r] <= lo[z]
      BY <2>3, <2>4
    <3> QED
      BY <3>1, <2>4, <2>2, <1>4
  <2>5. CASE z = l
    <3>1. hi[y] <= lo[l] \/ hi[r] <= lo[y]
      BY <2>3, <2>5
    <3> QED
      BY <3>1, <2>5, <2>2, <1>4
  <2>6. CASE y # l /\ z # l
    BY <2>1, <2>2, <2>6, <1>4
  <2> QED
    BY <2>4, <2>5, <2>6
<1>13. Halves(nd2, pend, lv, lo, hi2)
  <2> SUFFICES ASSUME NEW z \in Page, pend[z] # NoPage
               PROVE  /\ z \in Pages(nd2) /\ pend[z] \in Pages(nd2)
                      /\ lv[pend[z]] = lv[z] /\ lo[pend[z]] = hi2[z]
                      /\ pend[pend[z]] = NoPage
    BY DEF Halves
  <2>1. /\ z \in Pages(nd) /\ pend[z] \in Pages(nd)
        /\ lv[pend[z]] = lv[z] /\ lo[pend[z]] = hi[z] /\ pend[pend[z]] = NoPage
    BY DEF Tree, Halves
  <2>2. z # l /\ z # r /\ pend[z] # r
    BY <2>1, <1>1
  <2> QED
    BY <2>1, <2>2, <1>4, <1>7
<1>14. Rooted(nd2, top, pend, lv, lo, hi2)
  <2>1. top # NoPage /\ top \in Page
    BY <1>1 DEF Tree, Rooted, Typed, Pages
  <2>2. end2[top] = end[top]
    BY <2>1, <1>1, <1>5
  <2> QED
    BY <2>1, <2>2, <1>7 DEF Tree, Rooted, end, end2
<1>15. Owned(nd2, top, pend)
  <2> SUFFICES ASSUME NEW z \in Pages(nd), z # r
               PROVE  z = top \/ \E q \in Page : ChildOf(nd2, z, q) \/ pend[q] = z
    BY <1>7 DEF Owned
  <2>1. z = top \/ (\E q \in Page : ChildOf(nd, z, q)) \/ (\E q \in Page : pend[q] = z)
    BY DEF Tree, Owned
  <2>2. ASSUME NEW q \in Page, ChildOf(nd, z, q) PROVE \E y \in Page : ChildOf(nd2, z, y)
    <3>1. CASE q = l \/ q = r
      BY <3>1, <2>2, <1>1
    <3>2. CASE q = p
      <4>1. PICK i \in 1 .. Len(u) : u[i] = z
        BY <3>2, <2>2 DEF ChildOf
      <4>2. i # m + 1
        BY <1>eq, <4>1
      <4>3. \E j \in 1 .. Len(u2) : u2[j] = z
        <5>1. CASE i \in 1 .. m
          <6>1. i \in 1 .. Len(u2) /\ u2[i] = u[i]
            BY <5>1, <1>1, <1>2, <1>20
          <6> QED
            BY <6>1, <4>1
        <5>2. CASE i \notin 1 .. m
          <6>1. i - 1 \in m + 1 .. Len(u) - 1 /\ i - 1 \in 1 .. Len(u) - 1 /\ (i - 1) + 1 = i
            BY <5>2, <4>1, <4>2, <1>1, <1>2
          <6>2. i - 1 \in 1 .. Len(u2) /\ u2[i - 1] = u[(i - 1) + 1]
            BY <6>1, <1>20
          <6>3. u2[i - 1] = z
            BY <6>1, <6>2, <4>1
          <6> QED
            BY <6>2, <6>3
        <5> QED
          BY <5>1, <5>2
      <4>4. ChildOf(nd2, z, p)
        BY <4>3, <1>6 DEF ChildOf
      <4> QED
        BY <4>4
    <3>3. CASE q # l /\ q # r /\ q # p
      <4>1. ChildOf(nd2, z, q)
        BY <3>3, <2>2 DEF ChildOf
      <4> QED
        BY <4>1
    <3> QED
      BY <3>1, <3>2, <3>3
  <2> QED
    BY <2>1, <2>2
<1> QED
  BY <1>7, <1>8, <1>9, <1>10, <1>11, <1>12, <1>13, <1>14, <1>15 DEF Tree
=============================================================================
