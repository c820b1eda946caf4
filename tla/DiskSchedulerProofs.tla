------------------------ MODULE DiskSchedulerProofs ------------------------
(***************************************************************************)
(* Proofs about DiskScheduler and the DiskManager it owns, for any number  *)
(* of clients, pages and values and any initial capacity.                  *)
(*                                                                         *)
(* The slots are the heart of it.  A fresh slot is numbered by the live    *)
(* pages, which is right only because the slots in pages and in free_slots *)
(* are together the first slots of the file (SlotsInv).  From it follows   *)
(* that no request disturbs the content of another page, and with it that  *)
(* the scheduler implements DiskService.                                   *)
(*                                                                         *)
(* That a read is answered with the last write before it is then a matter  *)
(* of the channel alone: what a request will find for its page is decided  *)
(* by the requests in front of it (ContentBefore), and serving the oldest  *)
(* one does to the page what those behind it expect (FoundByServe).        *)
(***************************************************************************)
EXTENDS DiskScheduler, FiniteSetTheorems, SequenceTheorems, TLAPS

\* Deleted slots are given back once.
FreeDistinct ==
  \A i, j \in DOMAIN free_slots : i # j => free_slots[i] # free_slots[j]

NumSlots == NumPages + Len(free_slots)

\* The inductive invariant of the disk manager.
SlotsInv ==
  /\ DiskTypeOK
  /\ IsFiniteSet(DOMAIN pages)
  /\ DistinctSlots
  /\ FreeDistinct
  /\ UsedSlots \cup FreeSlots = 0 .. NumSlots - 1
  /\ UsedSlots \cap FreeSlots = {}
  /\ SlotsInFile
  /\ page_capacity > 0

-----------------------------------------------------------------------------
(* Sequences.                                                              *)

LEMMA FrontLength ==
  ASSUME NEW n \in Nat, n # 0
  PROVE  (IF 1 <= n - 1 THEN n - 1 - 1 + 1 ELSE 0) = n - 1
OBVIOUS

LEMMA FrontFacts ==
  ASSUME NEW S, NEW s \in Seq(S), s # <<>>
  PROVE  /\ Len(s) \in Nat \ {0}
         /\ Last(s) \in S
         /\ Last(s) = s[Len(s)]
         /\ Front(s) \in Seq(S)
         /\ Len(Front(s)) = Len(s) - 1
         /\ \A i \in 1 .. Len(s) - 1 : Front(s)[i] = s[i]
<1>1. Len(s) \in Nat /\ Len(s) # 0
  OBVIOUS
<1>2. s[Len(s)] \in S
  BY <1>1
<1> DEFINE front == SubSeq(s, 1, Len(s) - 1)
<1>3. /\ front \in Seq(S)
      /\ Len(front) = IF 1 <= Len(s) - 1 THEN Len(s) - 1 - 1 + 1 ELSE 0
      /\ \A i \in 1 .. Len(s) - 1 - 1 + 1 : front[i] = s[1 + i - 1]
  <2>1. \A i \in 1 .. Len(s) - 1 : s[i] \in S
    BY <1>1
  <2> QED
    BY <1>1, <2>1, SubSeqProperties
<1>4. Last(s) = s[Len(s)] /\ Front(s) = front
  BY DEF Last, Front
<1> HIDE DEF front
<1>5. Len(front) = Len(s) - 1
  <2>1. Len(front) = IF 1 <= Len(s) - 1 THEN Len(s) - 1 - 1 + 1 ELSE 0
    BY <1>3, Zenon
  <2> QED
    BY <1>1, <2>1, FrontLength, Zenon
<1>6. ASSUME NEW i \in 1 .. Len(s) - 1 PROVE front[i] = s[i]
  <2>1. i \in 1 .. Len(s) - 1 - 1 + 1 /\ 1 + i - 1 = i
    BY <1>1
  <2> QED
    BY <1>3, <2>1
<1> QED
  BY <1>1, <1>2, <1>3, <1>4, <1>5, <1>6

\* A write inside the file, or just past its end, changes one page.
LEMMA WriteInside ==
  ASSUME NEW f \in Seq(Value), NEW slot \in Nat, slot <= Len(f), NEW v \in Value
  PROVE  /\ WriteAt(f, slot, v) \in Seq(Value)
         /\ Len(WriteAt(f, slot, v)) >= Len(f) /\ Len(WriteAt(f, slot, v)) > slot
         /\ Len(WriteAt(f, slot, v)) = Len(f) \/ Len(WriteAt(f, slot, v)) = slot + 1
         /\ WriteAt(f, slot, v)[slot + 1] = v
         /\ \A i \in 1 .. Len(f) : i # slot + 1 => WriteAt(f, slot, v)[i] = f[i]
<1> DEFINE n == IF slot < Len(f) THEN Len(f) ELSE slot + 1
           w == [i \in 1 .. n |-> IF i = slot + 1 THEN v ELSE IF i <= Len(f) THEN f[i] ELSE Zero]
<1>1. WriteAt(f, slot, v) = w
  BY DEF WriteAt
<1>2. n \in Nat /\ w \in [1 .. n -> Value]
  BY ZeroAssumption
<1>3. w \in Seq(Value) /\ Len(w) = n
  BY <1>2
<1> QED
  BY <1>1, <1>3

\* set_len keeps what the file holds.
LEMMA GrownFile ==
  ASSUME NEW f \in Seq(Value), NEW n \in Nat, n >= Len(f)
  PROVE  /\ SetLen(f, n) \in Seq(Value)
         /\ Len(SetLen(f, n)) = n
         /\ \A i \in 1 .. Len(f) : SetLen(f, n)[i] = f[i]
<1> DEFINE w == [i \in 1 .. n |-> IF i <= Len(f) THEN f[i] ELSE Zero]
<1>1. SetLen(f, n) = w
  BY DEF SetLen
<1>2. Len(f) \in Nat /\ w \in [1 .. n -> Value]
  BY ZeroAssumption
<1>3. w \in Seq(Value) /\ Len(w) = n
  BY <1>2
<1> QED
  BY <1>1, <1>2, <1>3

-----------------------------------------------------------------------------
(* The slots.  There are four ways in which a request moves them.          *)

\* What the invariant says of the sizes.
LEMMA Sizes ==
  ASSUME SlotsInv
  PROVE  /\ NumPages \in Nat
         /\ Len(free_slots) \in Nat
         /\ NumSlots \in Nat
         /\ NumSlots = NumPages + Len(free_slots)
         /\ NumSlots <= page_capacity
         /\ page_capacity \in Nat
         /\ Len(file) \in Nat
         /\ NumSlots <= Len(file)
         /\ Len(file) <= page_capacity + 1
<1>1. NumPages \in Nat
  BY FS_CardinalityType DEF SlotsInv, NumPages
<1>2. Len(free_slots) \in Nat
  BY DEF SlotsInv, DiskTypeOK
<1> QED
  BY <1>1, <1>2 DEF SlotsInv, DiskTypeOK, NumSlots, SlotsInFile

\* A page without a slot is entered in pages.
LEMMA Entered ==
  ASSUME SlotsInv, NEW p \in Page, p \notin DOMAIN pages, NEW s \in Nat,
         s \notin UsedSlots, pages' = Put(pages, p, s)
  PROVE  /\ DOMAIN pages' = DOMAIN pages \cup {p}
         /\ pages'[p] = s
         /\ \A q \in DOMAIN pages : pages'[q] = pages[q]
         /\ DOMAIN pages' \subseteq Page
         /\ pages' \in [DOMAIN pages' -> Nat]
         /\ IsFiniteSet(DOMAIN pages')
         /\ NumPages' = NumPages + 1
         /\ UsedSlots' = UsedSlots \cup {s}
         /\ DistinctSlots'
<1>1. /\ DOMAIN pages' = DOMAIN pages \cup {p}
      /\ pages'[p] = s
      /\ \A q \in DOMAIN pages : pages'[q] = pages[q]
  BY DEF Put
<1>2. /\ IsFiniteSet(DOMAIN pages')
      /\ NumPages' = NumPages + 1
  BY <1>1, FS_AddElement DEF SlotsInv, NumPages
<1>3. UsedSlots' = UsedSlots \cup {s}
  <2>1. ASSUME NEW x \in UsedSlots' PROVE x \in UsedSlots \cup {s}
    BY <1>1, <2>1 DEF UsedSlots
  <2>2. ASSUME NEW x \in UsedSlots \cup {s} PROVE x \in UsedSlots'
    BY <1>1, <2>2 DEF UsedSlots
  <2> QED
    BY <2>1, <2>2, Zenon
<1>4. DistinctSlots'
  <2>1. ASSUME NEW q \in DOMAIN pages', NEW r \in DOMAIN pages', q # r
        PROVE  pages'[q] # pages'[r]
    <3>1. CASE q \in DOMAIN pages /\ r \in DOMAIN pages
      BY <1>1, <2>1, <3>1 DEF SlotsInv, DistinctSlots
    <3>2. CASE q = p /\ r \in DOMAIN pages
      BY <1>1, <3>2 DEF UsedSlots
    <3>3. CASE q \in DOMAIN pages /\ r = p
      BY <1>1, <3>3 DEF UsedSlots
    <3> QED
      BY <1>1, <2>1, <3>1, <3>2, <3>3
  <2> QED
    BY <2>1, Zenon DEF DistinctSlots
<1>5. /\ DOMAIN pages' \subseteq Page
      /\ pages' \in [DOMAIN pages' -> Nat]
  BY <1>1 DEF SlotsInv, DiskTypeOK, Put
<1> QED
  BY <1>1, <1>2, <1>3, <1>4, <1>5

\* A deleted slot is given to a page.
LEMMA SlotReused ==
  ASSUME SlotsInv, NEW p \in Page, p \notin DOMAIN pages, free_slots # <<>>,
         pages' = Put(pages, p, Last(free_slots)), free_slots' = Front(free_slots),
         page_capacity' = page_capacity,
         file' \in Seq(Value), Len(file') >= Len(file), Len(file') <= page_capacity' + 1
  PROVE  SlotsInv'
<1> DEFINE n == Len(free_slots)
           s == Last(free_slots)
<1>1. /\ n \in Nat \ {0} /\ s \in Nat /\ s = free_slots[n]
      /\ free_slots' \in Seq(Nat) /\ Len(free_slots') = n - 1
      /\ \A i \in 1 .. n - 1 : free_slots'[i] = free_slots[i]
  BY FrontFacts DEF SlotsInv, DiskTypeOK
<1>2. DOMAIN free_slots = 1 .. n /\ DOMAIN free_slots' = 1 .. n - 1
  <2>1. free_slots \in Seq(Nat)
    BY DEF SlotsInv, DiskTypeOK
  <2> QED
    BY <1>1, <2>1
<1> HIDE DEF n, s
<1>3. n \in 1 .. n /\ \A i \in 1 .. n - 1 : i \in 1 .. n /\ i # n
  BY <1>1
<1>4. \A i \in 1 .. n : i = n \/ i \in 1 .. n - 1
  BY <1>1
<1>5. s \in FreeSlots
  BY <1>1, <1>2, <1>3 DEF FreeSlots
<1>6. s \notin UsedSlots
  BY <1>5 DEF SlotsInv
<1>7. FreeSlots' = FreeSlots \ {s}
  <2>1. ASSUME NEW x \in FreeSlots' PROVE x \in FreeSlots \ {s}
    BY <1>1, <1>2, <1>3, <2>1, Zenon DEF FreeSlots, SlotsInv, FreeDistinct
  <2>2. ASSUME NEW x \in FreeSlots \ {s} PROVE x \in FreeSlots'
    <3>1. PICK i \in 1 .. n : x = free_slots[i]
      BY <1>2, <2>2, Zenon DEF FreeSlots
    <3>2. i \in 1 .. n - 1
      BY <1>1, <1>4, <2>2, <3>1, Zenon
    <3> QED
      BY <1>1, <1>2, <3>1, <3>2, Zenon DEF FreeSlots
  <2> QED
    BY <2>1, <2>2, Zenon
<1>8. FreeDistinct'
  BY <1>1, <1>2, <1>3, SMTT(20) DEF SlotsInv, FreeDistinct
<1>9. /\ DOMAIN pages' \subseteq Page
      /\ pages' \in [DOMAIN pages' -> Nat]
      /\ IsFiniteSet(DOMAIN pages')
      /\ NumPages' = NumPages + 1
      /\ UsedSlots' = UsedSlots \cup {s}
      /\ DistinctSlots'
  BY <1>1, <1>6, Entered DEF s
<1>10. NumSlots' = NumSlots
  BY <1>1, <1>9, Sizes DEF NumSlots, n
<1>11. UsedSlots' \cup FreeSlots' = UsedSlots \cup FreeSlots /\ UsedSlots' \cap FreeSlots' = {}
  BY <1>5, <1>7, <1>9, Zenon DEF SlotsInv
<1>12. SlotsInFile'
  BY <1>10, Sizes DEF SlotsInFile, NumSlots
<1>13. DiskTypeOK'
  BY <1>1, <1>9 DEF SlotsInv, DiskTypeOK
<1> QED
  BY <1>8, <1>9, <1>10, <1>11, <1>12, <1>13 DEF SlotsInv

\* A fresh slot is given to a page.
LEMMA SlotAdded ==
  ASSUME SlotsInv, NEW p \in Page, p \notin DOMAIN pages, free_slots = <<>>,
         pages' = Put(pages, p, NumPages), free_slots' = free_slots,
         page_capacity' \in Nat, page_capacity' > NumPages,
         file' \in Seq(Value), Len(file') > NumPages, Len(file') <= page_capacity' + 1
  PROVE  SlotsInv'
<1>1. Len(free_slots) = 0 /\ FreeSlots = {} /\ FreeSlots' = {}
  BY DEF FreeSlots
<1>2. NumPages \in Nat /\ UsedSlots = 0 .. NumPages - 1
  BY <1>1, Sizes DEF SlotsInv
<1>3. NumPages \notin UsedSlots
  BY <1>2
<1>4. /\ DOMAIN pages' \subseteq Page
      /\ pages' \in [DOMAIN pages' -> Nat]
      /\ IsFiniteSet(DOMAIN pages')
      /\ NumPages' = NumPages + 1
      /\ UsedSlots' = UsedSlots \cup {NumPages}
      /\ DistinctSlots'
  BY <1>2, <1>3, Entered
<1>5. NumSlots' = NumPages + 1
  BY <1>1, <1>2, <1>4 DEF NumSlots
<1>6. UsedSlots' \cup FreeSlots' = 0 .. NumSlots' - 1 /\ UsedSlots' \cap FreeSlots' = {}
  BY <1>1, <1>2, <1>4, <1>5
<1>7. SlotsInFile'
  BY <1>2, <1>5 DEF SlotsInFile, NumSlots
<1>8. DiskTypeOK' /\ FreeDistinct'
  BY <1>4 DEF SlotsInv, DiskTypeOK, FreeDistinct
<1> QED
  BY <1>4, <1>6, <1>7, <1>8 DEF SlotsInv

\* A page gives its slot back.
LEMMA SlotFreed ==
  ASSUME SlotsInv, NEW p \in DOMAIN pages,
         pages' = Drop(pages, p), free_slots' = Append(free_slots, pages[p]),
         UNCHANGED <<page_capacity, file>>
  PROVE  SlotsInv'
<1> DEFINE n == Len(free_slots)
           s == pages[p]
<1>1. /\ n \in Nat /\ s \in Nat /\ free_slots \in Seq(Nat)
  BY DEF SlotsInv, DiskTypeOK
<1>2. /\ free_slots' \in Seq(Nat) /\ Len(free_slots') = n + 1 /\ free_slots'[n + 1] = s
      /\ \A i \in 1 .. n : free_slots'[i] = free_slots[i]
      /\ DOMAIN free_slots = 1 .. n /\ DOMAIN free_slots' = 1 .. n + 1
  BY <1>1
<1>3. /\ DOMAIN pages' = DOMAIN pages \ {p}
      /\ \A q \in DOMAIN pages' : pages'[q] = pages[q]
  BY DEF Drop
<1>4. s \in UsedSlots /\ \A q \in DOMAIN pages' : pages'[q] # s
  BY <1>3, Zenon DEF SlotsInv, DistinctSlots, UsedSlots
<1> HIDE DEF n, s
<1>5. s \notin FreeSlots
  BY <1>4 DEF SlotsInv
<1>6. n + 1 \in 1 .. n + 1 /\ \A i \in 1 .. n : i \in 1 .. n + 1
  BY <1>1
<1>7. \A i \in 1 .. n + 1 : i = n + 1 \/ i \in 1 .. n
  BY <1>1
<1>8. FreeSlots' = FreeSlots \cup {s}
  <2>1. ASSUME NEW x \in FreeSlots' PROVE x \in FreeSlots \cup {s}
    BY <1>2, <1>7, <2>1, Zenon DEF FreeSlots
  <2>2. ASSUME NEW x \in FreeSlots \cup {s} PROVE x \in FreeSlots'
    BY <1>2, <1>6, <2>2, Zenon DEF FreeSlots
  <2> QED
    BY <2>1, <2>2, Zenon
<1>9. FreeDistinct'
  <2>1. \A i \in 1 .. n : free_slots[i] # s
    BY <1>2, <1>5, Zenon DEF FreeSlots
  <2>2. ASSUME NEW i \in 1 .. n + 1, NEW j \in 1 .. n + 1, i # j
        PROVE  free_slots'[i] # free_slots'[j]
    <3>1. CASE i \in 1 .. n /\ j \in 1 .. n
      BY <1>2, <2>2, <3>1 DEF SlotsInv, FreeDistinct
    <3>2. CASE i = n + 1 /\ j \in 1 .. n
      BY <1>2, <2>1, <3>2
    <3>3. CASE i \in 1 .. n /\ j = n + 1
      BY <1>2, <2>1, <3>3
    <3> QED
      BY <1>7, <2>2, <3>1, <3>2, <3>3, Zenon
  <2> QED
    BY <1>2, <2>2, Zenon DEF FreeDistinct
<1>10. UsedSlots' = UsedSlots \ {s}
  <2>1. ASSUME NEW x \in UsedSlots' PROVE x \in UsedSlots \ {s}
    BY <1>3, <1>4, <2>1, Zenon DEF UsedSlots
  <2>2. ASSUME NEW x \in UsedSlots \ {s} PROVE x \in UsedSlots'
    BY <1>3, <2>2, Zenon DEF UsedSlots, s
  <2> QED
    BY <2>1, <2>2, Zenon
<1>11. IsFiniteSet(DOMAIN pages') /\ NumPages' = NumPages - 1
  BY <1>3, FS_RemoveElement DEF SlotsInv, NumPages
<1>12. NumSlots' = NumSlots
  BY <1>1, <1>2, <1>11, Sizes DEF NumSlots, n
<1>13. UsedSlots' \cup FreeSlots' = UsedSlots \cup FreeSlots /\ UsedSlots' \cap FreeSlots' = {}
  BY <1>4, <1>8, <1>10, Zenon DEF SlotsInv
<1>14. SlotsInFile'
  BY <1>12 DEF SlotsInv, SlotsInFile, NumSlots
<1>15. DistinctSlots'
  <2>1. ASSUME NEW q \in DOMAIN pages', NEW r \in DOMAIN pages', q # r
        PROVE  pages'[q] # pages'[r]
    BY <1>3, <2>1 DEF SlotsInv, DistinctSlots
  <2> QED
    BY <2>1, Zenon DEF DistinctSlots
<1>16. DiskTypeOK'
  BY <1>2, <1>3 DEF SlotsInv, DiskTypeOK, Drop
<1> QED
  BY <1>9, <1>11, <1>12, <1>13, <1>14, <1>15, <1>16 DEF SlotsInv

\* No page and no free slot moves.
LEMMA SlotsKept ==
  ASSUME SlotsInv, UNCHANGED <<pages, free_slots>>,
         page_capacity' \in Nat, page_capacity' >= page_capacity,
         file' \in Seq(Value), Len(file') >= Len(file), Len(file') <= page_capacity' + 1
  PROVE  SlotsInv'
<1>1. UsedSlots' = UsedSlots /\ FreeSlots' = FreeSlots /\ NumPages' = NumPages
      /\ NumSlots' = NumSlots
  BY DEF UsedSlots, FreeSlots, NumPages, NumSlots
<1>2. SlotsInFile'
  BY <1>1, Sizes DEF SlotsInFile, NumSlots
<1>3. DiskTypeOK' /\ DistinctSlots' /\ FreeDistinct' /\ IsFiniteSet(DOMAIN pages')
  BY DEF SlotsInv, DiskTypeOK, DistinctSlots, FreeDistinct
<1>4. page_capacity' > 0
  BY DEF SlotsInv, DiskTypeOK
<1> QED
  BY <1>1, <1>2, <1>3, <1>4 DEF SlotsInv

-----------------------------------------------------------------------------
(* The operations of the disk manager.                                     *)

\* The slots in use are inside the file.
LEMMA UsedInFile ==
  ASSUME SlotsInv, NEW q \in DOMAIN pages
  PROVE  pages[q] \in Nat /\ pages[q] < page_capacity /\ pages[q] + 1 \in 1 .. Len(file)
<1>1. pages[q] \in UsedSlots
  BY DEF UsedSlots
<1>2. pages[q] \in 0 .. NumSlots - 1
  BY <1>1 DEF SlotsInv
<1> QED
  BY <1>2, Sizes

\* What allocate_new_page promises its callers: a slot that no other page uses, inside
\* the file, which may have grown, or just past its end.
LEMMA LocateFacts ==
  ASSUME SlotsInv, NEW p \in Page
  PROVE  LET at == Locate(p) IN
         /\ at.slot \in Nat
         /\ at.page_capacity \in Nat
         /\ at.page_capacity >= page_capacity
         /\ at.slot <= at.page_capacity
         /\ at.slot <= Len(at.file)
         /\ at.file \in Seq(Value)
         /\ Len(at.file) >= Len(file)
         /\ Len(at.file) <= at.page_capacity + 1
         /\ \A i \in 1 .. Len(file) : at.file[i] = file[i]
         /\ \A q \in DOMAIN pages : q # p => pages[q] # at.slot
<1> DEFINE at == Locate(p)
<1>0. /\ file \in Seq(Value) /\ Len(file) \in Nat /\ page_capacity \in Nat
      /\ Len(file) <= page_capacity + 1
  BY Sizes DEF SlotsInv, DiskTypeOK
<1>1. CASE p \in DOMAIN pages
  <2>1. at = [slot |-> pages[p], free_slots |-> free_slots,
              page_capacity |-> page_capacity, file |-> file]
    BY <1>1 DEF Locate
  <2>2. \A q \in DOMAIN pages : q # p => pages[q] # pages[p]
    BY <1>1 DEF SlotsInv, DistinctSlots
  <2>3. pages[p] \in Nat /\ pages[p] <= page_capacity /\ pages[p] <= Len(file)
    BY <1>0, <1>1, UsedInFile
  <2> QED
    BY <1>0, <2>1, <2>2, <2>3
<1>2. CASE p \notin DOMAIN pages /\ free_slots # <<>>
  <2>1. at = [slot |-> Last(free_slots), free_slots |-> Front(free_slots),
              page_capacity |-> page_capacity, file |-> file]
    BY <1>2 DEF Locate, allocate_new_page
  <2>2. /\ free_slots \in Seq(Nat) /\ Len(free_slots) \in Nat \ {0}
        /\ Last(free_slots) \in Nat /\ Last(free_slots) = free_slots[Len(free_slots)]
    BY <1>2, FrontFacts DEF SlotsInv, DiskTypeOK
  <2>3. Last(free_slots) \in FreeSlots
    <3>1. Len(free_slots) \in DOMAIN free_slots
      BY <2>2
    <3> QED
      BY <2>2, <3>1, Zenon DEF FreeSlots
  <2>4. \A q \in DOMAIN pages : pages[q] # Last(free_slots)
    BY <2>3, Zenon DEF SlotsInv, UsedSlots
  <2>5. Last(free_slots) <= page_capacity /\ Last(free_slots) <= Len(file)
    <3>1. Last(free_slots) \in 0 .. NumSlots - 1
      BY <2>3 DEF SlotsInv
    <3> QED
      BY <3>1, Sizes
  <2> QED
    BY <1>0, <2>1, <2>2, <2>4, <2>5
<1>3. CASE p \notin DOMAIN pages /\ free_slots = <<>>
  <2> DEFINE capacity == IF FileFull THEN 2 * page_capacity ELSE page_capacity
             grown == IF FileFull THEN SetLen(file, 2 * page_capacity + 1) ELSE file
  <2>1. at = [slot |-> NumPages, free_slots |-> free_slots,
              page_capacity |-> capacity, file |-> grown]
    BY <1>3 DEF Locate, allocate_new_page
  <2>2. NumPages \in Nat /\ NumPages <= page_capacity /\ NumPages <= Len(file)
    BY Sizes
  <2>3. capacity \in Nat /\ capacity >= page_capacity
    BY <1>0
  <2>4. /\ grown \in Seq(Value)
        /\ Len(grown) >= Len(file)
        /\ Len(grown) <= capacity + 1
        /\ \A i \in 1 .. Len(file) : grown[i] = file[i]
    <3>1. CASE FileFull
      <4>1. 2 * page_capacity + 1 \in Nat /\ 2 * page_capacity + 1 >= Len(file)
        BY <1>0
      <4> QED
        BY <1>0, <3>1, <4>1, GrownFile
    <3>2. CASE ~FileFull
      BY <1>0, <3>2
    <3> QED
      BY <3>1, <3>2
  <2>5. ASSUME NEW q \in DOMAIN pages PROVE pages[q] # NumPages
    <3>1. pages[q] \in UsedSlots /\ Len(free_slots) = 0
      BY <1>3 DEF UsedSlots
    <3>2. pages[q] \in 0 .. NumSlots - 1 /\ NumSlots = NumPages
      BY <3>1, Sizes DEF SlotsInv
    <3> QED
      BY <2>2, <3>2
  <2> HIDE DEF capacity, grown
  <2> QED
    BY <2>1, <2>2, <2>3, <2>4, <2>5, <1>0
<1> QED
  BY <1>1, <1>2, <1>3

\* read_page and write_page enter the page with its slot.
LEMMA Placed ==
  ASSUME SlotsInv, NEW p \in Page,
         pages' = Put(pages, p, Locate(p).slot),
         free_slots' = Locate(p).free_slots,
         page_capacity' = Locate(p).page_capacity,
         file' \in Seq(Value), Len(file') >= Len(Locate(p).file),
         Len(file') > Locate(p).slot, Len(file') <= page_capacity' + 1
  PROVE  SlotsInv'
<1>0. page_capacity' \in Nat /\ page_capacity' >= page_capacity /\ Len(file') >= Len(file)
  BY LocateFacts
<1>1. CASE p \in DOMAIN pages
  <2>1. pages' = pages
    BY <1>1 DEF Put, Locate, SlotsInv, DiskTypeOK
  <2> QED
    BY <1>0, <1>1, <2>1, SlotsKept DEF Locate
<1>2. CASE p \notin DOMAIN pages /\ free_slots # <<>>
  <2>1. page_capacity' = page_capacity
    BY <1>2 DEF Locate, allocate_new_page
  <2>2. pages' = Put(pages, p, Last(free_slots)) /\ free_slots' = Front(free_slots)
    BY <1>2 DEF Locate, allocate_new_page
  <2> QED
    BY <1>0, <1>2, <2>1, <2>2, SlotReused
<1>3. CASE p \notin DOMAIN pages /\ free_slots = <<>>
  <2>1. page_capacity' = IF FileFull THEN 2 * page_capacity ELSE page_capacity
    BY <1>3 DEF Locate, allocate_new_page
  <2>2. page_capacity \in Nat /\ page_capacity > 0
    BY DEF SlotsInv, DiskTypeOK
  <2>3. page_capacity' > NumPages
    BY <2>1, <2>2, Sizes DEF FileFull
  <2>4. /\ pages' = Put(pages, p, NumPages) /\ free_slots' = free_slots
        /\ Len(file') > NumPages
    BY <1>3 DEF Locate, allocate_new_page
  <2> QED
    BY <1>0, <1>3, <2>3, <2>4, SlotAdded
<1> QED
  BY <1>1, <1>2, <1>3

-----------------------------------------------------------------------------
(* What the operations do to the contents of the pages.                    *)

LEMMA ContentChanged ==
  ASSUME NEW p \in Page, NEW slot, NEW v,
         pages' = Put(pages, p, slot), file'[slot + 1] = v,
         \A q \in DOMAIN pages : q # p => file'[pages[q] + 1] = file[pages[q] + 1]
  PROVE  Contents' = [Contents EXCEPT ![p] = v]
<1>1. /\ DOMAIN pages' = DOMAIN pages \cup {p}
      /\ pages'[p] = slot
      /\ \A q \in DOMAIN pages : q # p => pages'[q] = pages[q]
  BY DEF Put
<1>2. ASSUME NEW q \in Page
      PROVE  Contents'[q] = IF q = p THEN v ELSE Contents[q]
  BY <1>1 DEF Contents
<1> QED
  BY <1>2 DEF Contents

LEMMA ContentKept ==
  ASSUME UNCHANGED pages,
         \A q \in DOMAIN pages : file'[pages[q] + 1] = file[pages[q] + 1]
  PROVE  Contents' = Contents
BY DEF Contents

LEMMA ReadStep ==
  ASSUME SlotsInv, NEW p \in Page, read_page(p)
  PROVE  /\ SlotsInv'
         /\ ReadData(p) \in Value
         /\ p \in DOMAIN pages => ReadData(p) = Contents[p]
         /\ Contents' = [Contents EXCEPT ![p] = ReadData(p)]
<1> DEFINE at == Locate(p)
<1>1. /\ pages' = Put(pages, p, at.slot) /\ free_slots' = at.free_slots
      /\ page_capacity' = at.page_capacity /\ file' = at.file /\ at.slot < Len(at.file)
  BY DEF read_page
<1>2. /\ at.slot \in Nat /\ at.page_capacity \in Nat
      /\ at.file \in Seq(Value) /\ Len(at.file) \in Nat /\ Len(at.file) >= Len(file)
      /\ Len(at.file) <= at.page_capacity + 1
      /\ \A i \in 1 .. Len(file) : at.file[i] = file[i]
  BY LocateFacts
<1>3. SlotsInv'
  BY <1>1, <1>2, Placed
<1>4. ReadData(p) = at.file[at.slot + 1]
  BY DEF ReadData
<1>5. p \in DOMAIN pages => ReadData(p) = Contents[p]
  BY <1>4 DEF Locate, Contents
<1> HIDE DEF at
<1>6. ReadData(p) \in Value
  <2>1. at.slot + 1 \in 1 .. Len(at.file)
    BY <1>1, <1>2
  <2> QED
    BY <1>2, <1>4, <2>1
<1>7. \A q \in DOMAIN pages : file'[pages[q] + 1] = file[pages[q] + 1]
  BY <1>1, <1>2, UsedInFile
<1>8. Contents' = [Contents EXCEPT ![p] = ReadData(p)]
  BY <1>1, <1>4, <1>7, ContentChanged
<1> QED
  BY <1>3, <1>5, <1>6, <1>8

\* A write to the located slot, of a page that gets entered or not.
LEMMA WrittenFile ==
  ASSUME SlotsInv, NEW p \in Page, NEW v \in Value,
         page_capacity' = Locate(p).page_capacity,
         file' = WriteAt(Locate(p).file, Locate(p).slot, v)
  PROVE  /\ file' \in Seq(Value)
         /\ Len(file') >= Len(Locate(p).file)
         /\ Len(file') > Locate(p).slot
         /\ Len(file') <= page_capacity' + 1
         /\ file'[Locate(p).slot + 1] = v
         /\ \A q \in DOMAIN pages : q # p => file'[pages[q] + 1] = file[pages[q] + 1]
<1> DEFINE at == Locate(p)
<1>1. /\ at.slot \in Nat /\ at.page_capacity \in Nat /\ at.slot <= at.page_capacity
      /\ at.slot <= Len(at.file)
      /\ at.file \in Seq(Value) /\ Len(at.file) \in Nat
      /\ Len(at.file) >= Len(file) /\ Len(at.file) <= at.page_capacity + 1
      /\ \A i \in 1 .. Len(file) : at.file[i] = file[i]
      /\ \A q \in DOMAIN pages : q # p => pages[q] # at.slot
  BY LocateFacts
<1>2. page_capacity' = at.page_capacity /\ file' = WriteAt(at.file, at.slot, v)
  OBVIOUS
<1> HIDE DEF at
<1>3. /\ file' \in Seq(Value)
      /\ Len(file') >= Len(at.file) /\ Len(file') > at.slot
      /\ Len(file') = Len(at.file) \/ Len(file') = at.slot + 1
      /\ file'[at.slot + 1] = v
      /\ \A i \in 1 .. Len(at.file) : i # at.slot + 1 => file'[i] = at.file[i]
  <2>1. at.file \in Seq(Value) /\ at.slot \in Nat /\ at.slot <= Len(at.file)
    BY <1>1, Zenon
  <2>2. ASSUME NEW f \in Seq(Value), NEW slot \in Nat, slot <= Len(f)
        PROVE  /\ WriteAt(f, slot, v) \in Seq(Value)
               /\ Len(WriteAt(f, slot, v)) >= Len(f) /\ Len(WriteAt(f, slot, v)) > slot
               /\ Len(WriteAt(f, slot, v)) = Len(f) \/ Len(WriteAt(f, slot, v)) = slot + 1
               /\ WriteAt(f, slot, v)[slot + 1] = v
               /\ \A i \in 1 .. Len(f) : i # slot + 1 => WriteAt(f, slot, v)[i] = f[i]
    BY <2>2, WriteInside
  <2> DEFINE w == WriteAt(at.file, at.slot, v)
  <2>3. /\ w \in Seq(Value)
        /\ Len(w) >= Len(at.file) /\ Len(w) > at.slot
        /\ Len(w) = Len(at.file) \/ Len(w) = at.slot + 1
        /\ w[at.slot + 1] = v
        /\ \A i \in 1 .. Len(at.file) : i # at.slot + 1 => w[i] = at.file[i]
    BY <2>1, <2>2, Zenon
  <2> HIDE DEF w
  <2>4. file' = w
    BY <1>2 DEF w
  <2> QED
    BY ONLY <2>3, <2>4, Zenon
<1>4. /\ Len(file') >= Len(at.file)
      /\ Len(file') > at.slot
      /\ Len(file') <= page_capacity' + 1
  BY <1>1, <1>2, <1>3
<1>5. ASSUME NEW q \in DOMAIN pages, q # p
      PROVE  file'[pages[q] + 1] = file[pages[q] + 1]
  <2>1. pages[q] \in Nat /\ pages[q] + 1 \in 1 .. Len(file) /\ pages[q] # at.slot
    BY <1>1, <1>5, UsedInFile
  <2>2. pages[q] + 1 \in 1 .. Len(at.file) /\ pages[q] + 1 # at.slot + 1
    BY <1>1, <2>1, Sizes
  <2> QED
    BY <1>1, <1>3, <2>1, <2>2
<1> QED
  BY <1>3, <1>4, <1>5 DEF at

LEMMA WriteStep ==
  ASSUME SlotsInv, NEW p \in Page, NEW v \in Value, write_page(p, v)
  PROVE  SlotsInv' /\ Contents' = [Contents EXCEPT ![p] = v]
<1>1. /\ pages' = Put(pages, p, Locate(p).slot) /\ free_slots' = Locate(p).free_slots
      /\ page_capacity' = Locate(p).page_capacity
      /\ file' = WriteAt(Locate(p).file, Locate(p).slot, v)
  BY DEF write_page
<1>2. /\ file' \in Seq(Value)
      /\ Len(file') >= Len(Locate(p).file)
      /\ Len(file') > Locate(p).slot
      /\ Len(file') <= page_capacity' + 1
      /\ file'[Locate(p).slot + 1] = v
      /\ \A q \in DOMAIN pages : q # p => file'[pages[q] + 1] = file[pages[q] + 1]
  BY <1>1, WrittenFile
<1>3. SlotsInv'
  BY <1>1, <1>2, Placed
<1>4. Contents' = [Contents EXCEPT ![p] = v]
  BY <1>1, <1>2, ContentChanged
<1> QED
  BY <1>3, <1>4

LEMMA DeleteStep ==
  ASSUME SlotsInv, NEW p \in Page, delete_page(p)
  PROVE  SlotsInv' /\ Contents' = [Contents EXCEPT ![p] = Unallocated]
<1>1. CASE p \in DOMAIN pages
  <2>1. /\ pages' = Drop(pages, p) /\ free_slots' = Append(free_slots, pages[p])
        /\ UNCHANGED <<page_capacity, file>>
    BY <1>1 DEF delete_page
  <2>2. SlotsInv'
    BY <1>1, <2>1, SlotFreed
  <2>3. ASSUME NEW q \in Page
        PROVE  Contents'[q] = IF q = p THEN Unallocated ELSE Contents[q]
    BY <2>1 DEF Contents, Drop
  <2> QED
    BY <2>2, <2>3 DEF Contents
<1>2. CASE p \notin DOMAIN pages
  <2>1. UNCHANGED <<pages, free_slots, page_capacity, file>>
    BY <1>2 DEF delete_page, diskVars
  <2>2. SlotsInv'
    BY <2>1, SlotsKept, Sizes DEF SlotsInv, DiskTypeOK
  <2>3. Contents' = Contents /\ Contents[p] = Unallocated
    BY <1>2, <2>1 DEF Contents
  <2> QED
    BY <2>2, <2>3 DEF Contents
<1> QED
  BY <1>1, <1>2

\* A harmless error leaves the slots as they are.
LEMMA ErrorSlots ==
  ASSUME SlotsInv, NEW p \in Page, HarmlessError(p), UNCHANGED pages,
         free_slots' = Locate(p).free_slots,
         page_capacity' = Locate(p).page_capacity,
         file' \in Seq(Value), Len(file') >= Len(Locate(p).file),
         Len(file') <= page_capacity' + 1
  PROVE  SlotsInv'
<1>1. free_slots' = free_slots
  BY DEF HarmlessError, Locate, allocate_new_page
<1>2. page_capacity' \in Nat /\ page_capacity' >= page_capacity /\ Len(file') >= Len(file)
  BY LocateFacts, Sizes
<1> QED
  BY <1>1, <1>2, SlotsKept

LEMMA ReadErrorStep ==
  ASSUME SlotsInv, NEW p \in Page, HarmlessError(p), read_error(p)
  PROVE  SlotsInv' /\ Contents' = Contents
<1>1. /\ free_slots' = Locate(p).free_slots /\ page_capacity' = Locate(p).page_capacity
      /\ file' = Locate(p).file /\ UNCHANGED pages
  BY DEF read_error
<1>2. /\ file' \in Seq(Value) /\ Len(file') <= page_capacity' + 1
      /\ Len(file') >= Len(Locate(p).file)
      /\ \A i \in 1 .. Len(file) : file'[i] = file[i]
  BY <1>1, LocateFacts
<1>3. SlotsInv'
  BY <1>1, <1>2, ErrorSlots
<1>4. Contents' = Contents
  BY <1>1, <1>2, UsedInFile, ContentKept
<1> QED
  BY <1>3, <1>4

LEMMA WriteErrorStep ==
  ASSUME SlotsInv, NEW p \in Page, HarmlessError(p), write_error(p)
  PROVE  /\ SlotsInv'
         /\ \/ Contents' = Contents
            \/ /\ p \in DOMAIN pages
               /\ \E v \in Value : Contents' = [Contents EXCEPT ![p] = v]
<1>1. CASE file' = Locate(p).file
  BY <1>1, ReadErrorStep DEF write_error, read_error
<1>2. ASSUME NEW v \in Value, file' = WriteAt(Locate(p).file, Locate(p).slot, v)
      PROVE  /\ SlotsInv'
             /\ \/ Contents' = Contents
                \/ p \in DOMAIN pages /\ Contents' = [Contents EXCEPT ![p] = v]
  <2>1. /\ free_slots' = Locate(p).free_slots /\ page_capacity' = Locate(p).page_capacity
        /\ UNCHANGED pages
    BY DEF write_error
  <2>2. /\ file' \in Seq(Value)
        /\ Len(file') >= Len(Locate(p).file)
        /\ Len(file') <= page_capacity' + 1
        /\ file'[Locate(p).slot + 1] = v
        /\ \A q \in DOMAIN pages : q # p => file'[pages[q] + 1] = file[pages[q] + 1]
    BY <1>2, <2>1, WrittenFile
  <2>3. SlotsInv'
    BY <2>1, <2>2, ErrorSlots
  <2>4. CASE p \in DOMAIN pages
    <3>1. pages' = Put(pages, p, Locate(p).slot)
      BY <2>1, <2>4 DEF Put, Locate, SlotsInv, DiskTypeOK
    <3>2. Contents' = [Contents EXCEPT ![p] = v]
      BY <2>2, <3>1, ContentChanged
    <3> QED
      BY <2>3, <2>4, <3>2
  <2>5. CASE p \notin DOMAIN pages
    <3>1. Contents' = Contents
      BY <2>1, <2>2, <2>5, ContentKept
    <3> QED
      BY <2>3, <3>1
  <2> QED
    BY <2>4, <2>5
<1> QED
  BY <1>1, <1>2 DEF write_error

\* A failed set_len changes what page_capacity says, and nothing else.
LEMMA GrowthErrorStep ==
  ASSUME SlotsInv, NEW p \in Page, set_len_error(p)
  PROVE  SlotsInv' /\ Contents' = Contents
<1>1. page_capacity' = 2 * page_capacity /\ UNCHANGED <<pages, free_slots, file>>
  BY DEF set_len_error
<1>2. /\ page_capacity' \in Nat /\ page_capacity' >= page_capacity
      /\ file' \in Seq(Value) /\ Len(file') >= Len(file) /\ Len(file') <= page_capacity' + 1
  BY <1>1, Sizes DEF SlotsInv, DiskTypeOK
<1>3. SlotsInv'
  BY <1>1, <1>2, SlotsKept
<1> QED
  BY <1>1, <1>3, ContentKept

-----------------------------------------------------------------------------
(* The scheduler.                                                          *)

\* The worker leaves last, and nothing is submitted to a closed channel.
Shutdown ==
  /\ worker = "exited" => sender # "open" /\ queue = <<>>
  /\ sender = "joined" => worker = "exited"

IInv ==
  /\ TypeOK
  /\ SlotsInv
  /\ Shutdown

\* What the worker takes from the channel.
LEMMA Oldest ==
  ASSUME TypeOK, queue # <<>>
  PROVE  LET r == Head(queue) IN
         /\ r.op \in {"read", "write", "delete"}
         /\ r.page \in Page
         /\ r.op # "delete" => r.client \in Client
         /\ r.op = "write" => r.data \in Value
         /\ Tail(queue) \in Seq(Service!Requests)
<1>1. queue \in Seq(Service!Requests)
  BY DEF TypeOK
<1>2. Head(queue) \in Service!Requests /\ Tail(queue) \in Seq(Service!Requests)
  BY <1>1
<1> QED
  BY <1>2 DEF Service!Requests

LEMMA Initially == Init => IInv
<1> SUFFICES ASSUME Init PROVE IInv
  OBVIOUS
<1> USE DEF Init, DiskInit
<1>1. Capacity \in Nat /\ Capacity > 0 /\ Zero \in Value
  BY CapacityAssumption, ZeroAssumption
<1>2. DOMAIN pages = {} /\ IsFiniteSet(DOMAIN pages) /\ NumPages = 0
  BY FS_EmptySet DEF NumPages
<1>3. free_slots \in Seq(Nat) /\ Len(free_slots) = 0 /\ DOMAIN free_slots = {}
  OBVIOUS
<1>4. file \in Seq(Value) /\ Len(file) = Capacity + 1
  <2>1. Capacity + 1 \in Nat /\ file \in [1 .. Capacity + 1 -> Value]
    BY <1>1
  <2> QED
    BY <2>1
<1>5. UsedSlots = {} /\ FreeSlots = {} /\ NumSlots = 0
  BY <1>2, <1>3 DEF UsedSlots, FreeSlots, NumSlots
<1>6. DiskTypeOK
  BY <1>1, <1>2, <1>3, <1>4 DEF DiskTypeOK
<1>7. SlotsInFile
  BY <1>1, <1>2, <1>3, <1>4 DEF SlotsInFile
<1>8. DistinctSlots /\ FreeDistinct
  BY <1>2, <1>3 DEF DistinctSlots, FreeDistinct
<1>9. SlotsInv
  BY <1>1, <1>2, <1>5, <1>6, <1>7, <1>8 DEF SlotsInv
<1>10. TypeOK
  BY <1>6 DEF TypeOK
<1> QED
  BY <1>9, <1>10 DEF IInv, Shutdown

\* Steps of the clients and of the drop do not touch the disk.
LEMMA SlotsUntouched ==
  ASSUME SlotsInv, UNCHANGED diskVars
  PROVE  SlotsInv' /\ Contents' = Contents
BY ZenonT(30) DEF diskVars, SlotsInv, DiskTypeOK, DistinctSlots, FreeDistinct, UsedSlots, FreeSlots,
       NumSlots, NumPages, SlotsInFile, Contents

\* A client sends a request.
LEMMA SendStep ==
  ASSUME IInv, NEW c \in Client, NEW r \in Service!Requests, Send(c, r)
  PROVE  IInv' /\ ~Service!Awaiting(c) /\ Service!Submit(r)
<1>1. SlotsInv' /\ Contents' = Contents
  BY SlotsUntouched DEF IInv, Send
<1>2. /\ ~Service!Awaiting(c) /\ sender = "open"
      /\ queue' = Append(queue, r) /\ UNCHANGED <<reply, sender, worker>>
  BY DEF Send
<1>3. queue' \in Seq(Service!Requests)
  BY <1>2 DEF IInv, TypeOK
<1>4. TypeOK'
  BY <1>1, <1>2, <1>3 DEF IInv, TypeOK, SlotsInv
<1>5. Shutdown'
  BY <1>2 DEF IInv, Shutdown
<1> QED
  BY <1>1, <1>2, <1>4, <1>5 DEF IInv, Service!Submit

\* The effect of every step the worker takes with a request.
Served ==
  /\ SlotsInv'
  /\ queue # <<>> /\ queue' = Tail(queue)
  /\ worker = "running" /\ UNCHANGED <<sender, worker>>
  /\ reply' \in [Client -> Value \cup {NoReply, Done, Failed}]

LEMMA ServedStep ==
  ASSUME IInv, Served
  PROVE  IInv'
<1>1. queue' \in Seq(Service!Requests)
  BY Oldest DEF IInv, Served
<1>2. TypeOK'
  BY <1>1 DEF IInv, Served, TypeOK, SlotsInv
<1>3. Shutdown'
  BY DEF IInv, Served, Shutdown
<1> QED
  BY <1>2, <1>3 DEF IInv, Served

\* The worker's answer goes to the client of the request.
LEMMA Answered ==
  ASSUME IInv, queue # <<>>, Head(queue).op # "delete",
         NEW v \in Value \cup {Done, Failed}, Respond(v)
  PROVE  /\ reply' = [reply EXCEPT ![Head(queue).client] = v]
         /\ reply' \in [Client -> Value \cup {NoReply, Done, Failed}]
BY Oldest DEF IInv, TypeOK, Respond

LEMMA WorkerReadStep ==
  ASSUME IInv, WorkerRead
  PROVE  Served /\ Service!ServeRead
<1> DEFINE p == Head(queue).page
<1>1. /\ worker = "running" /\ queue # <<>> /\ Head(queue).op = "read"
      /\ queue' = Tail(queue) /\ UNCHANGED <<sender, worker>>
      /\ read_page(p) /\ Respond(ReadData(p))
  BY DEF WorkerRead, Take, Answer
<1>2. p \in Page
  BY <1>1, Oldest DEF IInv
<1> HIDE DEF p
<1>3. /\ SlotsInv'
      /\ ReadData(p) \in Value
      /\ p \in DOMAIN pages => ReadData(p) = Contents[p]
      /\ Contents' = [Contents EXCEPT ![p] = ReadData(p)]
  BY <1>1, <1>2, ReadStep DEF IInv
<1>4. /\ reply' = [reply EXCEPT ![Head(queue).client] = ReadData(p)]
      /\ reply' \in [Client -> Value \cup {NoReply, Done, Failed}]
  BY <1>1, <1>3, Answered
<1>5. ReadData(p) \in IF Contents[p] = Unallocated THEN Value ELSE {Contents[p]}
  BY <1>2, <1>3 DEF Contents
<1>6. Service!ServeRead
  BY <1>1, <1>3, <1>4, <1>5 DEF Service!ServeRead, Service!NextIs, p
<1> QED
  BY <1>1, <1>3, <1>4, <1>6 DEF Served

LEMMA WorkerWriteStep ==
  ASSUME IInv, WorkerWrite
  PROVE  Served /\ Service!ServeWrite
<1> DEFINE p == Head(queue).page
           v == Head(queue).data
<1>1. /\ worker = "running" /\ queue # <<>> /\ Head(queue).op = "write"
      /\ queue' = Tail(queue) /\ UNCHANGED <<sender, worker>>
      /\ write_page(p, v) /\ Respond(Done)
  BY DEF WorkerWrite, Take
<1>2. p \in Page /\ v \in Value
  BY <1>1, Oldest DEF IInv
<1>3. SlotsInv' /\ Contents' = [Contents EXCEPT ![p] = v]
  BY <1>1, <1>2, WriteStep DEF IInv
<1>4. /\ reply' = [reply EXCEPT ![Head(queue).client] = Done]
      /\ reply' \in [Client -> Value \cup {NoReply, Done, Failed}]
  BY <1>1, Answered
<1>5. Service!ServeWrite
  BY <1>1, <1>3, <1>4 DEF Service!ServeWrite, Service!NextIs
<1> QED
  BY <1>1, <1>3, <1>4, <1>5 DEF Served

LEMMA WorkerDeleteStep ==
  ASSUME IInv, WorkerDelete
  PROVE  Served /\ Service!ServeDelete
<1> DEFINE p == Head(queue).page
<1>1. /\ worker = "running" /\ queue # <<>> /\ Head(queue).op = "delete"
      /\ queue' = Tail(queue) /\ UNCHANGED <<sender, worker, reply>>
      /\ delete_page(p)
  BY DEF WorkerDelete, Take
<1>2. p \in Page
  BY <1>1, Oldest DEF IInv
<1>3. SlotsInv' /\ Contents' = [Contents EXCEPT ![p] = Unallocated]
  BY <1>1, <1>2, DeleteStep DEF IInv
<1>4. Service!ServeDelete
  BY <1>1, <1>3 DEF Service!ServeDelete, Service!NextIs
<1> QED
  BY <1>1, <1>3, <1>4 DEF Served, IInv, TypeOK

LEMMA WorkerErrorStep ==
  ASSUME IInv, WorkerReadError \/ WorkerWriteError \/ WorkerGrowthError
  PROVE  Served /\ Service!ServeError
<1> DEFINE p == Head(queue).page
<1>1. /\ worker = "running" /\ queue # <<>> /\ Head(queue).op \in {"read", "write"}
      /\ queue' = Tail(queue) /\ UNCHANGED <<sender, worker>>
      /\ Respond(Failed)
      /\ \/ HarmlessError(p) /\ read_error(p)
         \/ HarmlessError(p) /\ Head(queue).op = "write" /\ write_error(p)
         \/ set_len_error(p)
  BY DEF WorkerReadError, WorkerWriteError, WorkerGrowthError, Take
<1>2. p \in Page
  BY <1>1, Oldest DEF IInv
<1>3. /\ SlotsInv'
      /\ \/ Contents' = Contents
         \/ /\ Head(queue).op = "write"
            /\ p \in DOMAIN pages
            /\ \E v \in Value : Contents' = [Contents EXCEPT ![p] = v]
  BY <1>1, <1>2, ReadErrorStep, WriteErrorStep, GrowthErrorStep DEF IInv
<1>4. /\ reply' = [reply EXCEPT ![Head(queue).client] = Failed]
      /\ reply' \in [Client -> Value \cup {NoReply, Done, Failed}]
  BY <1>1, Answered
<1>5. p \in DOMAIN pages => Contents[p] # Unallocated
  <2>1. ASSUME p \in DOMAIN pages PROVE Contents[p] \in Value
    BY <1>2, <2>1, UsedInFile DEF IInv, SlotsInv, DiskTypeOK, Contents
  <2> QED
    BY <2>1, ContentAssumption
<1>6. Service!ServeError
  BY <1>1, <1>3, <1>4, <1>5 DEF Service!ServeError, Service!NextIs
<1> QED
  BY <1>1, <1>3, <1>4, <1>6 DEF Served

-----------------------------------------------------------------------------
(* The invariant, and the service.                                         *)

\* Every step keeps the invariant and is a step of the service, or none.
LEMMA Step ==
  ASSUME IInv, [Next]_vars
  PROVE  IInv' /\ [Service!ServiceNext]_<<queue, Contents, reply>>
<1>1. ASSUME NEW c \in Client, NEW p \in Page,
             \/ ReadPage(c, p)
             \/ \E v \in Value : WritePage(c, p, v)
             \/ DeletePage(c, p)
      PROVE  IInv' /\ Service!ServiceNext
  <2>1. CASE ReadPage(c, p)
    <3>1. Service!ReadRequest(c, p) \in Service!Requests
      BY DEF Service!ReadRequest, Service!Requests
    <3>2. IInv' /\ ~Service!Awaiting(c) /\ Service!Submit(Service!ReadRequest(c, p))
      BY <2>1, <3>1, SendStep DEF ReadPage
    <3> QED
      BY <3>2, Zenon DEF Service!ServiceNext
  <2>2. ASSUME NEW v \in Value, WritePage(c, p, v)
        PROVE  IInv' /\ Service!ServiceNext
    <3>1. Service!WriteRequest(c, p, v) \in Service!Requests
      BY DEF Service!WriteRequest, Service!Requests
    <3>2. IInv' /\ ~Service!Awaiting(c) /\ Service!Submit(Service!WriteRequest(c, p, v))
      BY <2>2, <3>1, SendStep DEF WritePage
    <3> QED
      BY <3>2, Zenon DEF Service!ServiceNext
  <2>3. CASE DeletePage(c, p)
    <3>1. Service!DeleteRequest(p) \in Service!Requests
      BY DEF Service!DeleteRequest, Service!Requests
    <3>2. IInv' /\ ~Service!Awaiting(c) /\ Service!Submit(Service!DeleteRequest(p))
      BY <2>3, <3>1, SendStep DEF DeletePage
    <3> QED
      BY <3>2, Zenon DEF Service!ServiceNext
  <2> QED
    BY <1>1, <2>1, <2>2, <2>3
<1>2. ASSUME NEW c \in Client, Receive(c)
      PROVE  IInv' /\ Service!ServiceNext
  <2>1. SlotsInv' /\ Contents' = Contents
    BY <1>2, SlotsUntouched DEF IInv, Receive
  <2>2. /\ reply[c] # NoReply /\ reply' = [reply EXCEPT ![c] = NoReply]
        /\ UNCHANGED <<queue, sender, worker>>
    BY <1>2 DEF Receive
  <2>3. IInv'
    BY <2>1, <2>2 DEF IInv, TypeOK, Shutdown, SlotsInv
  <2>4. Service!Collect(c)
    BY <2>1, <2>2 DEF Service!Collect
  <2> QED
    BY <2>3, <2>4 DEF Service!ServiceNext
<1>3. CASE WorkerRead
  BY <1>3, WorkerReadStep, ServedStep DEF Service!ServiceNext, Service!Serve
<1>4. CASE WorkerWrite
  BY <1>4, WorkerWriteStep, ServedStep DEF Service!ServiceNext, Service!Serve
<1>5. CASE WorkerDelete
  BY <1>5, WorkerDeleteStep, ServedStep DEF Service!ServiceNext, Service!Serve
<1>6. CASE WorkerReadError \/ WorkerWriteError \/ WorkerGrowthError
  BY <1>6, WorkerErrorStep, ServedStep DEF Service!ServiceNext, Service!Serve
<1>7. CASE WorkerExit \/ CloseChannel \/ Join \/ UNCHANGED vars
  <2>1. SlotsInv' /\ Contents' = Contents
    BY <1>7, SlotsUntouched DEF IInv, WorkerExit, CloseChannel, Join, vars
  <2>2. UNCHANGED <<queue, reply>>
    BY <1>7 DEF WorkerExit, CloseChannel, Join, vars
  <2>3. TypeOK'
    BY <1>7, <2>1, <2>2 DEF IInv, TypeOK, SlotsInv, WorkerExit, CloseChannel, Join, vars
  <2>4. Shutdown'
    BY <1>7 DEF IInv, Shutdown, WorkerExit, CloseChannel, Join, vars
  <2> QED
    BY <2>1, <2>2, <2>3, <2>4 DEF IInv
<1> QED
  BY <1>1, <1>2, <1>3, <1>4, <1>5, <1>6, <1>7 DEF Next, Worker

\* The slots stay consistent and the shutdown orderly, whatever the requests.
THEOREM Invariance == Spec => []IInv
<1>1. IInv /\ [Next]_vars => IInv'
  BY Step
<1> QED
  BY Initially, <1>1, PTL DEF Spec

\* Every answer and every request in the channel is well-formed.
THEOREM TypeCorrect == Spec => []TypeOK
<1>1. IInv => TypeOK
  BY DEF IInv
<1> QED
  BY Invariance, <1>1, PTL

\* No two pages share a slot, so that writing one never changes another.
THEOREM SlotsDistinct == Spec => []DistinctSlots
<1>1. IInv => DistinctSlots
  BY DEF IInv, SlotsInv
<1> QED
  BY Invariance, <1>1, PTL

\* No slot is lost or given out twice by allocate_new_page and delete_page.
THEOREM SlotsCorrect == Spec => []SlotsPartitioned
<1>1. IInv => SlotsPartitioned
  <2> SUFFICES ASSUME IInv PROVE SlotsPartitioned
    OBVIOUS
  <2> DEFINE n == Len(free_slots)
  <2>1. free_slots \in Seq(Nat) /\ n \in Nat /\ DOMAIN free_slots = 1 .. n
    BY DEF IInv, SlotsInv, DiskTypeOK
  <2>2. NumSlots = NumPages + n
    BY DEF NumSlots
  <2> HIDE DEF n
  <2>3. ExistsBijection(1 .. n, FreeSlots)
    <3> DEFINE b == [i \in 1 .. n |-> free_slots[i]]
    <3>1. b \in [1 .. n -> FreeSlots] /\ \A i \in 1 .. n : b[i] = free_slots[i]
      BY <2>1 DEF FreeSlots
    <3>2. DOMAIN b = 1 .. n
      OBVIOUS
    <3> HIDE DEF b
    <3>3. IsInjective(b)
      BY <2>1, <3>1, <3>2 DEF IInv, SlotsInv, FreeDistinct, IsInjective
    <3>4. \A x \in FreeSlots : \E i \in 1 .. n : b[i] = x
      BY <2>1, <3>1 DEF FreeSlots
    <3> QED
      BY <3>1, <3>3, <3>4, Zenon DEF ExistsBijection, Bijection, Injection, Surjection
  <2>4. Cardinality(FreeSlots) = n
    <3>1. IsFiniteSet(1 .. n) /\ Cardinality(1 .. n) = n
      BY <2>1, FS_Interval
    <3> QED
      BY <2>3, <3>1, FS_Bijection
  <2>5. UsedSlots \cup FreeSlots = 0 .. NumPages + n - 1 /\ UsedSlots \cap FreeSlots = {}
    <3>1. UsedSlots \cup FreeSlots = 0 .. NumSlots - 1 /\ UsedSlots \cap FreeSlots = {}
      BY Zenon DEF IInv, SlotsInv
    <3>2. NumSlots - 1 = NumPages + n - 1
      BY <2>1, <2>2, Sizes DEF IInv
    <3> QED
      BY <3>1, <3>2, Zenon
  <2> QED
    BY <2>4, <2>5 DEF SlotsPartitioned, n
<1> QED
  BY Invariance, <1>1, PTL

\* Every slot that was given out stays inside the file, also when the file could not be
\* grown: a page that has a slot is never read past the end, and set_len never cuts
\* one off.
THEOREM FileHoldsSlots == Spec => []SlotsInFile
<1>1. IInv => SlotsInFile
  BY DEF IInv, SlotsInv
<1> QED
  BY Invariance, <1>1, PTL

\* Drop of the scheduler returns only when every request was served.
THEOREM Drained == Spec => []JoinedMeansDrained
<1>1. IInv => JoinedMeansDrained
  BY DEF IInv, Shutdown, JoinedMeansDrained
<1> QED
  BY Invariance, <1>1, PTL

\* The scheduler, over the real slots and through harmless I/O errors, is the
\* service the buffer pool is modelled against.
THEOREM Refinement == Spec => ImplementsDiskService
<1>1. Init => Service!ServiceInit
  BY DEF Init, DiskInit, Service!ServiceInit, Contents
<1>2. IInv /\ [Next]_vars => [Service!ServiceNext]_<<queue, Contents, reply>>
  BY Step
<1> QED
  BY Invariance, <1>1, <1>2, PTL
     DEF Spec, ImplementsDiskService, Service!ServiceSpec, Service!serviceVars
-----------------------------------------------------------------------------
(* What a read finds.                                                      *)

\* A client that waits has one request in the channel, or its answer.
OneRequestEach ==
  \A i, j \in DOMAIN queue :
    /\ queue[i].op # "delete"
    /\ queue[j].op # "delete"
    /\ queue[i].client = queue[j].client
    => i = j /\ reply[queue[i].client] = NoReply

\* The changes of a page in front of a request have a last one.
LastChangeExists ==
  \A p \in Page : \A i \in 1 .. Len(queue) + 1 :
    ChangesBefore(p, i) # {} =>
      \E k \in ChangesBefore(p, i) : \A l \in ChangesBefore(p, i) : k >= l

ReadsInv == OneRequestEach /\ LastChangeExists

\* Max of a set that has a last element.
LEMMA LastIsMax ==
  ASSUME NEW S \in SUBSET Int, NEW k \in S, \A l \in S : k >= l
  PROVE  Max(S) = k
<1> DEFINE m == Max(S)
<1>1. m \in S /\ \A l \in S : m >= l
  BY DEF Max
<1>2. k \in Int /\ m \in Int
  BY <1>1
<1> HIDE DEF m
<1>3. m >= k /\ k >= m
  BY <1>1
<1>4. m = k
  BY <1>2, <1>3
<1> QED
  BY <1>4 DEF m

\* The channel as a sequence.
LEMMA ChannelFacts ==
  ASSUME IInv
  PROVE  /\ Len(queue) \in Nat
         /\ DOMAIN queue = 1 .. Len(queue)
         /\ \A i \in DOMAIN queue : queue[i] \in Service!Requests /\ queue[i].page \in Page
<1>1. queue \in Seq(Service!Requests)
  BY DEF IInv, TypeOK
<1> QED
  BY <1>1 DEF Service!Requests

\* A submitted request goes behind the others.
LEMMA SubmitFacts ==
  ASSUME IInv, NEW r \in Service!Requests, Service!Submit(r)
  PROVE  /\ Len(queue') = Len(queue) + 1
         /\ DOMAIN queue' = 1 .. Len(queue) + 1
         /\ \A i \in DOMAIN queue : queue'[i] = queue[i]
         /\ queue'[Len(queue) + 1] = r
         /\ \A p, i : i \in 1 .. Len(queue) + 1 =>
              ChangesBefore(p, i)' = ChangesBefore(p, i)
<1>1. queue \in Seq(Service!Requests) /\ queue' = Append(queue, r)
  BY DEF IInv, TypeOK, Service!Submit
<1>2. /\ Len(queue') = Len(queue) + 1
      /\ DOMAIN queue' = 1 .. Len(queue) + 1
      /\ \A i \in 1 .. Len(queue) : queue'[i] = queue[i]
      /\ queue'[Len(queue) + 1] = r
  BY <1>1
<1> QED
  BY <1>2, ChannelFacts DEF ChangesBefore

\* The oldest request is served: the others move up.
LEMMA ServeFacts ==
  ASSUME IInv, queue # <<>>, queue' = Tail(queue)
  PROVE  /\ 1 \in DOMAIN queue /\ Head(queue) = queue[1]
         /\ Len(queue') = Len(queue) - 1
         /\ DOMAIN queue' = 1 .. Len(queue) - 1
         /\ \A i \in DOMAIN queue' : i + 1 \in DOMAIN queue /\ queue'[i] = queue[i + 1]
         /\ \A p : \A i \in 1 .. Len(queue), k \in Int :
              k \in ChangesBefore(p, i)' <=> k > 0 /\ k + 1 \in ChangesBefore(p, i + 1)
<1>1. queue \in Seq(Service!Requests)
  BY DEF IInv, TypeOK
<1>2. /\ 1 \in DOMAIN queue /\ Head(queue) = queue[1]
      /\ Len(queue') = Len(queue) - 1
      /\ DOMAIN queue' = 1 .. Len(queue) - 1
      /\ \A i \in 1 .. Len(queue) - 1 : queue'[i] = queue[i + 1]
  BY <1>1
<1> QED
  BY <1>2, ChannelFacts DEF ChangesBefore
\* The channel is empty at first.
LEMMA InitReads == Init => ReadsInv
BY DEF Init, ReadsInv, OneRequestEach, LastChangeExists, ChangesBefore

\* Whatever a client or the worker does, a client waits for one answer at most.
LEMMA OneRequestStep ==
  ASSUME IInv, OneRequestEach, [Service!ServiceNext]_<<queue, Contents, reply>>
  PROVE  OneRequestEach'
<1> USE DEF OneRequestEach
<1>1. ASSUME NEW c \in Client, ~Service!Awaiting(c), NEW r \in Service!Requests,
             r.op # "delete" => r.client = c, Service!Submit(r)
      PROVE  OneRequestEach'
  <2>1. \A i \in DOMAIN queue : queue[i].op # "delete" => queue[i].client # c
    BY <1>1 DEF Service!Awaiting
  <2>2. reply[c] = NoReply /\ reply' = reply
    BY <1>1 DEF Service!Awaiting, Service!Submit
  <2> QED
    BY <1>1, <2>1, <2>2, SubmitFacts, ChannelFacts
<1>2. ASSUME NEW c \in Client, Service!Collect(c) PROVE OneRequestEach'
  BY <1>2, ChannelFacts DEF Service!Collect, IInv, TypeOK, Service!Requests
<1>3. CASE Service!Serve
  <2>1. queue # <<>> /\ queue' = Tail(queue)
    BY <1>3 DEF Service!Serve, Service!ServeRead, Service!ServeWrite, Service!ServeDelete,
                Service!ServeError, Service!NextIs
  <2>2. Head(queue) = queue[1]
    BY <2>1, ServeFacts
  <2>3. \/ reply' = reply
        \/ /\ Head(queue).op # "delete"
           /\ \E v : reply' = [reply EXCEPT ![Head(queue).client] = v]
    <3>1. CASE Service!ServeRead
      BY <3>1 DEF Service!ServeRead, Service!NextIs
    <3>2. CASE Service!ServeWrite
      BY <3>2 DEF Service!ServeWrite, Service!NextIs
    <3>3. CASE Service!ServeDelete
      BY <3>3 DEF Service!ServeDelete
    <3>4. CASE Service!ServeError
      BY <3>4 DEF Service!ServeError, Service!NextIs
    <3> QED
      BY <1>3, <3>1, <3>2, <3>3, <3>4 DEF Service!Serve
  <2> QED
    <3>1. /\ \A k \in DOMAIN queue : queue[k].op # "delete" => queue[k].client \in Client
          /\ reply \in [Client -> Value \cup {NoReply, Done, Failed}]
      BY ChannelFacts DEF IInv, TypeOK, Service!Requests
    <3> SUFFICES ASSUME NEW i \in DOMAIN queue', NEW j \in DOMAIN queue',
                        queue'[i].op # "delete", queue'[j].op # "delete",
                        queue'[i].client = queue'[j].client
                 PROVE  i = j /\ reply'[queue'[i].client] = NoReply
      OBVIOUS
    <3>2. /\ i + 1 \in DOMAIN queue /\ queue'[i] = queue[i + 1] /\ i \in Nat \ {0}
          /\ j + 1 \in DOMAIN queue /\ queue'[j] = queue[j + 1] /\ j \in Nat \ {0}
          /\ 1 \in DOMAIN queue
      <4>1. i \in 1 .. Len(queue) - 1 /\ j \in 1 .. Len(queue) - 1 /\ Len(queue) \in Nat
        BY <2>1, ServeFacts, ChannelFacts
      <4>2. i \in Nat \ {0} /\ j \in Nat \ {0}
        BY <4>1
      <4>3. /\ 1 \in DOMAIN queue
            /\ \A k \in DOMAIN queue' : k + 1 \in DOMAIN queue /\ queue'[k] = queue[k + 1]
        BY <2>1, ServeFacts
      <4> QED
        BY <4>2, <4>3
    <3>3. i + 1 = j + 1 /\ reply[queue[i + 1].client] = NoReply
      BY <3>2
    <3>4. queue[1].op # "delete" => queue[1].client # queue[i + 1].client
      BY <3>2
    <3>5. i = j
      BY <3>2, <3>3
    <3>6. queue[i + 1].client \in Client
      BY <3>1, <3>2
    <3>7. reply'[queue[i + 1].client] = reply[queue[i + 1].client]
      BY <2>2, <2>3, <3>1, <3>4, <3>6
    <3> QED
      BY <3>2, <3>3, <3>5, <3>7
<1>4. CASE UNCHANGED <<queue, Contents, reply>>
  BY <1>4
<1> QED
  BY <1>1, <1>2, <1>3, <1>4
     DEF Service!ServiceNext, Service!ReadRequest, Service!WriteRequest,
         Service!DeleteRequest, Service!Requests

\* A change that is submitted becomes the last one, and serving moves them all up.
LEMMA LastChangeStep ==
  ASSUME IInv, LastChangeExists, [Service!ServiceNext]_<<queue, Contents, reply>>
  PROVE  LastChangeExists'
<1> USE DEF LastChangeExists
<1>1. ASSUME NEW r \in Service!Requests, Service!Submit(r)
      PROVE  LastChangeExists'
  <2> SUFFICES ASSUME NEW p \in Page, NEW i \in 1 .. Len(queue) + 2,
                      ChangesBefore(p, i)' # {}
               PROVE  \E k \in ChangesBefore(p, i)' : \A l \in ChangesBefore(p, i)' : k >= l
    BY <1>1, SubmitFacts, ChannelFacts
  <2>1. CASE i \in 1 .. Len(queue) + 1
    BY <1>1, <2>1, SubmitFacts
  <2>2. CASE i = Len(queue) + 2
    <3>1. \A k : k \in ChangesBefore(p, i)' <=>
            \/ k \in ChangesBefore(p, i - 1)
            \/ k = Len(queue) + 1 /\ r.page = p /\ r.op # "read"
      BY <1>1, <2>2, SubmitFacts, ChannelFacts DEF ChangesBefore
    <3>2. \A k \in ChangesBefore(p, i - 1) : k \in Int /\ k < Len(queue) + 1
      BY <2>2, ChannelFacts DEF ChangesBefore
    <3>3. i - 1 \in 1 .. Len(queue) + 1
      BY <2>2, ChannelFacts
    <3>4. CASE r.page = p /\ r.op # "read"
      <4>1. Len(queue) + 1 \in ChangesBefore(p, i)'
        BY <3>1, <3>4
      <4>2. \A l \in ChangesBefore(p, i)' : Len(queue) + 1 >= l
        BY <3>1, <3>2, ChannelFacts
      <4> QED
        BY <4>1, <4>2, Zenon
    <3>5. CASE ~(r.page = p /\ r.op # "read")
      <4>1. \A k : k \in ChangesBefore(p, i)' <=> k \in ChangesBefore(p, i - 1)
        BY <3>1, <3>5, Zenon
      <4>2. ChangesBefore(p, i - 1) # {}
        BY <4>1, Zenon
      <4>3. PICK k \in ChangesBefore(p, i - 1) : \A l \in ChangesBefore(p, i - 1) : k >= l
        BY <3>3, <4>2, Zenon
      <4> QED
        BY <4>1, <4>3, Zenon
    <3> QED
      BY <3>4, <3>5, Zenon
  <2> QED
    BY <2>1, <2>2, ChannelFacts
<1>2. CASE Service!Serve
  <2>1. queue # <<>> /\ queue' = Tail(queue)
    BY <1>2 DEF Service!Serve, Service!ServeRead, Service!ServeWrite, Service!ServeDelete,
                Service!ServeError, Service!NextIs
  <2>2. 1 .. Len(queue') + 1 = 1 .. Len(queue)
    <3>1. \A m \in Nat : 1 .. m - 1 + 1 = 1 .. m
      OBVIOUS
    <3>2. Len(queue') = Len(queue) - 1 /\ Len(queue) \in Nat
      BY <2>1, ServeFacts, ChannelFacts
    <3> QED
      BY <3>1, <3>2, Zenon
  <2> SUFFICES ASSUME NEW p \in Page, NEW i \in 1 .. Len(queue),
                      ChangesBefore(p, i)' # {}
               PROVE  \E k \in ChangesBefore(p, i)' : \A l \in ChangesBefore(p, i)' : k >= l
    BY <2>2
  <2>3. \A k \in ChangesBefore(p, i)' : k \in Int /\ k > 0
    BY DEF ChangesBefore
  <2>4. \A k \in Int : k \in ChangesBefore(p, i)' <=>
          k > 0 /\ k + 1 \in ChangesBefore(p, i + 1)
    BY <2>1, ServeFacts
  <2>5. PICK k \in ChangesBefore(p, i + 1) : \A l \in ChangesBefore(p, i + 1) : k >= l
    BY <2>3, <2>4, ChannelFacts, SMTT(20)
  <2>6. k \in Int
    BY DEF ChangesBefore
  <2>7. k - 1 \in ChangesBefore(p, i)'
    BY <2>3, <2>4, <2>5, <2>6
  <2> QED
    BY <2>3, <2>4, <2>5, <2>6, <2>7
<1>3. CASE queue' = queue
  BY <1>3, SMTT(20) DEF ChangesBefore
<1> QED
  BY <1>1, <1>2, <1>3
     DEF Service!ServiceNext, Service!Collect, Service!ReadRequest,
         Service!WriteRequest, Service!DeleteRequest, Service!Requests

\* Every step of the scheduler keeps both.
LEMMA ReadsStep == IInv /\ ReadsInv /\ [Next]_vars => ReadsInv'
  BY Step, OneRequestStep, LastChangeStep DEF ReadsInv

\* Max yields the last change.
LEMMA LastChange ==
  ASSUME LastChangeExists, NEW p \in Page, NEW i \in 1 .. Len(queue) + 1,
         ChangesBefore(p, i) # {}
  PROVE  /\ Max(ChangesBefore(p, i)) \in ChangesBefore(p, i)
         /\ \A l \in ChangesBefore(p, i) : Max(ChangesBefore(p, i)) >= l
<1>1. PICK k \in ChangesBefore(p, i) : \A l \in ChangesBefore(p, i) : k >= l
  BY DEF LastChangeExists
<1>2. ChangesBefore(p, i) \in SUBSET Int
  BY DEF ChangesBefore
<1>3. Max(ChangesBefore(p, i)) = k
  BY <1>1, <1>2, LastIsMax
<1> QED
  BY <1>1, <1>3

\* A request that is submitted changes nothing for those in front of it.
LEMMA FoundBySubmit ==
  ASSUME IInv, LastChangeExists, NEW p \in Page, NEW i \in DOMAIN queue,
         NEW r \in Service!Requests, Service!Submit(r)
  PROVE  ContentBefore(p, i)' = ContentBefore(p, i)
<1>1. /\ Contents' = Contents
      /\ i \in 1 .. Len(queue) + 1
      /\ \A k \in 1 .. Len(queue) : queue'[k] = queue[k]
      /\ i - 1 < Len(queue)
  BY SubmitFacts, ChannelFacts DEF Service!Submit
<1>2. ChangesBefore(p, i)' = ChangesBefore(p, i)
  BY <1>1, SubmitFacts
<1>3. CASE ChangesBefore(p, i) = {}
  BY <1>1, <1>2, <1>3 DEF ContentBefore
<1>4. CASE ChangesBefore(p, i) # {}
  <2> DEFINE last == Max(ChangesBefore(p, i))
  <2>1. last \in 1 .. i - 1
    <3>1. last \in ChangesBefore(p, i)
      BY <1>1, <1>4, LastChange
    <3> QED
      BY <3>1 DEF ChangesBefore
  <2>2. last' = last
    BY <1>2
  <2>3. queue'[last] = queue[last]
    BY <1>1, <2>1, ChannelFacts
  <2> QED
    BY <1>2, <1>4, <2>2, <2>3 DEF ContentBefore
<1> QED
  BY <1>3, <1>4

\* What is left of page p by the request at the head of the channel.
Left(p) ==
  IF queue[1].page # p \/ queue[1].op = "read" THEN Contents[p]
  ELSE IF queue[1].op = "write" THEN queue[1].data ELSE Unallocated

\* Serving the oldest request does to the page what the requests behind it expect.
LEMMA FoundByServe ==
  ASSUME IInv, IInv', LastChangeExists, LastChangeExists', queue # <<>>,
         queue' = Tail(queue), NEW p \in Page, NEW i \in 1 .. Len(queue),
         ChangesBefore(p, i + 1) = {} \/ queue[1].op # "read" => Contents'[p] = Left(p)
  PROVE  ContentBefore(p, i)' = ContentBefore(p, i + 1)
<1>1. /\ \A k \in Int : k \in ChangesBefore(p, i)' <=>
           k > 0 /\ k + 1 \in ChangesBefore(p, i + 1)
      /\ 1 \in DOMAIN queue
      /\ \A k \in DOMAIN queue' : queue'[k] = queue[k + 1]
      /\ i + 1 \in 1 .. Len(queue) + 1
      /\ i \in 1 .. Len(queue') + 1
  BY ServeFacts, ChannelFacts
<1>2. /\ 1 \in ChangesBefore(p, i + 1) <=> queue[1].page = p /\ queue[1].op # "read"
      /\ \A k \in ChangesBefore(p, i + 1) : k \in Int /\ k >= 1
      /\ \A k \in ChangesBefore(p, i)' : k \in Int /\ k >= 1 /\ k \in DOMAIN queue'
  BY ServeFacts, ChannelFacts DEF ChangesBefore
<1>3. CASE ChangesBefore(p, i + 1) = {}
  BY <1>1, <1>2, <1>3 DEF ContentBefore, Left
<1>4. CASE ChangesBefore(p, i + 1) # {}
  <2> DEFINE last == Max(ChangesBefore(p, i + 1))
  <2>1. last \in ChangesBefore(p, i + 1) /\ \A l \in ChangesBefore(p, i + 1) : last >= l
    BY <1>1, <1>4, LastChange
  <2>2. PICK k \in Int : k = last
    BY <1>2, <2>1
  <2>3. CASE k = 1
    <3>1. ChangesBefore(p, i)' = {}
      BY <1>1, <1>2, <2>1, <2>2, <2>3
    <3>2. ContentBefore(p, i + 1) = Left(p) /\ queue[1].op # "read"
      BY <1>2, <1>4, <2>1, <2>2, <2>3 DEF ContentBefore, Left
    <3> QED
      BY <3>1, <3>2 DEF ContentBefore
  <2>4. CASE k # 1
    <3>1. /\ k - 1 \in ChangesBefore(p, i)'
          /\ \A l \in ChangesBefore(p, i)' : k - 1 >= l
      BY <1>1, <1>2, <2>1, <2>2, <2>4
    <3>2. Max(ChangesBefore(p, i)') = k - 1
      <4>1. ChangesBefore(p, i)' \in SUBSET Int
        BY <1>2
      <4> QED
        BY <3>1, <4>1, LastIsMax
    <3>3. queue'[k - 1] = queue[k]
      BY <1>1, <1>2, <3>1
    <3> QED
      BY <1>4, <2>2, <3>1, <3>2, <3>3 DEF ContentBefore
  <2> QED
    BY <2>3, <2>4
<1> QED
  BY <1>3, <1>4

\* A page has its content in the file, or none.
LEMMA ContentsTyped ==
  ASSUME SlotsInv
  PROVE  Contents \in [Page -> Value \cup {Unallocated}]
BY UsedInFile DEF SlotsInv, DiskTypeOK, Contents

\* What a read will find is what it found before a step that fails no request; and
\* if the step serves it, what it is answered.
LEMMA ReadKept ==
  ASSUME IInv, IInv', ReadsInv, ReadsInv',
         [Service!ServiceNext]_<<queue, Contents, reply>>,
         NEW c \in Client, NEW i \in ReadOf(c),
         ~SomeError, ContentAt(i) # Unallocated
  PROVE  IF ReadOf(c)' = {} THEN reply'[c] = ContentAt(i)
         ELSE \A j \in ReadOf(c)' : ContentAt(j)' = ContentAt(i)
<1>1. PICK p \in Page : p = queue[i].page
  BY ChannelFacts DEF ReadOf
<1>2. /\ i \in DOMAIN queue /\ i \in 1 .. Len(queue) /\ queue[i].op = "read"
      /\ queue[i].client = c /\ reply[c] = NoReply
  BY ChannelFacts DEF ReadOf, ReadsInv, OneRequestEach
<1>3. ContentAt(i) = ContentBefore(p, i)
  BY <1>1 DEF ContentAt
<1>4. ASSUME NEW j \in ReadOf(c)', queue'[j].page = p,
             ContentBefore(p, j)' = ContentBefore(p, i)
      PROVE  \A k \in ReadOf(c)' : ContentAt(k)' = ContentAt(i)
  <2>1. \A k \in ReadOf(c)' : k = j
    BY DEF ReadOf, ReadsInv, OneRequestEach
  <2>2. ContentAt(j)' = ContentBefore(p, j)'
    BY <1>4 DEF ContentAt, ContentBefore, ChangesBefore
  <2> QED
    BY <1>3, <1>4, <2>1, <2>2
<1>5. ASSUME NEW r \in Service!Requests, Service!Submit(r)
      PROVE  i \in ReadOf(c)' /\ queue'[i].page = p
             /\ ContentBefore(p, i)' = ContentBefore(p, i)
  BY <1>1, <1>2, <1>5, SubmitFacts, ChannelFacts, FoundBySubmit DEF ReadOf, ReadsInv
<1>6. CASE UNCHANGED <<queue, Contents>>
  <2>1. i \in ReadOf(c)' /\ queue'[i].page = p
    BY <1>1, <1>2, <1>6 DEF ReadOf
  <2>2. ContentBefore(p, i)' = ContentBefore(p, i)
    BY <1>6 DEF ContentBefore, ChangesBefore
  <2> QED
    BY <1>4, <2>1, <2>2
<1>7. CASE Service!Serve
  <2>1. queue # <<>> /\ queue' = Tail(queue) /\ Head(queue) = queue[1]
    BY <1>7, ServeFacts
       DEF Service!Serve, Service!ServeRead, Service!ServeWrite, Service!ServeDelete,
           Service!ServeError, Service!NextIs
  <2>2. ~Service!ServeError
    <3> SUFFICES ASSUME Service!ServeError PROVE SomeError
      OBVIOUS
    <3>1. reply' = [reply EXCEPT ![queue[1].client] = Failed] /\ queue[1].op # "delete"
      BY <2>1 DEF Service!ServeError, Service!NextIs
    <3>2. /\ 1 \in DOMAIN queue /\ queue[1].client \in Client
          /\ reply \in [Client -> Value \cup {NoReply, Done, Failed}]
      BY <2>1, <3>1, ServeFacts, ChannelFacts DEF IInv, TypeOK, Service!Requests
    <3>3. reply[queue[1].client] # Failed
      BY <3>1, <3>2, AnswerAssumption DEF ReadsInv, OneRequestEach
    <3> QED
      BY <3>1, <3>2, <3>3 DEF SomeError
  <2>3. /\ 1 \in DOMAIN queue /\ queue[1].page \in Page
        /\ Contents \in [Page -> Value \cup {Unallocated}]
    BY <2>1, ServeFacts, ChannelFacts, ContentsTyped DEF IInv
  <2>4. CASE i = 1
    <3>1. ReadOf(c)' = {}
      <4> SUFFICES ASSUME NEW k \in ReadOf(c)' PROVE FALSE
        OBVIOUS
      <4>1. /\ k \in DOMAIN queue' /\ k \in 1 .. Len(queue) - 1 /\ Len(queue) \in Nat
            /\ queue'[k].op = "read" /\ queue'[k].client = c
        BY <2>1, ServeFacts, ChannelFacts DEF ReadOf
      <4>2. k + 1 \in DOMAIN queue /\ queue'[k] = queue[k + 1]
        BY <2>1, <4>1, ServeFacts
      <4>3. k + 1 = 1
        BY <1>2, <2>4, <4>1, <4>2 DEF ReadsInv, OneRequestEach
      <4> QED
        BY <4>1, <4>3
    <3>2. ContentBefore(p, i) = Contents[p]
      BY <2>4 DEF ContentBefore, ChangesBefore
    <3>3. reply'[c] = Contents[p]
      <4>1. Service!ServeRead
        BY <1>2, <1>7, <2>1, <2>2, <2>4
           DEF Service!Serve, Service!ServeWrite, Service!ServeDelete, Service!NextIs
      <4>2. reply' = [reply EXCEPT ![c] = Contents[p]]
        BY <1>1, <1>2, <1>3, <2>1, <2>4, <3>2, <4>1 DEF Service!ServeRead
      <4> QED
        BY <4>2 DEF IInv, TypeOK
    <3> QED
      BY <1>3, <3>1, <3>2, <3>3
  <2>5. CASE i # 1
    <3>1. i - 1 \in 1 .. Len(queue) /\ (i - 1) + 1 = i
      BY <1>2, <2>5, ChannelFacts
    <3>2. ChangesBefore(p, i) = {} \/ queue[1].op # "read" => Contents'[p] = Left(p)
      <4>1. CASE Service!ServeRead
        <5>1. PICK v \in Value \cup {Unallocated} :
                /\ queue[1].op = "read"
                /\ Contents[queue[1].page] # Unallocated => v = Contents[queue[1].page]
                /\ Contents' = [Contents EXCEPT ![queue[1].page] = v]
          BY <2>1, <2>3, <4>1 DEF Service!ServeRead, Service!NextIs
        <5>2. ChangesBefore(p, i) = {} => Contents[p] # Unallocated
          BY <1>3 DEF ContentBefore
        <5> QED
          BY <2>3, <5>1, <5>2 DEF Left
      <4>2. CASE Service!ServeWrite
        BY <2>1, <2>3, <4>2 DEF Service!ServeWrite, Service!NextIs, Left
      <4>3. CASE Service!ServeDelete
        BY <2>1, <2>3, <4>3 DEF Service!ServeDelete, Service!NextIs, Left
      <4> QED
        BY <1>7, <2>2, <4>1, <4>2, <4>3 DEF Service!Serve
    <3>3. i - 1 \in ReadOf(c)' /\ queue'[i - 1].page = p
      <4>1. i - 1 \in DOMAIN queue' /\ queue'[i - 1] = queue[i]
        <5>1. i - 1 \in 1 .. Len(queue) - 1
          BY <1>2, <2>5, ChannelFacts
        <5>2. i - 1 \in DOMAIN queue' /\ queue'[i - 1] = queue[(i - 1) + 1]
          BY <2>1, <5>1, ServeFacts
        <5> QED
          BY <3>1, <5>2
      <4> QED
        BY <1>1, <1>2, <4>1 DEF ReadOf
    <3>4. ContentBefore(p, i - 1)' = ContentBefore(p, i)
      <4>1. PICK n \in 1 .. Len(queue) : n = i - 1 /\ n + 1 = i
        BY <3>1
      <4> QED
        BY <2>1, <3>2, <4>1, FoundByServe DEF ReadsInv
    <3> QED
      BY <1>4, <3>3, <3>4
  <2> QED
    BY <2>4, <2>5
<1> QED
  BY <1>4, <1>5, <1>6, <1>7
     DEF Service!ServiceNext, Service!Collect, Service!ReadRequest,
         Service!WriteRequest, Service!DeleteRequest, Service!Requests

\* A read is answered with the last write of its page submitted before it:
\* disk_scheduler.rs serves the channel in order, whatever the slots.
THEOREM ReadsCorrect == Spec => ReadsSeeEarlierWrites
<1>1. IInv /\ ReadsInv /\ IInv' /\ ReadsInv' /\ [Next]_vars =>
        [\A c \in Client : \A i \in ReadOf(c) :
           ~SomeError /\ ContentAt(i) # Unallocated =>
             IF ReadOf(c)' = {} THEN reply'[c] = ContentAt(i)
             ELSE \A j \in ReadOf(c)' : ContentAt(j)' = ContentAt(i)]_vars
  <2> SUFFICES ASSUME IInv, ReadsInv, IInv', ReadsInv', [Next]_vars,
                      NEW c \in Client, NEW i \in ReadOf(c),
                      ~SomeError, ContentAt(i) # Unallocated
               PROVE  IF ReadOf(c)' = {} THEN reply'[c] = ContentAt(i)
                      ELSE \A j \in ReadOf(c)' : ContentAt(j)' = ContentAt(i)
    OBVIOUS
  <2>1. [Service!ServiceNext]_<<queue, Contents, reply>>
    BY Step
  <2> QED
    BY <2>1, ReadKept
<1> QED
  BY Invariance, InitReads, ReadsStep, <1>1, PTL DEF Spec, ReadsSeeEarlierWrites
=============================================================================
