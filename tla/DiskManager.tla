----------------------------- MODULE DiskManager -----------------------------
(***************************************************************************)
(* The database file of storage/disk/disk_manager.rs.                      *)
(*                                                                         *)
(* Offsets are counted in pages: slot s is the bytes at s * PAGE_SIZE and  *)
(* file[s + 1] is what they hold.  pages maps a page id to its slot.       *)
(* free_slots is the stack of slots of deleted pages.                      *)
(*                                                                         *)
(* The names are prefixed where DiskScheduler, which extends this module,  *)
(* has one of its own.                                                     *)
(***************************************************************************)
EXTENDS Integers, FiniteSets, SequencesExt

CONSTANTS Page,                 \* page ids
          Value,                \* what a page may hold
          Zero,                 \* the value of a zero-filled page
          Capacity              \* DEFAULT_DB_FILE_PAGE_CAPACITY

ASSUME CapacityAssumption == Capacity \in Nat \ {0}
ASSUME ZeroAssumption == Zero \in Value

VARIABLES pages, free_slots, page_capacity, file

diskVars == <<pages, free_slots, page_capacity, file>>

Put(f, x, y) == [z \in DOMAIN f \cup {x} |-> IF z = x THEN y ELSE f[z]]
Drop(f, x) == [z \in DOMAIN f \ {x} |-> f[z]]

\* File::set_len: new pages are zero-filled.
SetLen(f, n) == [i \in 1 .. n |-> IF i <= Len(f) THEN f[i] ELSE Zero]

\* A write past the end extends the file.
WriteAt(f, slot, v) ==
  [i \in 1 .. (IF slot < Len(f) THEN Len(f) ELSE slot + 1) |->
     IF i = slot + 1 THEN v ELSE IF i <= Len(f) THEN f[i] ELSE Zero]

DiskInit ==
  /\ pages = [p \in {} |-> 0]
  /\ free_slots = <<>>
  /\ page_capacity = Capacity
  /\ file = [i \in 1 .. Capacity + 1 |-> Zero]

NumPages == Cardinality(DOMAIN pages)

FileFull == NumPages >= page_capacity

\* What allocate_new_page returns and leaves behind when set_len succeeds.
\* Deleted slots are used first; a fresh slot is numbered by the live pages.
allocate_new_page ==
  IF free_slots # <<>>
  THEN [slot |-> Last(free_slots), free_slots |-> Front(free_slots),
        page_capacity |-> page_capacity, file |-> file]
  ELSE [slot |-> NumPages, free_slots |-> free_slots,
        page_capacity |-> IF FileFull THEN 2 * page_capacity ELSE page_capacity,
        file |-> IF FileFull THEN SetLen(file, 2 * page_capacity + 1) ELSE file]

\* Variant that forgets the slot a page already has.
LocateAfresh(p) == allocate_new_page

\* The slot of a page, allocated on the fly if it has none.
Locate(p) ==
  IF p \in DOMAIN pages
  THEN [slot |-> pages[p], free_slots |-> free_slots,
        page_capacity |-> page_capacity, file |-> file]
  ELSE allocate_new_page

\* What read_page(p) fills its caller's buffer with.
ReadData(p) == LET at == Locate(p) IN at.file[at.slot + 1]

read_page(p) ==
  LET at == Locate(p) IN
  /\ at.slot < Len(at.file)                   \* read_exact
  /\ pages' = Put(pages, p, at.slot)
  /\ free_slots' = at.free_slots
  /\ page_capacity' = at.page_capacity
  /\ file' = at.file

write_page(p, v) ==
  LET at == Locate(p) IN
  /\ pages' = Put(pages, p, at.slot)
  /\ free_slots' = at.free_slots
  /\ page_capacity' = at.page_capacity
  /\ file' = WriteAt(at.file, at.slot, v)

\* Variant that forgets to give the slot back.
delete_without_push(p) ==
  /\ pages' = Drop(pages, p)
  /\ UNCHANGED <<free_slots, page_capacity, file>>

\* A page that has no slot is a PageNotFound and changes nothing.
delete_page(p) ==
  IF p \in DOMAIN pages
  THEN /\ pages' = Drop(pages, p)
       /\ free_slots' = Append(free_slots, pages[p])
       /\ UNCHANGED <<page_capacity, file>>
  ELSE UNCHANGED diskVars

DiskNext ==
  \E p \in Page :
    \/ read_page(p)
    \/ \E v \in Value : write_page(p, v)
    \/ delete_page(p)

DiskSpec == DiskInit /\ [][DiskNext]_diskVars

-----------------------------------------------------------------------------
(***************************************************************************)
(* I/O failures.  The calls below return an error half-way.                *)
(***************************************************************************)

\* Variant that enters the page before it is read.
read_error_entered(p) ==
  LET at == Locate(p) IN
  /\ pages' = Put(pages, p, at.slot)
  /\ free_slots' = at.free_slots
  /\ page_capacity' = at.page_capacity
  /\ file' = at.file

\* seek or read_exact fails after the slot was located: what the allocation
\* changed stays changed, but the page is not entered in pages.  A slot past the
\* end of the file, which only a failed set_len leaves to be given out, is read
\* with this error however well the file system works.
read_error(p) ==
  LET at == Locate(p) IN
  /\ free_slots' = at.free_slots
  /\ page_capacity' = at.page_capacity
  /\ file' = at.file
  /\ UNCHANGED pages

\* The same for a write, part of which may have reached the file.
write_error(p) ==
  LET at == Locate(p) IN
  /\ free_slots' = at.free_slots
  /\ page_capacity' = at.page_capacity
  /\ \/ file' = at.file
     \/ \E v \in Value : file' = WriteAt(at.file, at.slot, v)
  /\ UNCHANGED pages

\* set_len fails after page_capacity was doubled: the file is shorter than
\* page_capacity says, and is not grown until that is reached.
set_len_error(p) ==
  /\ p \notin DOMAIN pages
  /\ free_slots = <<>>
  /\ FileFull
  /\ page_capacity' = 2 * page_capacity
  /\ UNCHANGED <<pages, free_slots, file>>

\* The failed transfers after which no slot is lost: those of a page that has a slot,
\* or that was about to get a fresh one.  A slot popped from free_slots, on the other
\* hand, is lost.  (A failed set_len loses no slot either.)
HarmlessError(p) == p \in DOMAIN pages \/ free_slots = <<>>

FaultyNext ==
  \/ DiskNext
  \/ \E p \in Page : read_error(p) \/ write_error(p) \/ set_len_error(p)

FaultySpec == DiskInit /\ [][FaultyNext]_diskVars

-----------------------------------------------------------------------------
(***************************************************************************)
(* Properties                                                              *)
(***************************************************************************)

DiskTypeOK ==
  /\ DOMAIN pages \subseteq Page
  /\ pages \in [DOMAIN pages -> Nat]
  /\ free_slots \in Seq(Nat)
  /\ page_capacity \in Nat
  /\ file \in Seq(Value)

UsedSlots == {pages[p] : p \in DOMAIN pages}
FreeSlots == {free_slots[i] : i \in DOMAIN free_slots}

\* No two pages share a slot, so that writing one never changes another.
DistinctSlots ==
  \A p, q \in DOMAIN pages : p # q => pages[p] # pages[q]

\* No slot is lost or given out twice: the first slots of the file, as many as
\* there are live pages and deleted slots, are each in use or free, not both.
\* It is what makes pages.len() a slot that nobody uses when free_slots is empty.
SlotsPartitioned ==
  /\ UsedSlots \cup FreeSlots = 0 .. NumPages + Len(free_slots) - 1
  /\ UsedSlots \cap FreeSlots = {}
  /\ Cardinality(FreeSlots) = Len(free_slots)

\* Every slot in use or free is inside the file, also when set_len failed with
\* page_capacity already doubled, so that a page that has a slot is never read past
\* the end; and the file has at most one page more than page_capacity counts, so that
\* set_len, which also truncates, never cuts off a page.
SlotsInFile ==
  /\ NumPages + Len(free_slots) <= Len(file)
  /\ NumPages + Len(free_slots) <= page_capacity
  /\ Len(file) <= page_capacity + 1

\* "Returns the offset within the file for the new page, gives away previously
\* deleted pages first before using fresh pages" (the comment on
\* allocate_new_page): the slot for the new page is not one another page has.
AllocatedSlotIsUnused == allocate_new_page.slot \notin UsedSlots
=============================================================================
