----------------------------- MODULE BufferPool -----------------------------
(***************************************************************************)
(* The buffer pool of buffer/bpm.rs and the page guards of                 *)
(* buffer/page_guard.rs, used by several threads.                          *)
(*                                                                         *)
(* One mutex protects the bookkeeping (page table, frame metas, free list, *)
(* replacer); every frame has a read-write latch of its own that protects  *)
(* the bytes of the page in it.  What a thread does under the mutex        *)
(* between two operations that may block it is one action.  The blocking   *)
(* operations are: locking the mutex, latching a frame, and waiting for    *)
(* the disk.  mutex names the thread that keeps the mutex while blocked.   *)
(*                                                                         *)
(* Below are the disk (DiskService) and the replacement policy (Replacer), *)
(* each by its contract.  Which free or evictable frame is taken is left   *)
(* open, so that free_list is a set.  Above are the callers, assumed       *)
(*  - to use page ids that new_page returned;                              *)
(*  - to ask for pages in increasing order while they hold others, which   *)
(*    excludes the deadlocks among page latches that are theirs to avoid;  *)
(*  - not to write a page they deleted (page ids are never reused).  They  *)
(*    may still read it: an index scan holds no latch between two leaves.  *)
(***************************************************************************)
EXTENDS Integers, FiniteSets, Sequences

CONSTANTS Thread, Frame, Value,
          Zero,                 \* the content of a frame that was never used
          MaxPage,              \* bound on next_page_id
          MaxGuards,            \* bound on the guards a thread holds at a time
          MaxDeletes,           \* bound on the pages deleted
          Unallocated, NoReply, Done, Failed,
          NoThread, NoFrame, NoPage

Page == 1 .. MaxPage

ASSUME BoundsAssumption == MaxPage \in Nat
ASSUME ValueAssumption == Zero \in Value
ASSUME ReplyAssumption ==
  /\ Done # Failed /\ Done # NoReply /\ Failed # NoReply
  /\ Value \cap {NoReply, Done, Failed, Unallocated} = {}
ASSUME NullAssumption ==
  NoThread \notin Thread /\ NoFrame \notin Frame /\ NoPage \notin Page

VARIABLES mutex,                \* the thread inside the mutex, or NoThread
          page_table,           \* Page -> frame or NoFrame
          frame_metas,          \* Frame -> [page_id, pin_count, is_dirty]
          free_list, replacer, next_page_id,
          data,                 \* Frame -> the bytes of its page
          latch,                \* Frame -> [writer, readers]
          guards,               \* page guards that exist or wait for their latch
          call,                 \* Thread -> [pc, page, frame, mode]
          retired,              \* history: the pages deleted so far
          queue, stored, reply  \* the disk

poolVars == <<page_table, frame_metas, free_list, replacer, next_page_id>>
diskVars == <<queue, stored, reply>>
vars == <<mutex, poolVars, data, latch, guards, call, retired, diskVars>>

Rep == INSTANCE Replacer
Disk == INSTANCE DiskService WITH Client <- Thread

Mode == {"read", "write"}

\* A guard is pinned from the moment pin_count counts it and open once its
\* thread has the latch.
Guard == [owner : Thread, page : Page, frame : Frame, mode : Mode, open : BOOLEAN]

FrameMeta == [page_id : Page \cup {NoPage}, pin_count : Nat, is_dirty : BOOLEAN]

GuardFor(t, p, f, mode, open) ==
  [owner |-> t, page |-> p, frame |-> f, mode |-> mode, open |-> open]

Idle == [pc |-> "idle", page |-> NoPage, frame |-> NoFrame, mode |-> "read"]

\* Where a thread is inside a call.
PC == {"idle",
       "latch",         \* pinned a loaded page, waits for the frame's latch
       "free_latch",    \* took a free frame, waits for its latch   (has the mutex)
       "victim_latch",  \* evicted a frame, waits for its latch     (has the mutex)
       "flush",         \* waits for the victim to be written       (has the mutex)
       "load",          \* waits for the page to be read            (has the mutex)
       "unlatch",       \* a dropped guard is unpinned but still latched
       "delete",        \* unloaded a page, has not yet sent the delete
       "failed"}        \* the call is about to return an error

Reset == [page_id |-> NoPage, pin_count |-> 0, is_dirty |-> FALSE]

Init ==
  /\ mutex = NoThread
  /\ page_table = [p \in Page |-> NoFrame]
  /\ frame_metas = [f \in Frame |-> Reset]
  /\ free_list = Frame
  /\ replacer = Rep!Empty
  /\ next_page_id = 1
  /\ data = [f \in Frame |-> Zero]
  /\ latch = [f \in Frame |-> [writer |-> NoThread, readers |-> {}]]
  /\ guards = {}
  /\ call = [t \in Thread |-> Idle]
  /\ retired = {}
  /\ Disk!ServiceInit

-----------------------------------------------------------------------------
(* Latches, guards and calls.                                              *)

MutexFree == mutex = NoThread

Unlatched(f) == latch[f].writer = NoThread /\ latch[f].readers = {}

CanLatch(f, mode) == IF mode = "write" THEN Unlatched(f)
                                       ELSE latch[f].writer = NoThread

Latched(t, f, mode) ==
  [latch EXCEPT ![f] = IF mode = "write"
                       THEN [writer |-> t, readers |-> @.readers]
                       ELSE [writer |-> @.writer, readers |-> @.readers \cup {t}]]

Released(t, f) ==
  [latch EXCEPT ![f] = [writer  |-> IF @.writer = t THEN NoThread ELSE @.writer,
                        readers |-> @.readers \ {t}]]

GuardsOf(t) == {g \in guards : g.owner = t}

\* What the callers of read_page and write_page are assumed to ask for.
MayAsk(t, p, mode) ==
  /\ call[t] = Idle
  /\ p < next_page_id
  /\ Cardinality(GuardsOf(t)) < MaxGuards
  /\ \A g \in GuardsOf(t) : g.page < p
  /\ mode = "write" => p \notin retired

At(t, pc) == call[t].pc = pc

Goto(t, pc) == call' = [call EXCEPT ![t].pc = pc]

Return(t) == call' = [call EXCEPT ![t] = Idle]

Fail(t) == call' = [call EXCEPT ![t] = [Idle EXCEPT !.pc = "failed"]]

-----------------------------------------------------------------------------
(* new_page, and read_page or write_page of a page that is loaded.         *)

new_page(t) ==
  /\ At(t, "idle")
  /\ MutexFree
  /\ next_page_id <= MaxPage
  /\ next_page_id' = next_page_id + 1
  /\ UNCHANGED <<mutex, page_table, frame_metas, free_list, replacer, data, latch,
                 guards, call, retired, diskVars>>

\* Variant that records the access and leaves the frame evictable.
PinnedButEvictable(r, f) == Rep!record_access(r, f)

Pinned(r, f) == Rep!set_evictable(Rep!record_access(r, f), f, FALSE)

\* Variant that keeps the mutex while it waits for the latch.
PinLoadedInMutex(t, p, mode) ==
  LET f == page_table[p] IN
  /\ MayAsk(t, p, mode)
  /\ MutexFree
  /\ f # NoFrame
  /\ frame_metas' = [frame_metas EXCEPT ![f].pin_count = @ + 1]
  /\ replacer' = Pinned(replacer, f)
  /\ guards' = guards \cup {GuardFor(t, p, f, mode, FALSE)}
  /\ call' = [call EXCEPT ![t] =
       [pc |-> "latch", page |-> p, frame |-> f, mode |-> mode]]
  /\ mutex' = t
  /\ UNCHANGED <<page_table, free_list, next_page_id, data, latch, retired, diskVars>>

\* pin_loaded_page; the mutex is released before the latch is asked for.
PinLoaded(t, p, mode) ==
  LET f == page_table[p] IN
  /\ MayAsk(t, p, mode)
  /\ MutexFree
  /\ f # NoFrame
  /\ frame_metas' = [frame_metas EXCEPT ![f].pin_count = @ + 1]
  /\ replacer' = Pinned(replacer, f)
  /\ guards' = guards \cup {GuardFor(t, p, f, mode, FALSE)}
  /\ call' = [call EXCEPT ![t] =
       [pc |-> "latch", page |-> p, frame |-> f, mode |-> mode]]
  /\ UNCHANGED <<mutex, page_table, free_list, next_page_id, data, latch, retired,
                 diskVars>>

\* frames[frame_id].page.read() or .write() returns.
OpenGuard(t) ==
  LET c == call[t] IN
  /\ At(t, "latch")
  /\ CanLatch(c.frame, c.mode)
  /\ latch' = Latched(t, c.frame, c.mode)
  /\ guards' = (guards \ {GuardFor(t, c.page, c.frame, c.mode, FALSE)})
                      \cup {GuardFor(t, c.page, c.frame, c.mode, TRUE)}
  /\ Return(t)
  /\ UNCHANGED <<mutex, poolVars, data, retired, diskVars>>

-----------------------------------------------------------------------------
(* read_page or write_page of a page that is not loaded.                   *)

Missing(t, p, mode) ==
  /\ MayAsk(t, p, mode)
  /\ MutexFree
  /\ page_table[p] = NoFrame

TakeFreeFrame(t, p, mode) ==
  /\ Missing(t, p, mode)
  /\ \E f \in free_list :
       /\ free_list' = free_list \ {f}
       /\ call' = [call EXCEPT ![t] =
            [pc |-> "free_latch", page |-> p, frame |-> f, mode |-> mode]]
  /\ mutex' = t
  /\ UNCHANGED <<page_table, frame_metas, replacer, next_page_id, data, latch, guards,
                 retired, diskVars>>

TakeVictim(t, p, mode) ==
  /\ Missing(t, p, mode)
  /\ free_list = {}
  /\ \E f \in replacer.evictable :
       /\ replacer' = Rep!forget(replacer, f)
       /\ call' = [call EXCEPT ![t] =
            [pc |-> "victim_latch", page |-> p, frame |-> f, mode |-> mode]]
  /\ mutex' = t
  /\ UNCHANGED <<page_table, frame_metas, free_list, next_page_id, data, latch, guards,
                 retired, diskVars>>

NoAvailableFrame(t, p, mode) ==
  /\ Missing(t, p, mode)
  /\ free_list = {}
  /\ replacer.evictable = {}
  /\ Fail(t)
  /\ UNCHANGED <<mutex, poolVars, data, latch, guards, retired, diskVars>>

\* disk_scheduler.read_page sends its request and waits.
SendRead(t) == queue' = Append(queue, Disk!ReadRequest(t, call[t].page))

LatchFreeFrame(t) ==
  LET f == call[t].frame IN
  /\ At(t, "free_latch")
  /\ Unlatched(f)
  /\ latch' = Latched(t, f, "write")
  /\ SendRead(t)
  /\ Goto(t, "load")
  /\ UNCHANGED <<mutex, poolVars, data, guards, retired, stored, reply>>

\* Variant that leaves the frame's meta as it was.
UnloadWithoutReset(f) ==
  /\ page_table' = [page_table EXCEPT ![frame_metas[f].page_id] = NoFrame]
  /\ UNCHANGED frame_metas

\* The victim leaves the page table once its content is safe on disk.
Unload(f) ==
  /\ page_table' = [page_table EXCEPT ![frame_metas[f].page_id] = NoFrame]
  /\ frame_metas' = [frame_metas EXCEPT ![f] = Reset]

LatchCleanVictim(t) ==
  LET f == call[t].frame IN
  /\ At(t, "victim_latch")
  /\ Unlatched(f)
  /\ ~frame_metas[f].is_dirty
  /\ latch' = Latched(t, f, "write")
  /\ Unload(f)
  /\ SendRead(t)
  /\ Goto(t, "load")
  /\ UNCHANGED <<mutex, free_list, replacer, next_page_id, data, guards, retired,
                 stored, reply>>

LatchDirtyVictim(t) ==
  LET f == call[t].frame IN
  /\ At(t, "victim_latch")
  /\ Unlatched(f)
  /\ frame_metas[f].is_dirty
  /\ latch' = Latched(t, f, "write")
  /\ queue' = Append(queue, Disk!WriteRequest(t, frame_metas[f].page_id, data[f]))
  /\ Goto(t, "flush")
  /\ UNCHANGED <<mutex, poolVars, data, guards, retired, stored, reply>>

Flushed(t) ==
  LET f == call[t].frame IN
  /\ At(t, "flush")
  /\ reply[t] = Done
  /\ reply' = [reply EXCEPT ![t] = NoReply]
  /\ Unload(f)
  /\ SendRead(t)
  /\ Goto(t, "load")
  /\ UNCHANGED <<mutex, free_list, replacer, next_page_id, data, latch, guards,
                 retired, stored>>

\* The victim could not be written: the replacer gets it back.
FlushFailed(t) ==
  LET f == call[t].frame IN
  /\ At(t, "flush")
  /\ reply[t] = Failed
  /\ reply' = [reply EXCEPT ![t] = NoReply]
  /\ replacer' = Rep!set_evictable(Rep!record_access(replacer, f), f, TRUE)
  /\ latch' = Released(t, f)
  /\ mutex' = NoThread
  /\ Fail(t)
  /\ UNCHANGED <<page_table, frame_metas, free_list, next_page_id, data, guards,
                 retired, queue, stored>>

\* Variant that forgets the guard about to be returned.
PublishedUnpinned(p) == [page_id |-> p, pin_count |-> 0, is_dirty |-> FALSE]

Published(p) == [page_id |-> p, pin_count |-> 1, is_dirty |-> FALSE]

\* The page was read: publish_loaded_page.  A reader trades its write latch for
\* a read latch before it releases the mutex, so that nobody comes in between.
Loaded(t) ==
  LET c == call[t] IN
  /\ At(t, "load")
  /\ reply[t] \in Value
  /\ reply' = [reply EXCEPT ![t] = NoReply]
  /\ data' = [data EXCEPT ![c.frame] = reply[t]]
  /\ page_table' = [page_table EXCEPT ![c.page] = c.frame]
  /\ frame_metas' = [frame_metas EXCEPT ![c.frame] = Published(c.page)]
  /\ replacer' = Pinned(replacer, c.frame)
  /\ latch' = [latch EXCEPT ![c.frame] =
       IF c.mode = "write" THEN [writer |-> t, readers |-> {}]
                           ELSE [writer |-> NoThread, readers |-> {t}]]
  /\ guards' = guards \cup {GuardFor(t, c.page, c.frame, c.mode, TRUE)}
  /\ mutex' = NoThread
  /\ Return(t)
  /\ UNCHANGED <<free_list, next_page_id, retired, queue, stored>>

\* The page could not be read.  The frame is in no structure any more.
LoadFailed(t) ==
  /\ At(t, "load")
  /\ reply[t] = Failed
  /\ reply' = [reply EXCEPT ![t] = NoReply]
  /\ latch' = Released(t, call[t].frame)
  /\ mutex' = NoThread
  /\ Fail(t)
  /\ UNCHANGED <<poolVars, data, guards, retired, queue, stored>>

ReturnError(t) ==
  /\ At(t, "failed")
  /\ Return(t)
  /\ UNCHANGED <<mutex, poolVars, data, latch, guards, retired, diskVars>>

-----------------------------------------------------------------------------
(* Using and dropping a guard.                                             *)

\* The owner of a write guard changes the page through DerefMut.
Modify(g, v) ==
  /\ g.mode = "write" /\ g.open
  /\ call[g.owner] = Idle
  /\ data' = [data EXCEPT ![g.frame] = v]
  /\ UNCHANGED <<mutex, poolVars, latch, guards, call, retired, diskVars>>

\* Variant in which a write guard's drop does not mark the frame.
DroppedClean(meta, mode) == [meta EXCEPT !.pin_count = @ - 1]

\* Variant in which a write guard unpins twice.
DroppedTwice(meta, mode) ==
  [meta EXCEPT !.pin_count = IF mode = "write" THEN @ - 2 ELSE @ - 1,
               !.is_dirty = @ \/ mode = "write"]

Dropped(meta, mode) ==
  [meta EXCEPT !.pin_count = @ - 1, !.is_dirty = @ \/ mode = "write"]

\* Variant in which the first of several guards to go makes the frame evictable.
AnyDropEvicts(meta) == TRUE

LastDropEvicts(meta) == meta.pin_count = 1

\* Drop of ReadPageGuard and WritePageGuard, which runs before the latch inside
\* the guard is released.
Unpin(g) ==
  LET f == g.frame IN
  /\ g.open
  /\ call[g.owner] = Idle
  /\ MutexFree
  /\ frame_metas' = [frame_metas EXCEPT ![f] = Dropped(@, g.mode)]
  /\ replacer' = IF LastDropEvicts(frame_metas[f])
                 THEN Rep!set_evictable(replacer, f, TRUE)
                 ELSE replacer
  /\ guards' = guards \ {g}
  /\ call' = [call EXCEPT ![g.owner] = [Idle EXCEPT !.pc = "unlatch", !.frame = f]]
  /\ UNCHANGED <<mutex, page_table, free_list, next_page_id, data, latch, retired,
                 diskVars>>

Unlatch(t) ==
  /\ At(t, "unlatch")
  /\ latch' = Released(t, call[t].frame)
  /\ Return(t)
  /\ UNCHANGED <<mutex, poolVars, data, guards, retired, diskVars>>

-----------------------------------------------------------------------------
(* delete_page.                                                            *)

MayDelete(t, p) ==
  /\ call[t] = Idle
  /\ MutexFree
  /\ p < next_page_id
  /\ p \notin retired
  /\ Cardinality(retired) < MaxDeletes

\* Variant without the pin check.
DeletablePinned(f) == TRUE

Deletable(f) == frame_metas[f].pin_count = 0

PagePinned(t, p) ==
  /\ MayDelete(t, p)
  /\ page_table[p] # NoFrame
  /\ ~Deletable(page_table[p])
  /\ Fail(t)
  /\ UNCHANGED <<mutex, poolVars, data, latch, guards, retired, diskVars>>

\* Variant that does not push the frame.
FreedNever(f) == free_list

Freed(f) == free_list \cup {f}

DeleteLoaded(t, p) ==
  LET f == page_table[p] IN
  /\ MayDelete(t, p)
  /\ f # NoFrame
  /\ Deletable(f)
  /\ replacer' = Rep!forget(replacer, f)
  /\ free_list' = Freed(f)
  /\ Unload(f)
  /\ retired' = retired \cup {p}
  /\ call' = [call EXCEPT ![t] = [Idle EXCEPT !.pc = "delete", !.page = p]]
  /\ UNCHANGED <<mutex, next_page_id, data, latch, guards, diskVars>>

DeleteUnloaded(t, p) ==
  /\ MayDelete(t, p)
  /\ page_table[p] = NoFrame
  /\ retired' = retired \cup {p}
  /\ call' = [call EXCEPT ![t] = [Idle EXCEPT !.pc = "delete", !.page = p]]
  /\ UNCHANGED <<mutex, poolVars, data, latch, guards, diskVars>>

\* Variant that only unloads the page.
DeleteUnsent(p) == queue

DeleteSent(p) == Append(queue, Disk!DeleteRequest(p))

\* The request is sent without the mutex, and nobody waits for it.
SendDelete(t) ==
  /\ At(t, "delete")
  /\ queue' = DeleteSent(call[t].page)
  /\ Return(t)
  /\ UNCHANGED <<mutex, poolVars, data, latch, guards, retired, stored, reply>>

-----------------------------------------------------------------------------
\* The worker of the disk scheduler.
Worker ==
  /\ Disk!Serve
  /\ UNCHANGED <<mutex, poolVars, data, latch, guards, call, retired>>

Call(t) ==
  \/ new_page(t)
  \/ \E p \in Page, mode \in Mode :
       \/ PinLoaded(t, p, mode) \/ TakeFreeFrame(t, p, mode)
       \/ TakeVictim(t, p, mode) \/ NoAvailableFrame(t, p, mode)
  \/ \E p \in Page : PagePinned(t, p) \/ DeleteLoaded(t, p) \/ DeleteUnloaded(t, p)

\* Steps of a thread that keeps the mutex.
Locked(t) ==
  \/ LatchFreeFrame(t) \/ LatchCleanVictim(t) \/ LatchDirtyVictim(t)
  \/ Flushed(t) \/ FlushFailed(t) \/ Loaded(t) \/ LoadFailed(t)

\* Steps that need no lock at all.
Free(t) == ReturnError(t) \/ Unlatch(t) \/ SendDelete(t)

Close(t) == \E g \in GuardsOf(t) : Unpin(g)

Next ==
  \/ \E t \in Thread : Call(t) \/ OpenGuard(t) \/ Locked(t) \/ Free(t) \/ Close(t)
  \/ \E g \in guards, v \in Value : Modify(g, v)
  \/ Worker

Spec == Init /\ [][Next]_vars

-----------------------------------------------------------------------------
(***************************************************************************)
(* Properties                                                              *)
(***************************************************************************)

TypeOK ==
  /\ mutex \in Thread \cup {NoThread}
  /\ page_table \in [Page -> Frame \cup {NoFrame}]
  /\ frame_metas \in [Frame -> FrameMeta]
  /\ free_list \subseteq Frame
  /\ replacer \in Rep!Replacers
  /\ next_page_id \in 1 .. MaxPage + 1
  /\ data \in [Frame -> Value]
  /\ latch \in [Frame -> [writer : Thread \cup {NoThread}, readers : SUBSET Thread]]
  /\ guards \subseteq Guard
  /\ call \in [Thread -> [pc : PC, page : Page \cup {NoPage},
                         frame : Frame \cup {NoFrame}, mode : Mode]]
  /\ retired \subseteq Page
  /\ queue \in Seq(Disk!Requests)
  /\ stored \in [Page -> Value \cup {Unallocated}]
  /\ reply \in [Thread -> Value \cup {NoReply, Done, Failed}]

\* page_table and the frames' page_id are inverse to each other whenever another
\* thread could look, across failed loads, failed flushes and deletes.
PageTableMatchesMetas ==
  \A p \in Page, f \in Frame : page_table[p] = f <=> frame_metas[f].page_id = p

\* The frame the thread in the mutex is loading a page into.
InHand == {call[t].frame : t \in {u \in Thread : call[u].pc \in
                                   {"free_latch", "victim_latch", "flush", "load"}}}

LoadedFrames == {f \in Frame : frame_metas[f].page_id # NoPage}

\* Frames that no structure knows any more.
Lost == Frame \ (free_list \cup LoadedFrames \cup InHand)

\* No frame is both free and in use, and the only way to lose a frame for good
\* is a read error of the disk (the TODO in read_page and write_page).
FramesAccountedFor ==
  [][/\ free_list' \cap (LoadedFrames' \cup InHand') = {}
     /\ \A f \in Lost' \ Lost : \E t \in Thread :
          At(t, "load") /\ call[t].frame = f /\ reply[t] = Failed]_vars

\* pin_count of a frame is the number of guards on it, those that still wait for
\* the latch included, whatever the interleaving of opens, drops and evictions:
\* the assertions in the guards' Drop never fail.
PinsCountGuards ==
  \A f \in Frame :
    frame_metas[f].pin_count = Cardinality({g \in guards : g.frame = f})

\* A frame is evictable exactly when it holds a page nobody has pinned, and the
\* replacer tracks the loaded frames, so that set_evictable and remove never
\* panic and evict never yields a frame without a page.  The frame a thread in
\* the mutex has just evicted is the exception.
EvictableIffUnpinned ==
  /\ replacer.tracked = LoadedFrames \ InHand
  /\ replacer.evictable = {f \in LoadedFrames \ InHand : frame_metas[f].pin_count = 0}

\* As long as a guard exists, its page stays in the guard's frame.
GuardKeepsItsFrame ==
  \A g \in guards : page_table[g.page] = g.frame

\* "Waiting on one page latch must not keep the global BPM mutex and block access
\* to another page" (the test deadlock_test): whoever waits for a latch with the
\* mutex waits only for threads that have unpinned and are about to unlatch.
MutexHolderWaitsOnlyForDrops ==
  \A t, u \in Thread :
    /\ call[t].pc \in {"free_latch", "victim_latch"}
    /\ u = latch[call[t].frame].writer \/ u \in latch[call[t].frame].readers
    => /\ At(u, "unlatch")
       /\ call[u].frame = call[t].frame

\* The content of a page, wherever it currently is.
ContentOf(p) ==
  IF p \in retired THEN Unallocated
  ELSE IF page_table[p] # NoFrame THEN data[page_table[p]]
  ELSE stored[p]

Store == INSTANCE PageStore WITH
  Undefined <- Unallocated,
  content <- [p \in Page |-> ContentOf(p)],
  open <- {[owner |-> g.owner, page |-> g.page, mode |-> g.mode] :
             g \in {h \in guards : h.open}}

\* No written content is lost or seen by the wrong guard, through any sequence
\* of loads, evictions, failed flushes and deletes.
ImplementsPageStore == Store!Spec

-----------------------------------------------------------------------------
(***************************************************************************)
(* Liveness.  Threads and the worker keep running; a thread that waits for *)
(* a lock that is free again and again gets it in the end; and callers     *)
(* drop each of their guards in the end.                                   *)
(***************************************************************************)

CloseOf(t, p) == \E g \in GuardsOf(t) : g.page = p /\ Unpin(g)

Fairness ==
  /\ WF_vars(Worker)
  /\ \A t \in Thread :
       /\ WF_vars(Locked(t))
       /\ WF_vars(Free(t))
       /\ SF_vars(OpenGuard(t))
       /\ \A p \in Page : SF_vars(CloseOf(t, p))

FairSpec == Spec /\ Fairness

\* The mutex is never kept for good, although its holder waits for latches and
\* for the disk.
MutexReleased == \A t \in Thread : mutex = t ~> mutex # t

\* Every call returns.  Writers that wait for a latch are left out: readers that
\* overlap for ever starve them unless RwLock itself is fair, which std leaves open.
CallsReturn ==
  \A t \in Thread :
    ~At(t, "idle") /\ ~(At(t, "latch") /\ call[t].mode = "write") ~> At(t, "idle")

\* A deleted page gives its slot back in the end, although delete_page does not
\* wait for it and other threads may reload the page in between.
DeleteReachesDisk ==
  \A t \in Thread, p \in Page :
    At(t, "delete") /\ call[t].page = p ~> stored[p] = Unallocated
=============================================================================
