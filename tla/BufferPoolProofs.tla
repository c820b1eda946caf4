-------------------------- MODULE BufferPoolProofs --------------------------
(***************************************************************************)
(* Proofs about BufferPool, for any number of threads, frames, pages and   *)
(* values.                                                                 *)
(*                                                                         *)
(* None of the properties is inductive by itself.  That the pin counts are *)
(* natural numbers, for one, needs them to count the guards.  IInv is the  *)
(* inductive invariant: the properties together with what the code relies  *)
(* on without saying so.  A thread that keeps the mutex across a blocking  *)
(* operation owns a frame no structure lists (FrameInHand), a guard that   *)
(* waits for its latch belongs to a call (WaitingGuards), and a latch is   *)
(* only ever held by the owner of an open guard, by a thread about to      *)
(* unlatch, or for a frame in hand (LatchOwners).                          *)
(***************************************************************************)
EXTENDS BufferPool, FiniteSetTheorems, TLAPS

HoldsMutex(t) == call[t].pc \in {"free_latch", "victim_latch", "flush", "load"}

\* The frame of the call that keeps the mutex.
Held(f) == mutex # NoThread /\ call[mutex].frame = f

CallsOK ==
  \A t \in Thread :
    /\ HoldsMutex(t) <=> mutex = t
    /\ HoldsMutex(t) \/ At(t, "latch") =>
         call[t].page \in Page /\ call[t].frame \in Frame
    /\ At(t, "unlatch") => call[t].frame \in Frame
    /\ At(t, "delete") => call[t].page \in Page

\* What is known of the frame a call under the mutex works with.
FrameInHand ==
  \A t \in Thread : HoldsMutex(t) =>
    LET c == call[t] IN
    /\ page_table[c.page] = NoFrame
    /\ c.frame \notin free_list
    /\ frame_metas[c.frame].pin_count = 0
    /\ frame_metas[c.frame].page_id = NoPage <=> c.pc \in {"free_latch", "load"}

FreeFrames ==
  \A f \in free_list : frame_metas[f].page_id = NoPage

\* EvictableIffUnpinned, frame by frame.
Tracking ==
  \A f \in Frame :
    /\ f \in replacer.tracked <=> frame_metas[f].page_id # NoPage /\ ~Held(f)
    /\ f \in replacer.evictable <=>
         f \in replacer.tracked /\ frame_metas[f].pin_count = 0

WaitingGuards ==
  \A g \in guards : ~g.open =>
    LET c == call[g.owner] IN
    c.pc = "latch" /\ c.page = g.page /\ c.frame = g.frame /\ c.mode = g.mode

WaitingCalls ==
  \A t \in Thread : At(t, "latch") =>
       GuardFor(t, call[t].page, call[t].frame, call[t].mode, FALSE) \in guards

OneGuardPerPage ==
  \A g, h \in guards : g.owner = h.owner /\ g.page = h.page => g = h

LatchOwners ==
  \A f \in Frame, t \in Thread :
    latch[f].writer = t \/ t \in latch[f].readers =>
      \/ \E g \in guards : g.owner = t /\ g.frame = f /\ g.open
      \/ call[t].pc \in {"unlatch", "flush", "load"} /\ call[t].frame = f

IInv ==
  /\ TypeOK
  /\ CallsOK
  /\ FrameInHand
  /\ FreeFrames
  /\ PageTableMatchesMetas
  /\ Tracking
  /\ IsFiniteSet(guards)
  /\ PinsCountGuards
  /\ GuardKeepsItsFrame
  /\ WaitingGuards
  /\ WaitingCalls
  /\ OneGuardPerPage
  /\ LatchOwners

-----------------------------------------------------------------------------
(* Counting guards.                                                        *)

PinsOf(S, f) == {g \in S : g.frame = f}

\* The pins of a frame after a guard was added (pin_count + 1 in
\* pin_loaded_page).
LEMMA AddGuard ==
  ASSUME NEW S, IsFiniteSet(S), NEW g, g \notin S, NEW f
  PROVE  /\ IsFiniteSet(S \cup {g})
         /\ IsFiniteSet(PinsOf(S, f))
         /\ Cardinality(PinsOf(S, f)) \in Nat
         /\ Cardinality(PinsOf(S \cup {g}, f)) =
              IF g.frame = f THEN Cardinality(PinsOf(S, f)) + 1
                             ELSE Cardinality(PinsOf(S, f))
<1>1. IsFiniteSet(PinsOf(S, f)) /\ g \notin PinsOf(S, f)
  BY FS_Subset DEF PinsOf
<1>2. PinsOf(S \cup {g}, f) = IF g.frame = f THEN PinsOf(S, f) \cup {g} ELSE PinsOf(S, f)
  BY DEF PinsOf
<1> QED
  BY <1>1, <1>2, FS_AddElement, FS_CardinalityType

\* The pins of a frame after a guard was dropped (pin_count - 1 in Drop).
LEMMA RemoveGuard ==
  ASSUME NEW S, IsFiniteSet(S), NEW g \in S, NEW f
  PROVE  /\ IsFiniteSet(S \ {g})
         /\ Cardinality(PinsOf(S, f)) \in Nat
         /\ g.frame = f => Cardinality(PinsOf(S, f)) > 0
         /\ Cardinality(PinsOf(S \ {g}, f)) =
              IF g.frame = f THEN Cardinality(PinsOf(S, f)) - 1
                             ELSE Cardinality(PinsOf(S, f))
<1> DEFINE T == S \ {g}
<1>1. IsFiniteSet(T) /\ g \notin T /\ T \cup {g} = S
  BY FS_RemoveElement
<1> HIDE DEF T
<1>2. /\ Cardinality(PinsOf(T, f)) \in Nat
      /\ Cardinality(PinsOf(T \cup {g}, f)) =
           IF g.frame = f THEN Cardinality(PinsOf(T, f)) + 1
                          ELSE Cardinality(PinsOf(T, f))
  BY <1>1, AddGuard
<1>3. /\ IsFiniteSet(T)
      /\ Cardinality(PinsOf(S, f)) \in Nat
      /\ g.frame = f => Cardinality(PinsOf(S, f)) > 0
      /\ Cardinality(PinsOf(T, f)) =
           IF g.frame = f THEN Cardinality(PinsOf(S, f)) - 1
                          ELSE Cardinality(PinsOf(S, f))
  BY <1>1, <1>2
<1> QED
  BY <1>3 DEF T

\* Opening a guard changes no pin.
LEMMA ReplaceGuard ==
  ASSUME NEW S, IsFiniteSet(S), NEW g \in S, NEW h, h \notin S, h.frame = g.frame, NEW f
  PROVE  /\ IsFiniteSet((S \ {g}) \cup {h})
         /\ Cardinality(PinsOf((S \ {g}) \cup {h}, f)) = Cardinality(PinsOf(S, f))
<1> DEFINE T == S \ {g}
<1>1. /\ IsFiniteSet(T) /\ h \notin T
      /\ Cardinality(PinsOf(S, f)) \in Nat
      /\ Cardinality(PinsOf(T, f)) =
           IF g.frame = f THEN Cardinality(PinsOf(S, f)) - 1
                          ELSE Cardinality(PinsOf(S, f))
  BY RemoveGuard
<1> HIDE DEF T
<1>2. /\ IsFiniteSet(T \cup {h})
      /\ Cardinality(PinsOf(T \cup {h}, f)) =
           IF h.frame = f THEN Cardinality(PinsOf(T, f)) + 1
                          ELSE Cardinality(PinsOf(T, f))
  BY <1>1, AddGuard
<1>3. /\ IsFiniteSet(T \cup {h})
      /\ Cardinality(PinsOf(T \cup {h}, f)) = Cardinality(PinsOf(S, f))
  BY <1>1, <1>2
<1> QED
  BY <1>3 DEF T

\* A frame without a page is not pinned.
LEMMA EmptyMeansUnpinned ==
  ASSUME IInv, NEW f \in Frame, frame_metas[f].page_id = NoPage
  PROVE  frame_metas[f].pin_count = 0
<1>1. PinsOf(guards, f) = {}
  BY NullAssumption DEF IInv, TypeOK, Guard, GuardKeepsItsFrame, PageTableMatchesMetas, PinsOf
<1> QED
  BY <1>1, FS_EmptySet DEF IInv, PinsCountGuards, PinsOf

\* A frame nobody has pinned has no guard.
LEMMA UnpinnedMeansNoGuard ==
  ASSUME IInv, NEW f \in Frame, frame_metas[f].pin_count = 0
  PROVE  \A g \in guards : g.frame # f
<1>1. IsFiniteSet(PinsOf(guards, f)) /\ Cardinality(PinsOf(guards, f)) = 0
  BY FS_Subset DEF IInv, PinsCountGuards, PinsOf
<1> QED
  BY <1>1, FS_EmptySet DEF PinsOf

-----------------------------------------------------------------------------
(* The disk.                                                               *)

\* The requests that SendRead, LatchDirtyVictim and SendDelete append.
LEMMA RequestsTyped ==
  ASSUME NEW t \in Thread, NEW p \in Page, NEW v \in Value
  PROVE  /\ Disk!ReadRequest(t, p) \in Disk!Requests
         /\ Disk!WriteRequest(t, p, v) \in Disk!Requests
         /\ Disk!DeleteRequest(p) \in Disk!Requests
BY DEF Disk!Requests, Disk!ReadRequest, Disk!WriteRequest, Disk!DeleteRequest

DiskTypeOK ==
  /\ queue \in Seq(Disk!Requests)
  /\ stored \in [Page -> Value \cup {Unallocated}]
  /\ reply \in [Thread -> Value \cup {NoReply, Done, Failed}]

\* The worker keeps the disk's variables typed.
LEMMA ServeTyped ==
  ASSUME DiskTypeOK, Disk!Serve
  PROVE  DiskTypeOK'
<1> DEFINE r == Head(queue)
<1>1. /\ r \in Disk!Requests
      /\ queue' = Tail(queue) /\ queue' \in Seq(Disk!Requests)
  <2>1. queue \in Seq(Disk!Requests) /\ queue # <<>> /\ queue' = Tail(queue)
    BY DEF DiskTypeOK, Disk!Serve, Disk!NextIs, Disk!ServeRead, Disk!ServeWrite,
           Disk!ServeDelete, Disk!ServeError
  <2> QED
    BY <2>1
<1>2. /\ r.page \in Page
      /\ r.op \in {"read", "write"} => r.client \in Thread
      /\ r.op = "write" => r.data \in Value
  BY <1>1 DEF Disk!Requests
<1> HIDE DEF r
<1>3. CASE Disk!ServeRead
  BY <1>1, <1>2, <1>3 DEF DiskTypeOK, Disk!ServeRead, Disk!NextIs, r
<1>4. CASE Disk!ServeWrite
  BY <1>1, <1>2, <1>4 DEF DiskTypeOK, Disk!ServeWrite, Disk!NextIs, r
<1>5. CASE Disk!ServeDelete
  BY <1>1, <1>2, <1>5 DEF DiskTypeOK, Disk!ServeDelete, Disk!NextIs, r
<1>6. CASE Disk!ServeError
  BY <1>1, <1>2, <1>6 DEF DiskTypeOK, Disk!ServeError, Disk!NextIs, r
<1> QED
  BY <1>3, <1>4, <1>5, <1>6 DEF Disk!Serve

-----------------------------------------------------------------------------
(* Initially.                                                              *)

\* The pool BufferPoolManager::new creates.
LEMMA InitIInv == Init => IInv
<1> SUFFICES ASSUME Init PROVE IInv
  OBVIOUS
<1> USE BoundsAssumption, ValueAssumption, NullAssumption
<1> USE DEF Init
<1>1. TypeOK
  <2>1. next_page_id \in 1 .. MaxPage + 1
    OBVIOUS
  <2>2. Idle \in [pc : PC, page : Page \cup {NoPage}, frame : Frame \cup {NoFrame},
                  mode : Mode]
    BY DEF Idle, PC, Mode
  <2>3. Reset \in FrameMeta
    BY DEF Reset, FrameMeta
  <2>4. replacer \in Rep!Replacers
    BY DEF Rep!Empty, Rep!Replacers
  <2>5. queue \in Seq(Disk!Requests)
    BY DEF Disk!ServiceInit
  <2> QED
    BY <2>1, <2>2, <2>3, <2>4, <2>5 DEF TypeOK, Disk!ServiceInit
<1>2. CallsOK /\ FrameInHand /\ WaitingGuards /\ WaitingCalls
  BY DEF CallsOK, FrameInHand, WaitingGuards, WaitingCalls, HoldsMutex, At, Idle
<1>3. FreeFrames /\ PageTableMatchesMetas /\ Tracking
  BY DEF FreeFrames, PageTableMatchesMetas, Tracking, Reset, Rep!Empty, Page
<1>4. IsFiniteSet(guards) /\ PinsCountGuards
  <2>1. \A f \in Frame : {g \in guards : g.frame = f} = {}
    OBVIOUS
  <2> QED
    BY <2>1, FS_EmptySet DEF PinsCountGuards, Reset
<1>5. GuardKeepsItsFrame /\ OneGuardPerPage /\ LatchOwners
  BY DEF GuardKeepsItsFrame, OneGuardPerPage, LatchOwners
<1> QED
  BY <1>1, <1>2, <1>3, <1>4, <1>5 DEF IInv

-----------------------------------------------------------------------------
(* Every step keeps the types.                                             *)

CallTypeOK ==
  call \in [Thread -> [pc : PC, page : Page \cup {NoPage},
                       frame : Frame \cup {NoFrame}, mode : Mode]]

\* The updates of call that the actions use.
LEMMA CallTyped ==
  ASSUME CallTypeOK, NEW t \in Thread
  PROVE  /\ Return(t) => CallTypeOK'
         /\ Fail(t) => CallTypeOK'
         /\ \A pc \in PC : Goto(t, pc) => CallTypeOK'
BY SMTT(20) DEF CallTypeOK, Return, Fail, Goto, Idle, PC, Mode

Latches == [Frame -> [writer : Thread \cup {NoThread}, readers : SUBSET Thread]]

\* The guards the actions create.
LEMMA GuardTyped ==
  ASSUME NEW t \in Thread, NEW p \in Page, NEW f \in Frame, NEW mode \in Mode
  PROVE  GuardFor(t, p, f, mode, TRUE) \in Guard /\ GuardFor(t, p, f, mode, FALSE) \in Guard
BY DEF Guard, GuardFor

\* The updates of latch that the actions use.
LEMMA LatchTyped ==
  ASSUME latch \in Latches, NEW t \in Thread, NEW f \in Frame, NEW mode \in Mode
  PROVE  Latched(t, f, mode) \in Latches /\ Released(t, f) \in Latches
<1> DEFINE L == [writer : Thread \cup {NoThread}, readers : SUBSET Thread]
<1>1. /\ latch[f] \in L
      /\ [writer |-> t, readers |-> latch[f].readers] \in L
      /\ [writer |-> latch[f].writer, readers |-> latch[f].readers \cup {t}] \in L
      /\ [writer  |-> IF latch[f].writer = t THEN NoThread ELSE latch[f].writer,
          readers |-> latch[f].readers \ {t}] \in L
  BY DEF Latches
<1>2. latch \in [Frame -> L] /\ Latches = [Frame -> L]
  BY DEF Latches
<1> HIDE DEF L
<1> QED
  BY <1>1, <1>2 DEF Latched, Released

\* The calls of the replacer that the pool makes.
LEMMA ReplacerTyped ==
  ASSUME replacer \in Rep!Replacers, NEW f \in Frame
  PROVE  /\ Pinned(replacer, f) \in Rep!Replacers
         /\ Rep!set_evictable(Rep!record_access(replacer, f), f, TRUE) \in Rep!Replacers
         /\ Rep!forget(replacer, f) \in Rep!Replacers
         /\ f \in replacer.tracked =>
              Rep!set_evictable(replacer, f, TRUE) \in Rep!Replacers
BY DEF Rep!Replacers, Rep!record_access, Rep!set_evictable, Rep!forget, Pinned

\* The updates of frame_metas that the actions use.
LEMMA MetasTyped ==
  ASSUME frame_metas \in [Frame -> FrameMeta], NEW f \in Frame, NEW p \in Page
  PROVE  /\ [frame_metas EXCEPT ![f] = Reset] \in [Frame -> FrameMeta]
         /\ [frame_metas EXCEPT ![f] = Published(p)] \in [Frame -> FrameMeta]
         /\ [frame_metas EXCEPT ![f].pin_count = @ + 1] \in [Frame -> FrameMeta]
<1>1. /\ frame_metas[f] \in FrameMeta /\ Reset \in FrameMeta /\ Published(p) \in FrameMeta
      /\ [frame_metas[f] EXCEPT !.pin_count = @ + 1] \in FrameMeta
  BY DEF FrameMeta, Reset, Published
<1> QED
  BY <1>1

LEMMA TypeStep == IInv /\ [Next]_vars => TypeOK'
<1> SUFFICES ASSUME IInv, [Next]_vars PROVE TypeOK'
  OBVIOUS
<1> USE DEF TypeOK, poolVars, diskVars
<1>0. TypeOK /\ CallTypeOK /\ DiskTypeOK
  BY DEF IInv, CallTypeOK, DiskTypeOK
<1>1. ASSUME NEW t \in Thread, new_page(t) PROVE TypeOK'
  BY <1>0, <1>1, BoundsAssumption DEF new_page
<1>2. ASSUME NEW t \in Thread, NEW p \in Page, NEW mode \in Mode, PinLoaded(t, p, mode)
      PROVE  TypeOK'
  <2>1. page_table[p] \in Frame
    BY <1>0, <1>2 DEF PinLoaded
  <2>2. frame_metas' \in [Frame -> FrameMeta] /\ replacer' \in Rep!Replacers
    BY <1>0, <1>2, <2>1, MetasTyped, ReplacerTyped DEF PinLoaded
  <2>3. guards' \subseteq Guard
    <3>1. guards \subseteq Guard
      BY <1>0
    <3>2. GuardFor(t, p, page_table[p], mode, FALSE) \in Guard
      BY <2>1, GuardTyped
    <3> QED
      BY <1>2, <3>1, <3>2 DEF PinLoaded
  <2>4. CallTypeOK'
    BY <1>0, <1>2, <2>1 DEF PinLoaded, CallTypeOK, PC
  <2> QED
    BY <1>0, <1>2, <2>2, <2>3, <2>4 DEF PinLoaded, CallTypeOK
<1>3. ASSUME NEW t \in Thread, OpenGuard(t) PROVE TypeOK'
  <2>1. call[t].frame \in Frame /\ call[t].page \in Page /\ call[t].mode \in Mode
    BY <1>0, <1>3 DEF OpenGuard, IInv, CallsOK, CallTypeOK
  <2>2. latch' \in Latches
    BY <1>0, <1>3, <2>1, LatchTyped DEF OpenGuard, Latches
  <2>3. guards' \subseteq Guard
    <3>1. guards \subseteq Guard
      BY <1>0
    <3>2. GuardFor(t, call[t].page, call[t].frame, call[t].mode, TRUE) \in Guard
      BY <2>1, GuardTyped
    <3> QED
      BY <1>3, <3>1, <3>2 DEF OpenGuard
  <2> QED
    BY <1>0, <1>3, <2>2, <2>3, CallTyped DEF OpenGuard, CallTypeOK, Latches
<1>4. ASSUME NEW t \in Thread, NEW p \in Page, NEW mode \in Mode,
             TakeFreeFrame(t, p, mode)
      PROVE  TypeOK'
  BY <1>0, <1>4 DEF TakeFreeFrame, Missing, PC
<1>5. ASSUME NEW t \in Thread, NEW p \in Page, NEW mode \in Mode, TakeVictim(t, p, mode)
      PROVE  TypeOK'
  BY <1>0, <1>5 DEF TakeVictim, Missing, PC, Rep!Replacers, Rep!forget
<1>6. ASSUME NEW t \in Thread, NEW p \in Page, NEW mode \in Mode,
             NoAvailableFrame(t, p, mode)
      PROVE  TypeOK'
  BY <1>0, <1>6, CallTyped DEF NoAvailableFrame, CallTypeOK
<1>7. ASSUME NEW t \in Thread, NEW p \in Page, PagePinned(t, p) PROVE TypeOK'
  BY <1>0, <1>7, CallTyped DEF PagePinned, CallTypeOK
<1>8. ASSUME NEW t \in Thread, NEW p \in Page, DeleteLoaded(t, p) PROVE TypeOK'
  BY <1>0, <1>8 DEF DeleteLoaded, Unload, Reset, FrameMeta, Freed, Idle, PC, Mode,
                    Rep!Replacers, Rep!forget
<1>9. ASSUME NEW t \in Thread, NEW p \in Page, DeleteUnloaded(t, p) PROVE TypeOK'
  BY <1>0, <1>9 DEF DeleteUnloaded, Idle, PC, Mode
<1>10. ASSUME NEW t \in Thread, LatchFreeFrame(t) PROVE TypeOK'
  <2>1. call[t].frame \in Frame /\ call[t].page \in Page
    BY <1>10 DEF LatchFreeFrame, At, IInv, CallsOK, HoldsMutex
  <2>2. latch' \in Latches
    BY <1>0, <1>10, <2>1, LatchTyped DEF LatchFreeFrame, Latches, Mode
  <2>3. queue' \in Seq(Disk!Requests)
    BY <1>0, <1>10, <2>1, RequestsTyped, ValueAssumption DEF LatchFreeFrame, SendRead
  <2> QED
    BY <1>0, <1>10, <2>2, <2>3, CallTyped DEF LatchFreeFrame, PC, CallTypeOK, Latches
<1>11. ASSUME NEW t \in Thread, LatchCleanVictim(t) PROVE TypeOK'
  <2>1. call[t].frame \in Frame /\ call[t].page \in Page
    BY <1>11 DEF LatchCleanVictim, At, IInv, CallsOK, HoldsMutex
  <2>2. latch' \in Latches
    BY <1>0, <1>11, <2>1, LatchTyped DEF LatchCleanVictim, Latches, Mode
  <2>3. queue' \in Seq(Disk!Requests)
    BY <1>0, <1>11, <2>1, RequestsTyped, ValueAssumption DEF LatchCleanVictim, SendRead
  <2>4. frame_metas' \in [Frame -> FrameMeta] /\ page_table' \in [Page -> Frame \cup {NoFrame}]
    BY <1>0, <1>11, <2>1, MetasTyped DEF LatchCleanVictim, Unload
  <2> QED
    BY <1>0, <1>11, <2>2, <2>3, <2>4, CallTyped
       DEF LatchCleanVictim, PC, CallTypeOK, Latches
<1>12. ASSUME NEW t \in Thread, LatchDirtyVictim(t) PROVE TypeOK'
  <2>1. call[t].frame \in Frame /\ frame_metas[call[t].frame].page_id \in Page
    BY <1>0, <1>12 DEF LatchDirtyVictim, At, IInv, CallsOK, FrameInHand, HoldsMutex,
                       FrameMeta
  <2>2. latch' \in Latches
    BY <1>0, <1>12, <2>1, LatchTyped DEF LatchDirtyVictim, Latches, Mode
  <2>3. data[call[t].frame] \in Value
    BY <1>0, <2>1
  <2>4. queue' \in Seq(Disk!Requests)
    BY <1>0, <1>12, <2>1, <2>3, RequestsTyped DEF LatchDirtyVictim
  <2> QED
    BY <1>0, <1>12, <2>2, <2>4, CallTyped DEF LatchDirtyVictim, PC, CallTypeOK, Latches
<1>13. ASSUME NEW t \in Thread, Flushed(t) PROVE TypeOK'
  <2>1. call[t].frame \in Frame /\ call[t].page \in Page
    BY <1>13 DEF Flushed, At, IInv, CallsOK, HoldsMutex
  <2>2. queue' \in Seq(Disk!Requests)
    BY <1>0, <1>13, <2>1, RequestsTyped, ValueAssumption DEF Flushed, SendRead
  <2>3. frame_metas' \in [Frame -> FrameMeta] /\ page_table' \in [Page -> Frame \cup {NoFrame}]
    BY <1>0, <1>13, <2>1, MetasTyped DEF Flushed, Unload
  <2> QED
    BY <1>0, <1>13, <2>2, <2>3, CallTyped DEF Flushed, PC, CallTypeOK
<1>14. ASSUME NEW t \in Thread, FlushFailed(t) PROVE TypeOK'
  <2>1. call[t].frame \in Frame
    BY <1>14 DEF FlushFailed, At, IInv, CallsOK, HoldsMutex
  <2> QED
    BY <1>0, <1>14, <2>1, CallTyped
       DEF FlushFailed, Released, CallTypeOK, Rep!Replacers, Rep!record_access,
           Rep!set_evictable
<1>15. ASSUME NEW t \in Thread, Loaded(t) PROVE TypeOK'
  <2>1. call[t].frame \in Frame /\ call[t].page \in Page /\ call[t].mode \in Mode
    BY <1>0, <1>15 DEF Loaded, At, IInv, CallsOK, HoldsMutex
  <2>2. frame_metas' \in [Frame -> FrameMeta] /\ replacer' \in Rep!Replacers
    BY <1>0, <1>15, <2>1, MetasTyped, ReplacerTyped DEF Loaded
  <2>3. guards' \subseteq Guard
    <3>1. guards \subseteq Guard
      BY <1>0
    <3>2. GuardFor(t, call[t].page, call[t].frame, call[t].mode, TRUE) \in Guard
      BY <2>1, GuardTyped
    <3> QED
      BY <1>15, <3>1, <3>2 DEF Loaded
  <2>4. latch' \in Latches
    BY <1>0, <1>15, <2>1 DEF Loaded, Latches
  <2>5. data' \in [Frame -> Value] /\ page_table' \in [Page -> Frame \cup {NoFrame}]
    BY <1>0, <1>15, <2>1 DEF Loaded
  <2> QED
    BY <1>0, <1>15, <2>2, <2>3, <2>4, <2>5, CallTyped DEF Loaded, CallTypeOK, Latches
<1>16. ASSUME NEW t \in Thread, LoadFailed(t) PROVE TypeOK'
  BY <1>0, <1>16, CallTyped DEF LoadFailed, Released, CallTypeOK
<1>17. ASSUME NEW t \in Thread, ReturnError(t) PROVE TypeOK'
  BY <1>0, <1>17, CallTyped DEF ReturnError, CallTypeOK
<1>18. ASSUME NEW t \in Thread, Unlatch(t) PROVE TypeOK'
  BY <1>0, <1>18, CallTyped DEF Unlatch, Released, CallTypeOK
<1>19. ASSUME NEW t \in Thread, SendDelete(t) PROVE TypeOK'
  <2>1. call[t].page \in Page
    BY <1>19 DEF SendDelete, At, IInv, CallsOK
  <2> QED
    BY <1>0, <1>19, <2>1, CallTyped, RequestsTyped, ValueAssumption
       DEF SendDelete, DeleteSent, CallTypeOK
<1>20. ASSUME NEW g \in guards, Unpin(g) PROVE TypeOK'
  <2>1. /\ g.owner \in Thread /\ g.frame \in Frame /\ g.mode \in Mode
        /\ frame_metas[g.frame] \in FrameMeta
    BY <1>0 DEF Guard
  <2> DEFINE m == frame_metas[g.frame]
  <2>2. m.pin_count \in Nat /\ m.pin_count > 0
    <3>1. IsFiniteSet(guards) /\ m.pin_count = Cardinality(PinsOf(guards, g.frame))
      BY <2>1 DEF IInv, PinsCountGuards, PinsOf
    <3> HIDE DEF m
    <3> QED
      BY <3>1, RemoveGuard
  <2>3. Dropped(m, g.mode) \in FrameMeta
    <3>1. m \in FrameMeta
      BY <2>1
    <3>2. (m.is_dirty \/ g.mode = "write") \in BOOLEAN /\ m.pin_count - 1 \in Nat
      BY <2>2
    <3> HIDE DEF m
    <3> QED
      BY <3>1, <3>2 DEF Dropped, FrameMeta
  <2>4. frame_metas' \in [Frame -> FrameMeta]
    BY <1>0, <1>20, <2>1, <2>3 DEF Unpin
  <2>5. replacer' \in Rep!Replacers
    <3>1. g.frame \in replacer.tracked
      <4>1. g.page \in Page /\ frame_metas[g.frame].page_id = g.page
        BY <1>0, <2>1 DEF IInv, Guard, GuardKeepsItsFrame, PageTableMatchesMetas
      <4> QED
        BY <1>20, <2>1, <4>1, NullAssumption DEF IInv, Unpin, MutexFree, Tracking, Held
    <3> QED
      BY <1>0, <1>20, <2>1, <3>1, ReplacerTyped DEF Unpin
  <2> QED
    BY <1>0, <1>20, <2>1, <2>4, <2>5 DEF Unpin, Idle, PC, Mode
<1>21. ASSUME NEW g \in guards, NEW v \in Value, Modify(g, v) PROVE TypeOK'
  BY <1>0, <1>21 DEF Modify, Guard
<1>22. CASE Worker
  BY <1>0, <1>22, ServeTyped DEF Worker, DiskTypeOK
<1>23. CASE UNCHANGED vars
  BY <1>0, <1>23 DEF vars
<1> QED
  BY <1>1, <1>2, <1>3, <1>4, <1>5, <1>6, <1>7, <1>8, <1>9, <1>10, <1>11, <1>12,
     <1>13, <1>14, <1>15, <1>16, <1>17, <1>18, <1>19, <1>20, <1>21, <1>22, <1>23
     DEF Next, Call, Locked, Free, Close, GuardsOf

-----------------------------------------------------------------------------
(* Every step keeps the calls and the frames they work with consistent.    *)

\* A thread has the mutex exactly while it is in one of the blocking operations
\* under it, and its call names the page and the frame it works with.
LEMMA CallsStep == IInv /\ [Next]_vars => CallsOK'
<1> SUFFICES ASSUME IInv, [Next]_vars PROVE CallsOK'
  OBVIOUS
<1> USE NullAssumption DEF CallsOK, HoldsMutex, At, MayAsk, MayDelete, MutexFree, CallTypeOK,
        poolVars, diskVars
<1>0. TypeOK /\ CallTypeOK /\ CallsOK
  BY DEF IInv, TypeOK
<1> USE DEF TypeOK
<1>1. ASSUME NEW t \in Thread, new_page(t) PROVE CallsOK'
  BY <1>0, <1>1 DEF new_page
<1>2. ASSUME NEW t \in Thread, NEW p \in Page, NEW mode \in Mode,
             PinLoaded(t, p, mode)
      PROVE  CallsOK'
  BY <1>0, <1>2 DEF PinLoaded, PC
<1>3. ASSUME NEW t \in Thread, OpenGuard(t) PROVE CallsOK'
  BY <1>0, <1>3 DEF OpenGuard, Return, Idle, PC
<1>4. ASSUME NEW t \in Thread, NEW p \in Page, NEW mode \in Mode,
             TakeFreeFrame(t, p, mode)
      PROVE  CallsOK'
  BY <1>0, <1>4 DEF TakeFreeFrame, Missing, PC
<1>5. ASSUME NEW t \in Thread, NEW p \in Page, NEW mode \in Mode,
             TakeVictim(t, p, mode)
      PROVE  CallsOK'
  BY <1>0, <1>5 DEF TakeVictim, Missing, Rep!Replacers, PC
<1>6. ASSUME NEW t \in Thread, NEW p \in Page, NEW mode \in Mode,
             NoAvailableFrame(t, p, mode)
      PROVE  CallsOK'
  BY <1>0, <1>6 DEF NoAvailableFrame, Missing, Fail, Idle, PC
<1>7. ASSUME NEW t \in Thread, NEW p \in Page, PagePinned(t, p) PROVE CallsOK'
  BY <1>0, <1>7 DEF PagePinned, Fail, Idle, PC
<1>8. ASSUME NEW t \in Thread, NEW p \in Page, DeleteLoaded(t, p) PROVE CallsOK'
  BY <1>0, <1>8 DEF DeleteLoaded, Idle, PC
<1>9. ASSUME NEW t \in Thread, NEW p \in Page, DeleteUnloaded(t, p) PROVE CallsOK'
  BY <1>0, <1>9 DEF DeleteUnloaded, Idle, PC
<1>10. ASSUME NEW t \in Thread, LatchFreeFrame(t) PROVE CallsOK'
  BY <1>0, <1>10 DEF LatchFreeFrame, Goto, PC
<1>11. ASSUME NEW t \in Thread, LatchCleanVictim(t) PROVE CallsOK'
  BY <1>0, <1>11 DEF LatchCleanVictim, Goto, PC
<1>12. ASSUME NEW t \in Thread, LatchDirtyVictim(t) PROVE CallsOK'
  BY <1>0, <1>12 DEF LatchDirtyVictim, Goto, PC
<1>13. ASSUME NEW t \in Thread, Flushed(t) PROVE CallsOK'
  BY <1>0, <1>13 DEF Flushed, Goto, PC
<1>14. ASSUME NEW t \in Thread, FlushFailed(t) PROVE CallsOK'
  BY <1>0, <1>14 DEF FlushFailed, Fail, Idle, PC
<1>15. ASSUME NEW t \in Thread, Loaded(t) PROVE CallsOK'
  BY <1>0, <1>15 DEF Loaded, Return, Idle, PC
<1>16. ASSUME NEW t \in Thread, LoadFailed(t) PROVE CallsOK'
  BY <1>0, <1>16 DEF LoadFailed, Fail, Idle, PC
<1>17. ASSUME NEW t \in Thread, ReturnError(t) PROVE CallsOK'
  BY <1>0, <1>17 DEF ReturnError, Return, Idle, PC
<1>18. ASSUME NEW t \in Thread, Unlatch(t) PROVE CallsOK'
  BY <1>0, <1>18 DEF Unlatch, Return, Idle, PC
<1>19. ASSUME NEW t \in Thread, SendDelete(t) PROVE CallsOK'
  BY <1>0, <1>19 DEF SendDelete, Return, Idle, PC
<1>20. ASSUME NEW g \in guards, Unpin(g) PROVE CallsOK'
  BY <1>0, <1>20 DEF Unpin, Guard, Idle, PC
<1>21. ASSUME NEW g \in guards, NEW v \in Value, Modify(g, v) PROVE CallsOK'
  BY <1>0, <1>21 DEF Modify
<1>22. CASE Worker
  BY <1>0, <1>22 DEF Worker
<1>23. CASE UNCHANGED vars
  BY <1>0, <1>23 DEF vars
<1> QED
  BY <1>1, <1>2, <1>3, <1>4, <1>5, <1>6, <1>7, <1>8, <1>9, <1>10, <1>11, <1>12,
     <1>13, <1>14, <1>15, <1>16, <1>17, <1>18, <1>19, <1>20, <1>21, <1>22, <1>23
     DEF Next, Call, Locked, Free, Close, GuardsOf

\* The frame in hand is known to nobody else until it is published, given back or
\* lost, and it holds its old page exactly until that page is unloaded.
LEMMA HandStep == IInv /\ [Next]_vars => FrameInHand'
<1> SUFFICES ASSUME IInv, [Next]_vars PROVE FrameInHand'
  OBVIOUS
<1> USE NullAssumption DEF HoldsMutex, At, MayAsk, MayDelete, MutexFree, poolVars, diskVars
<1>0. /\ TypeOK /\ CallTypeOK /\ CallsOK /\ CallsOK' /\ FrameInHand
      /\ FreeFrames /\ Tracking /\ PageTableMatchesMetas
  BY CallsStep DEF IInv, TypeOK, CallTypeOK
<1> USE DEF TypeOK, CallTypeOK, CallsOK, FrameInHand
<1>1. ASSUME NEW t \in Thread, new_page(t) PROVE FrameInHand'
  BY <1>0, <1>1 DEF new_page
<1>2. ASSUME NEW t \in Thread, NEW p \in Page, NEW mode \in Mode,
             PinLoaded(t, p, mode)
      PROVE  FrameInHand'
  BY <1>0, <1>2 DEF PinLoaded
<1>3. ASSUME NEW t \in Thread, OpenGuard(t) PROVE FrameInHand'
  BY <1>0, <1>3 DEF OpenGuard, Return, Idle
<1>4. ASSUME NEW t \in Thread, NEW p \in Page, NEW mode \in Mode,
             TakeFreeFrame(t, p, mode)
      PROVE  FrameInHand'
  <2>1. \A f \in free_list : frame_metas[f].page_id = NoPage /\ frame_metas[f].pin_count = 0
    BY <1>0, EmptyMeansUnpinned DEF FreeFrames
  <2> QED
    BY <1>0, <1>4, <2>1 DEF TakeFreeFrame, Missing
<1>5. ASSUME NEW t \in Thread, NEW p \in Page, NEW mode \in Mode,
             TakeVictim(t, p, mode)
      PROVE  FrameInHand'
  BY <1>0, <1>5 DEF TakeVictim, Missing, Tracking, Rep!Replacers, Rep!forget, LoadedFrames, FrameMeta
<1>6. ASSUME NEW t \in Thread, NEW p \in Page, NEW mode \in Mode,
             NoAvailableFrame(t, p, mode)
      PROVE  FrameInHand'
  BY <1>0, <1>6 DEF NoAvailableFrame, Missing, Fail, Idle
<1>7. ASSUME NEW t \in Thread, NEW p \in Page, PagePinned(t, p) PROVE FrameInHand'
  BY <1>0, <1>7 DEF PagePinned, Fail, Idle
<1>8. ASSUME NEW t \in Thread, NEW p \in Page, DeleteLoaded(t, p) PROVE FrameInHand'
  BY <1>0, <1>8 DEF DeleteLoaded, Idle, Unload, Reset, Freed, FreeFrames
<1>9. ASSUME NEW t \in Thread, NEW p \in Page, DeleteUnloaded(t, p) PROVE FrameInHand'
  BY <1>0, <1>9 DEF DeleteUnloaded, Idle
<1>10. ASSUME NEW t \in Thread, LatchFreeFrame(t) PROVE FrameInHand'
  BY <1>0, <1>10 DEF LatchFreeFrame, Goto
<1>11. ASSUME NEW t \in Thread, LatchCleanVictim(t) PROVE FrameInHand'
  BY <1>0, <1>11 DEF LatchCleanVictim, Goto, Unload, Reset, FrameMeta
<1>12. ASSUME NEW t \in Thread, LatchDirtyVictim(t) PROVE FrameInHand'
  BY <1>0, <1>12 DEF LatchDirtyVictim, Goto
<1>13. ASSUME NEW t \in Thread, Flushed(t) PROVE FrameInHand'
  BY <1>0, <1>13 DEF Flushed, Goto, Unload, Reset, FrameMeta
<1>14. ASSUME NEW t \in Thread, FlushFailed(t) PROVE FrameInHand'
  BY <1>0, <1>14 DEF FlushFailed, Fail, Idle
<1>15. ASSUME NEW t \in Thread, Loaded(t) PROVE FrameInHand'
  BY <1>0, <1>15 DEF Loaded, Return, Idle, Published
<1>16. ASSUME NEW t \in Thread, LoadFailed(t) PROVE FrameInHand'
  BY <1>0, <1>16 DEF LoadFailed, Fail, Idle
<1>17. ASSUME NEW t \in Thread, ReturnError(t) PROVE FrameInHand'
  BY <1>0, <1>17 DEF ReturnError, Return, Idle
<1>18. ASSUME NEW t \in Thread, Unlatch(t) PROVE FrameInHand'
  BY <1>0, <1>18 DEF Unlatch, Return, Idle
<1>19. ASSUME NEW t \in Thread, SendDelete(t) PROVE FrameInHand'
  BY <1>0, <1>19 DEF SendDelete, Return, Idle
<1>20. ASSUME NEW g \in guards, Unpin(g) PROVE FrameInHand'
  BY <1>0, <1>20 DEF Unpin, Guard, Idle, Dropped
<1>21. ASSUME NEW g \in guards, NEW v \in Value, Modify(g, v) PROVE FrameInHand'
  BY <1>0, <1>21 DEF Modify
<1>22. CASE Worker
  BY <1>0, <1>22 DEF Worker
<1>23. CASE UNCHANGED vars
  BY <1>0, <1>23 DEF vars
<1> QED
  BY <1>1, <1>2, <1>3, <1>4, <1>5, <1>6, <1>7, <1>8, <1>9, <1>10, <1>11, <1>12,
     <1>13, <1>14, <1>15, <1>16, <1>17, <1>18, <1>19, <1>20, <1>21, <1>22, <1>23
     DEF Next, Call, Locked, Free, Close, GuardsOf

\* The frames in free_list hold no page.
LEMMA FreeStep == IInv /\ [Next]_vars => FreeFrames'
<1> SUFFICES ASSUME IInv, [Next]_vars PROVE FreeFrames'
  OBVIOUS
<1> USE NullAssumption DEF HoldsMutex, At, poolVars, diskVars
<1>0. /\ TypeOK /\ CallTypeOK /\ CallsOK /\ FrameInHand
      /\ FreeFrames /\ GuardKeepsItsFrame /\ PageTableMatchesMetas
  BY DEF IInv, TypeOK, CallTypeOK
<1> USE DEF TypeOK, CallTypeOK, CallsOK, FreeFrames
<1>1. ASSUME NEW t \in Thread, new_page(t) PROVE FreeFrames'
  BY <1>0, <1>1 DEF new_page
<1>2. ASSUME NEW t \in Thread, NEW p \in Page, NEW mode \in Mode,
             PinLoaded(t, p, mode)
      PROVE  FreeFrames'
  BY <1>0, <1>2 DEF PinLoaded
<1>3. ASSUME NEW t \in Thread, OpenGuard(t) PROVE FreeFrames'
  BY <1>0, <1>3 DEF OpenGuard
<1>4. ASSUME NEW t \in Thread, NEW p \in Page, NEW mode \in Mode,
             TakeFreeFrame(t, p, mode)
      PROVE  FreeFrames'
  BY <1>0, <1>4 DEF TakeFreeFrame
<1>5. ASSUME NEW t \in Thread, NEW p \in Page, NEW mode \in Mode,
             TakeVictim(t, p, mode)
      PROVE  FreeFrames'
  BY <1>0, <1>5 DEF TakeVictim
<1>6. ASSUME NEW t \in Thread, NEW p \in Page, NEW mode \in Mode,
             NoAvailableFrame(t, p, mode)
      PROVE  FreeFrames'
  BY <1>0, <1>6 DEF NoAvailableFrame
<1>7. ASSUME NEW t \in Thread, NEW p \in Page, PagePinned(t, p) PROVE FreeFrames'
  BY <1>0, <1>7 DEF PagePinned
<1>8. ASSUME NEW t \in Thread, NEW p \in Page, DeleteLoaded(t, p) PROVE FreeFrames'
  BY <1>0, <1>8 DEF DeleteLoaded, Unload, Reset, Freed
<1>9. ASSUME NEW t \in Thread, NEW p \in Page, DeleteUnloaded(t, p) PROVE FreeFrames'
  BY <1>0, <1>9 DEF DeleteUnloaded
<1>10. ASSUME NEW t \in Thread, LatchFreeFrame(t) PROVE FreeFrames'
  BY <1>0, <1>10 DEF LatchFreeFrame
<1>11. ASSUME NEW t \in Thread, LatchCleanVictim(t) PROVE FreeFrames'
  BY <1>0, <1>11 DEF LatchCleanVictim, Unload, Reset, FrameInHand
<1>12. ASSUME NEW t \in Thread, LatchDirtyVictim(t) PROVE FreeFrames'
  BY <1>0, <1>12 DEF LatchDirtyVictim
<1>13. ASSUME NEW t \in Thread, Flushed(t) PROVE FreeFrames'
  BY <1>0, <1>13 DEF Flushed, Unload, Reset, FrameInHand
<1>14. ASSUME NEW t \in Thread, FlushFailed(t) PROVE FreeFrames'
  BY <1>0, <1>14 DEF FlushFailed
<1>15. ASSUME NEW t \in Thread, Loaded(t) PROVE FreeFrames'
  BY <1>0, <1>15 DEF Loaded, Published, FrameInHand
<1>16. ASSUME NEW t \in Thread, LoadFailed(t) PROVE FreeFrames'
  BY <1>0, <1>16 DEF LoadFailed
<1>17. ASSUME NEW t \in Thread, ReturnError(t) PROVE FreeFrames'
  BY <1>0, <1>17 DEF ReturnError
<1>18. ASSUME NEW t \in Thread, Unlatch(t) PROVE FreeFrames'
  BY <1>0, <1>18 DEF Unlatch
<1>19. ASSUME NEW t \in Thread, SendDelete(t) PROVE FreeFrames'
  BY <1>0, <1>19 DEF SendDelete
<1>20. ASSUME NEW g \in guards, Unpin(g) PROVE FreeFrames'
  BY <1>0, <1>20 DEF Unpin, Guard, Dropped, GuardKeepsItsFrame, PageTableMatchesMetas
<1>21. ASSUME NEW g \in guards, NEW v \in Value, Modify(g, v) PROVE FreeFrames'
  BY <1>0, <1>21 DEF Modify
<1>22. CASE Worker
  BY <1>0, <1>22 DEF Worker
<1>23. CASE UNCHANGED vars
  BY <1>0, <1>23 DEF vars
<1> QED
  BY <1>1, <1>2, <1>3, <1>4, <1>5, <1>6, <1>7, <1>8, <1>9, <1>10, <1>11, <1>12,
     <1>13, <1>14, <1>15, <1>16, <1>17, <1>18, <1>19, <1>20, <1>21, <1>22, <1>23
     DEF Next, Call, Locked, Free, Close, GuardsOf

\* page_table and the metas stay inverse to each other.
LEMMA TableStep == IInv /\ [Next]_vars => PageTableMatchesMetas'
<1> SUFFICES ASSUME IInv, [Next]_vars PROVE PageTableMatchesMetas'
  OBVIOUS
<1> USE NullAssumption DEF HoldsMutex, At, poolVars, diskVars
<1>0. /\ TypeOK /\ CallTypeOK /\ CallsOK /\ FrameInHand /\ PageTableMatchesMetas
  BY DEF IInv, TypeOK, CallTypeOK
<1> USE DEF TypeOK, CallTypeOK, CallsOK, PageTableMatchesMetas
<1>1. ASSUME NEW t \in Thread, new_page(t) PROVE PageTableMatchesMetas'
  BY <1>0, <1>1 DEF new_page
<1>2. ASSUME NEW t \in Thread, NEW p \in Page, NEW mode \in Mode,
             PinLoaded(t, p, mode)
      PROVE  PageTableMatchesMetas'
  BY <1>0, <1>2 DEF PinLoaded
<1>3. ASSUME NEW t \in Thread, OpenGuard(t) PROVE PageTableMatchesMetas'
  BY <1>0, <1>3 DEF OpenGuard
<1>4. ASSUME NEW t \in Thread, NEW p \in Page, NEW mode \in Mode,
             TakeFreeFrame(t, p, mode)
      PROVE  PageTableMatchesMetas'
  BY <1>0, <1>4 DEF TakeFreeFrame
<1>5. ASSUME NEW t \in Thread, NEW p \in Page, NEW mode \in Mode,
             TakeVictim(t, p, mode)
      PROVE  PageTableMatchesMetas'
  BY <1>0, <1>5 DEF TakeVictim
<1>6. ASSUME NEW t \in Thread, NEW p \in Page, NEW mode \in Mode,
             NoAvailableFrame(t, p, mode)
      PROVE  PageTableMatchesMetas'
  BY <1>0, <1>6 DEF NoAvailableFrame
<1>7. ASSUME NEW t \in Thread, NEW p \in Page, PagePinned(t, p) PROVE PageTableMatchesMetas'
  BY <1>0, <1>7 DEF PagePinned
<1>8. ASSUME NEW t \in Thread, NEW p \in Page, DeleteLoaded(t, p) PROVE PageTableMatchesMetas'
  BY <1>0, <1>8 DEF DeleteLoaded, Unload, Reset
<1>9. ASSUME NEW t \in Thread, NEW p \in Page, DeleteUnloaded(t, p) PROVE PageTableMatchesMetas'
  BY <1>0, <1>9 DEF DeleteUnloaded
<1>10. ASSUME NEW t \in Thread, LatchFreeFrame(t) PROVE PageTableMatchesMetas'
  BY <1>0, <1>10 DEF LatchFreeFrame
<1>11. ASSUME NEW t \in Thread, LatchCleanVictim(t) PROVE PageTableMatchesMetas'
  BY <1>0, <1>11 DEF LatchCleanVictim, Unload, Reset, FrameInHand, FrameMeta
<1>12. ASSUME NEW t \in Thread, LatchDirtyVictim(t) PROVE PageTableMatchesMetas'
  BY <1>0, <1>12 DEF LatchDirtyVictim
<1>13. ASSUME NEW t \in Thread, Flushed(t) PROVE PageTableMatchesMetas'
  BY <1>0, <1>13 DEF Flushed, Unload, Reset, FrameInHand, FrameMeta
<1>14. ASSUME NEW t \in Thread, FlushFailed(t) PROVE PageTableMatchesMetas'
  BY <1>0, <1>14 DEF FlushFailed
<1>15. ASSUME NEW t \in Thread, Loaded(t) PROVE PageTableMatchesMetas'
  BY <1>0, <1>15 DEF Loaded, Published, FrameInHand
<1>16. ASSUME NEW t \in Thread, LoadFailed(t) PROVE PageTableMatchesMetas'
  BY <1>0, <1>16 DEF LoadFailed
<1>17. ASSUME NEW t \in Thread, ReturnError(t) PROVE PageTableMatchesMetas'
  BY <1>0, <1>17 DEF ReturnError
<1>18. ASSUME NEW t \in Thread, Unlatch(t) PROVE PageTableMatchesMetas'
  BY <1>0, <1>18 DEF Unlatch
<1>19. ASSUME NEW t \in Thread, SendDelete(t) PROVE PageTableMatchesMetas'
  BY <1>0, <1>19 DEF SendDelete
<1>20. ASSUME NEW g \in guards, Unpin(g) PROVE PageTableMatchesMetas'
  BY <1>0, <1>20 DEF Unpin, Guard, Dropped
<1>21. ASSUME NEW g \in guards, NEW v \in Value, Modify(g, v) PROVE PageTableMatchesMetas'
  BY <1>0, <1>21 DEF Modify
<1>22. CASE Worker
  BY <1>0, <1>22 DEF Worker
<1>23. CASE UNCHANGED vars
  BY <1>0, <1>23 DEF vars
<1> QED
  BY <1>1, <1>2, <1>3, <1>4, <1>5, <1>6, <1>7, <1>8, <1>9, <1>10, <1>11, <1>12,
     <1>13, <1>14, <1>15, <1>16, <1>17, <1>18, <1>19, <1>20, <1>21, <1>22, <1>23
     DEF Next, Call, Locked, Free, Close, GuardsOf

\* The replacer keeps tracking the loaded frames and offering the unpinned ones.
LEMMA TrackStep == IInv /\ [Next]_vars => Tracking'
<1> SUFFICES ASSUME IInv, [Next]_vars PROVE Tracking'
  OBVIOUS
<1> USE NullAssumption DEF HoldsMutex, At, MayAsk, MayDelete, MutexFree, Held, poolVars, diskVars
<1>0. /\ TypeOK /\ CallTypeOK /\ CallsOK /\ FrameInHand /\ PageTableMatchesMetas
      /\ Tracking /\ FreeFrames /\ GuardKeepsItsFrame
  BY DEF IInv, TypeOK, CallTypeOK
<1> USE DEF TypeOK, CallTypeOK, CallsOK, PageTableMatchesMetas, Tracking
<1>1. ASSUME NEW t \in Thread, new_page(t) PROVE Tracking'
  BY <1>0, <1>1 DEF new_page
<1>2. ASSUME NEW t \in Thread, NEW p \in Page, NEW mode \in Mode,
             PinLoaded(t, p, mode)
      PROVE  Tracking'
  <2> DEFINE f == page_table[p]
  <2>1. f \in Frame /\ frame_metas[f].page_id = p /\ f \in replacer.tracked
    BY <1>0, <1>2 DEF PinLoaded
  <2>2. /\ replacer'.tracked = replacer.tracked
        /\ replacer'.evictable = replacer.evictable \ {f}
    BY <1>0, <1>2, <2>1 DEF PinLoaded, Pinned, Rep!record_access, Rep!set_evictable,
                            Rep!Replacers
  <2>3. \A h \in Frame :
          /\ frame_metas'[h].page_id = frame_metas[h].page_id
          /\ frame_metas'[h].pin_count =
               IF h = f THEN frame_metas[h].pin_count + 1 ELSE frame_metas[h].pin_count
          /\ frame_metas[h].pin_count \in Nat
    BY <1>0, <1>2, <2>1 DEF PinLoaded, FrameMeta
  <2>4. mutex' = NoThread /\ mutex = NoThread
    BY <1>2 DEF PinLoaded
  <2> HIDE DEF f
  <2> QED
    BY <1>0, <2>1, <2>2, <2>3, <2>4
<1>3. ASSUME NEW t \in Thread, OpenGuard(t) PROVE Tracking'
  BY <1>0, <1>3, SMTT(20) DEF OpenGuard, Return, Idle
<1>4. ASSUME NEW t \in Thread, NEW p \in Page, NEW mode \in Mode,
             TakeFreeFrame(t, p, mode)
      PROVE  Tracking'
  BY <1>0, <1>4 DEF TakeFreeFrame, Missing, FreeFrames
<1>5. ASSUME NEW t \in Thread, NEW p \in Page, NEW mode \in Mode,
             TakeVictim(t, p, mode)
      PROVE  Tracking'
  BY <1>0, <1>5 DEF TakeVictim, Missing, Rep!forget, Rep!Replacers, FrameMeta
<1>6. ASSUME NEW t \in Thread, NEW p \in Page, NEW mode \in Mode,
             NoAvailableFrame(t, p, mode)
      PROVE  Tracking'
  BY <1>0, <1>6 DEF NoAvailableFrame, Missing, Fail, Idle
<1>7. ASSUME NEW t \in Thread, NEW p \in Page, PagePinned(t, p) PROVE Tracking'
  BY <1>0, <1>7 DEF PagePinned, Fail, Idle
<1>8. ASSUME NEW t \in Thread, NEW p \in Page, DeleteLoaded(t, p) PROVE Tracking'
  BY <1>0, <1>8 DEF DeleteLoaded, Idle, Unload, Reset, Rep!forget, Deletable
<1>9. ASSUME NEW t \in Thread, NEW p \in Page, DeleteUnloaded(t, p) PROVE Tracking'
  BY <1>0, <1>9 DEF DeleteUnloaded, Idle
<1>10. ASSUME NEW t \in Thread, LatchFreeFrame(t) PROVE Tracking'
  BY <1>0, <1>10 DEF LatchFreeFrame, Goto
<1>11. ASSUME NEW t \in Thread, LatchCleanVictim(t) PROVE Tracking'
  BY <1>0, <1>11 DEF LatchCleanVictim, Goto, Unload, Reset, FrameInHand
<1>12. ASSUME NEW t \in Thread, LatchDirtyVictim(t) PROVE Tracking'
  BY <1>0, <1>12 DEF LatchDirtyVictim, Goto
<1>13. ASSUME NEW t \in Thread, Flushed(t) PROVE Tracking'
  BY <1>0, <1>13 DEF Flushed, Goto, Unload, Reset, FrameInHand
<1>14. ASSUME NEW t \in Thread, FlushFailed(t) PROVE Tracking'
  BY <1>0, <1>14 DEF FlushFailed, Fail, Idle, FrameInHand, Rep!record_access, Rep!set_evictable
<1>15. ASSUME NEW t \in Thread, Loaded(t) PROVE Tracking'
  BY <1>0, <1>15 DEF Loaded, Return, Idle, Published, Pinned, FrameInHand, Rep!record_access, Rep!set_evictable
<1>16. ASSUME NEW t \in Thread, LoadFailed(t) PROVE Tracking'
  BY <1>0, <1>16 DEF LoadFailed, Fail, Idle, FrameInHand
<1>17. ASSUME NEW t \in Thread, ReturnError(t) PROVE Tracking'
  BY <1>0, <1>17 DEF ReturnError, Return, Idle
<1>18. ASSUME NEW t \in Thread, Unlatch(t) PROVE Tracking'
  BY <1>0, <1>18 DEF Unlatch, Return, Idle
<1>19. ASSUME NEW t \in Thread, SendDelete(t) PROVE Tracking'
  BY <1>0, <1>19 DEF SendDelete, Return, Idle
<1>20. ASSUME NEW g \in guards, Unpin(g) PROVE Tracking'
  <2> DEFINE f == g.frame
  <2>1. f \in Frame /\ g.page \in Page /\ frame_metas[f].page_id = g.page /\ f \in replacer.tracked
    BY <1>0, <1>20 DEF Unpin, Guard, GuardKeepsItsFrame
  <2>2. /\ replacer'.tracked = replacer.tracked
        /\ replacer'.evictable =
             IF frame_metas[f].pin_count = 1 THEN replacer.evictable \cup {f}
                                             ELSE replacer.evictable
    BY <1>0, <1>20, <2>1 DEF Unpin, LastDropEvicts, Rep!set_evictable, Rep!Replacers
  <2>3. \A h \in Frame :
          /\ frame_metas'[h].page_id = frame_metas[h].page_id
          /\ frame_metas'[h].pin_count =
               IF h = f THEN frame_metas[h].pin_count - 1 ELSE frame_metas[h].pin_count
          /\ frame_metas[h].pin_count \in Nat
    BY <1>0, <1>20, <2>1 DEF Unpin, Dropped, FrameMeta
  <2>4. mutex' = NoThread /\ mutex = NoThread
    BY <1>20 DEF Unpin
  <2>5. frame_metas[f].pin_count # 0
    BY <2>1, UnpinnedMeansNoGuard
  <2> HIDE DEF f
  <2> QED
    BY <1>0, <2>1, <2>2, <2>3, <2>4, <2>5
<1>21. ASSUME NEW g \in guards, NEW v \in Value, Modify(g, v) PROVE Tracking'
  BY <1>0, <1>21 DEF Modify
<1>22. CASE Worker
  BY <1>0, <1>22 DEF Worker
<1>23. CASE UNCHANGED vars
  BY <1>0, <1>23 DEF vars
<1> QED
  BY <1>1, <1>2, <1>3, <1>4, <1>5, <1>6, <1>7, <1>8, <1>9, <1>10, <1>11, <1>12,
     <1>13, <1>14, <1>15, <1>16, <1>17, <1>18, <1>19, <1>20, <1>21, <1>22, <1>23
     DEF Next, Call, Locked, Free, Close, GuardsOf

\* A page with a guard stays in its frame.
LEMMA KeepsFrameStep == IInv /\ [Next]_vars => GuardKeepsItsFrame'
<1> SUFFICES ASSUME IInv, [Next]_vars PROVE GuardKeepsItsFrame'
  OBVIOUS
<1> USE NullAssumption DEF HoldsMutex, At, poolVars, diskVars
<1>0. /\ TypeOK /\ CallTypeOK /\ CallsOK /\ FrameInHand /\ PageTableMatchesMetas
      /\ GuardKeepsItsFrame /\ WaitingCalls
  BY DEF IInv, TypeOK, CallTypeOK
<1> USE DEF TypeOK, CallTypeOK, CallsOK, PageTableMatchesMetas, GuardKeepsItsFrame, Guard
<1>1. ASSUME NEW t \in Thread, new_page(t) PROVE GuardKeepsItsFrame'
  BY <1>0, <1>1 DEF new_page
<1>2. ASSUME NEW t \in Thread, NEW p \in Page, NEW mode \in Mode,
             PinLoaded(t, p, mode)
      PROVE  GuardKeepsItsFrame'
  BY <1>0, <1>2 DEF PinLoaded, GuardFor
<1>3. ASSUME NEW t \in Thread, OpenGuard(t) PROVE GuardKeepsItsFrame'
  <2> DEFINE o == GuardFor(t, call[t].page, call[t].frame, call[t].mode, FALSE)
             n == GuardFor(t, call[t].page, call[t].frame, call[t].mode, TRUE)
  <2>1. o \in guards
    BY <1>0, <1>3 DEF OpenGuard, WaitingCalls
  <2>2. guards' = (guards \ {o}) \cup {n} /\ page_table' = page_table
    BY <1>3 DEF OpenGuard
  <2>3. n.page = o.page /\ n.frame = o.frame
    BY DEF GuardFor
  <2> HIDE DEF o, n
  <2> QED
    BY <1>0, <2>1, <2>2, <2>3
<1>4. ASSUME NEW t \in Thread, NEW p \in Page, NEW mode \in Mode,
             TakeFreeFrame(t, p, mode)
      PROVE  GuardKeepsItsFrame'
  BY <1>0, <1>4 DEF TakeFreeFrame
<1>5. ASSUME NEW t \in Thread, NEW p \in Page, NEW mode \in Mode,
             TakeVictim(t, p, mode)
      PROVE  GuardKeepsItsFrame'
  BY <1>0, <1>5 DEF TakeVictim
<1>6. ASSUME NEW t \in Thread, NEW p \in Page, NEW mode \in Mode,
             NoAvailableFrame(t, p, mode)
      PROVE  GuardKeepsItsFrame'
  BY <1>0, <1>6 DEF NoAvailableFrame
<1>7. ASSUME NEW t \in Thread, NEW p \in Page, PagePinned(t, p) PROVE GuardKeepsItsFrame'
  BY <1>0, <1>7 DEF PagePinned
<1>8. ASSUME NEW t \in Thread, NEW p \in Page, DeleteLoaded(t, p) PROVE GuardKeepsItsFrame'
  <2>1. \A g \in guards : g.frame # page_table[p]
    BY <1>0, <1>8, UnpinnedMeansNoGuard DEF DeleteLoaded, Deletable
  <2> QED
    BY <1>0, <1>8, <2>1 DEF DeleteLoaded, Unload
<1>9. ASSUME NEW t \in Thread, NEW p \in Page, DeleteUnloaded(t, p) PROVE GuardKeepsItsFrame'
  BY <1>0, <1>9 DEF DeleteUnloaded
<1>10. ASSUME NEW t \in Thread, LatchFreeFrame(t) PROVE GuardKeepsItsFrame'
  BY <1>0, <1>10 DEF LatchFreeFrame
<1>11. ASSUME NEW t \in Thread, LatchCleanVictim(t) PROVE GuardKeepsItsFrame'
  <2>1. \A g \in guards : g.frame # call[t].frame
    BY <1>0, <1>11, UnpinnedMeansNoGuard DEF LatchCleanVictim, FrameInHand
  <2> QED
    BY <1>0, <1>11, <2>1 DEF LatchCleanVictim, Unload, FrameInHand
<1>12. ASSUME NEW t \in Thread, LatchDirtyVictim(t) PROVE GuardKeepsItsFrame'
  BY <1>0, <1>12 DEF LatchDirtyVictim
<1>13. ASSUME NEW t \in Thread, Flushed(t) PROVE GuardKeepsItsFrame'
  <2>1. \A g \in guards : g.frame # call[t].frame
    BY <1>0, <1>13, UnpinnedMeansNoGuard DEF Flushed, FrameInHand
  <2> QED
    BY <1>0, <1>13, <2>1 DEF Flushed, Unload, FrameInHand
<1>14. ASSUME NEW t \in Thread, FlushFailed(t) PROVE GuardKeepsItsFrame'
  BY <1>0, <1>14 DEF FlushFailed
<1>15. ASSUME NEW t \in Thread, Loaded(t) PROVE GuardKeepsItsFrame'
  BY <1>0, <1>15 DEF Loaded, FrameInHand, GuardFor
<1>16. ASSUME NEW t \in Thread, LoadFailed(t) PROVE GuardKeepsItsFrame'
  BY <1>0, <1>16 DEF LoadFailed
<1>17. ASSUME NEW t \in Thread, ReturnError(t) PROVE GuardKeepsItsFrame'
  BY <1>0, <1>17 DEF ReturnError
<1>18. ASSUME NEW t \in Thread, Unlatch(t) PROVE GuardKeepsItsFrame'
  BY <1>0, <1>18 DEF Unlatch
<1>19. ASSUME NEW t \in Thread, SendDelete(t) PROVE GuardKeepsItsFrame'
  BY <1>0, <1>19 DEF SendDelete
<1>20. ASSUME NEW g \in guards, Unpin(g) PROVE GuardKeepsItsFrame'
  BY <1>0, <1>20 DEF Unpin
<1>21. ASSUME NEW g \in guards, NEW v \in Value, Modify(g, v) PROVE GuardKeepsItsFrame'
  BY <1>0, <1>21 DEF Modify
<1>22. CASE Worker
  BY <1>0, <1>22 DEF Worker
<1>23. CASE UNCHANGED vars
  BY <1>0, <1>23 DEF vars
<1> QED
  BY <1>1, <1>2, <1>3, <1>4, <1>5, <1>6, <1>7, <1>8, <1>9, <1>10, <1>11, <1>12,
     <1>13, <1>14, <1>15, <1>16, <1>17, <1>18, <1>19, <1>20, <1>21, <1>22, <1>23
     DEF Next, Call, Locked, Free, Close, GuardsOf

\* A guard without its latch belongs to the call that waits for it.
LEMMA WaitingStep == IInv /\ [Next]_vars => WaitingGuards'
<1> SUFFICES ASSUME IInv, [Next]_vars PROVE WaitingGuards'
  OBVIOUS
<1> USE DEF At, MayAsk, MayDelete, poolVars, diskVars
<1>0. /\ call \in [Thread -> [pc : PC, page : Page \cup {NoPage}, frame : Frame \cup {NoFrame},
                          mode : Mode]]
      /\ guards \subseteq Guard /\ WaitingGuards /\ \A g \in guards : g.owner \in Thread
  BY DEF IInv, TypeOK, Guard
<1> USE DEF WaitingGuards, Idle
<1>1. ASSUME NEW t \in Thread, new_page(t) PROVE WaitingGuards'
  BY <1>0, <1>1 DEF new_page
<1>2. ASSUME NEW t \in Thread, NEW p \in Page, NEW mode \in Mode,
             PinLoaded(t, p, mode)
      PROVE  WaitingGuards'
  <2> DEFINE n == GuardFor(t, p, page_table[p], mode, FALSE)
  <2>1. /\ call[t].pc = "idle" /\ call'[t].pc = "latch" /\ call'[t].page = p
        /\ call'[t].frame = page_table[p] /\ call'[t].mode = mode
        /\ \A u \in Thread \ {t} : call'[u] = call[u]
    BY <1>0, <1>2 DEF PinLoaded
  <2>2. guards' = guards \cup {n}
    BY <1>2 DEF PinLoaded
  <2>3. n.owner = t /\ n.page = p /\ n.frame = page_table[p] /\ n.mode = mode /\ ~n.open
    BY DEF GuardFor
  <2> HIDE DEF n
  <2> QED
    BY <1>0, <2>1, <2>2, <2>3
<1>3. ASSUME NEW t \in Thread, OpenGuard(t) PROVE WaitingGuards'
  <2> DEFINE o == GuardFor(t, call[t].page, call[t].frame, call[t].mode, FALSE)
             n == GuardFor(t, call[t].page, call[t].frame, call[t].mode, TRUE)
  <2>1. /\ call'[t].pc = "idle"
        /\ \A u \in Thread \ {t} : call'[u] = call[u]
    BY <1>0, <1>3 DEF OpenGuard, Return
  <2>2. guards' = (guards \ {o}) \cup {n}
    BY <1>3 DEF OpenGuard
  <2>3. n.open
    BY DEF GuardFor
  <2>4. \A h \in guards : h.owner = t /\ ~h.open => h = o
    BY <1>0 DEF Guard, GuardFor
  <2> HIDE DEF o, n
  <2> QED
    BY <1>0, <2>1, <2>2, <2>3, <2>4
<1>4. ASSUME NEW t \in Thread, NEW p \in Page, NEW mode \in Mode,
             TakeFreeFrame(t, p, mode)
      PROVE  WaitingGuards'
  BY <1>0, <1>4 DEF TakeFreeFrame, Missing
<1>5. ASSUME NEW t \in Thread, NEW p \in Page, NEW mode \in Mode,
             TakeVictim(t, p, mode)
      PROVE  WaitingGuards'
  BY <1>0, <1>5 DEF TakeVictim, Missing
<1>6. ASSUME NEW t \in Thread, NEW p \in Page, NEW mode \in Mode,
             NoAvailableFrame(t, p, mode)
      PROVE  WaitingGuards'
  BY <1>0, <1>6 DEF NoAvailableFrame, Missing, Fail, Idle
<1>7. ASSUME NEW t \in Thread, NEW p \in Page, PagePinned(t, p) PROVE WaitingGuards'
  BY <1>0, <1>7 DEF PagePinned, Fail, Idle
<1>8. ASSUME NEW t \in Thread, NEW p \in Page, DeleteLoaded(t, p) PROVE WaitingGuards'
  BY <1>0, <1>8 DEF DeleteLoaded, Idle
<1>9. ASSUME NEW t \in Thread, NEW p \in Page, DeleteUnloaded(t, p) PROVE WaitingGuards'
  BY <1>0, <1>9 DEF DeleteUnloaded, Idle
<1>10. ASSUME NEW t \in Thread, LatchFreeFrame(t) PROVE WaitingGuards'
  BY <1>0, <1>10 DEF LatchFreeFrame, Goto
<1>11. ASSUME NEW t \in Thread, LatchCleanVictim(t) PROVE WaitingGuards'
  BY <1>0, <1>11 DEF LatchCleanVictim, Goto
<1>12. ASSUME NEW t \in Thread, LatchDirtyVictim(t) PROVE WaitingGuards'
  BY <1>0, <1>12 DEF LatchDirtyVictim, Goto
<1>13. ASSUME NEW t \in Thread, Flushed(t) PROVE WaitingGuards'
  BY <1>0, <1>13 DEF Flushed, Goto
<1>14. ASSUME NEW t \in Thread, FlushFailed(t) PROVE WaitingGuards'
  BY <1>0, <1>14 DEF FlushFailed, Fail, Idle
<1>15. ASSUME NEW t \in Thread, Loaded(t) PROVE WaitingGuards'
  <2> DEFINE n == GuardFor(t, call[t].page, call[t].frame, call[t].mode, TRUE)
  <2>1. /\ call[t].pc = "load" /\ call'[t].pc = "idle"
        /\ \A u \in Thread \ {t} : call'[u] = call[u]
    BY <1>0, <1>15 DEF Loaded, Return
  <2>2. guards' = guards \cup {n}
    BY <1>15 DEF Loaded, Return
  <2>3. n.owner = t /\ n.page = call[t].page /\ n.frame = call[t].frame /\ n.mode = call[t].mode /\ n.open
    BY DEF GuardFor
  <2> HIDE DEF n
  <2> QED
    BY <1>0, <2>1, <2>2, <2>3
<1>16. ASSUME NEW t \in Thread, LoadFailed(t) PROVE WaitingGuards'
  BY <1>0, <1>16 DEF LoadFailed, Fail, Idle
<1>17. ASSUME NEW t \in Thread, ReturnError(t) PROVE WaitingGuards'
  BY <1>0, <1>17 DEF ReturnError, Return, Idle
<1>18. ASSUME NEW t \in Thread, Unlatch(t) PROVE WaitingGuards'
  BY <1>0, <1>18 DEF Unlatch, Return, Idle
<1>19. ASSUME NEW t \in Thread, SendDelete(t) PROVE WaitingGuards'
  BY <1>0, <1>19 DEF SendDelete, Return, Idle
<1>20. ASSUME NEW g \in guards, Unpin(g) PROVE WaitingGuards'
  BY <1>0, <1>20 DEF Unpin, Idle
<1>21. ASSUME NEW g \in guards, NEW v \in Value, Modify(g, v) PROVE WaitingGuards'
  BY <1>0, <1>21 DEF Modify
<1>22. CASE Worker
  BY <1>0, <1>22 DEF Worker
<1>23. CASE UNCHANGED vars
  BY <1>0, <1>23 DEF vars
<1> QED
  BY <1>1, <1>2, <1>3, <1>4, <1>5, <1>6, <1>7, <1>8, <1>9, <1>10, <1>11, <1>12,
     <1>13, <1>14, <1>15, <1>16, <1>17, <1>18, <1>19, <1>20, <1>21, <1>22, <1>23
     DEF Next, Call, Locked, Free, Close, GuardsOf


\* A call that waits for its latch has its guard.
LEMMA WaitingCallsStep == IInv /\ [Next]_vars => WaitingCalls'
<1> SUFFICES ASSUME IInv, [Next]_vars PROVE WaitingCalls'
  OBVIOUS
<1> USE DEF At, MayAsk, MayDelete, poolVars, diskVars
<1>0. /\ call \in [Thread -> [pc : PC, page : Page \cup {NoPage}, frame : Frame \cup {NoFrame},
                          mode : Mode]]
      /\ guards \subseteq Guard /\ WaitingCalls /\ \A g \in guards : g.owner \in Thread
  BY DEF IInv, TypeOK, Guard
<1> USE DEF WaitingCalls, Idle
<1>1. ASSUME NEW t \in Thread, new_page(t) PROVE WaitingCalls'
  BY <1>0, <1>1 DEF new_page
<1>2. ASSUME NEW t \in Thread, NEW p \in Page, NEW mode \in Mode,
             PinLoaded(t, p, mode)
      PROVE  WaitingCalls'
  <2> DEFINE n == GuardFor(t, p, page_table[p], mode, FALSE)
  <2>1. /\ call[t].pc = "idle" /\ call'[t].pc = "latch" /\ call'[t].page = p
        /\ call'[t].frame = page_table[p] /\ call'[t].mode = mode
        /\ \A u \in Thread \ {t} : call'[u] = call[u]
    BY <1>0, <1>2 DEF PinLoaded
  <2>2. guards' = guards \cup {n}
    BY <1>2 DEF PinLoaded
  <2>3. n.owner = t /\ n.page = p /\ n.frame = page_table[p] /\ n.mode = mode /\ ~n.open
    BY DEF GuardFor
  <2>4. GuardFor(t, call'[t].page, call'[t].frame, call'[t].mode, FALSE) = n
    BY <2>1
  <2> HIDE DEF n
  <2> QED
    BY <1>0, <2>1, <2>2, <2>4
<1>3. ASSUME NEW t \in Thread, OpenGuard(t) PROVE WaitingCalls'
  <2>1. /\ call'[t].pc = "idle"
        /\ \A u \in Thread \ {t} : call'[u] = call[u]
    BY <1>0, <1>3 DEF OpenGuard, Return
  <2>2. guards \ {GuardFor(t, call[t].page, call[t].frame, call[t].mode, FALSE)} \subseteq guards'
    BY <1>3 DEF OpenGuard
  <2>3. \A u \in Thread \ {t} :
          GuardFor(u, call[u].page, call[u].frame, call[u].mode, FALSE)
            # GuardFor(t, call[t].page, call[t].frame, call[t].mode, FALSE)
    BY DEF GuardFor
  <2> QED
    BY <1>0, <2>1, <2>2, <2>3
<1>4. ASSUME NEW t \in Thread, NEW p \in Page, NEW mode \in Mode,
             TakeFreeFrame(t, p, mode)
      PROVE  WaitingCalls'
  <2>1. /\ guards' = guards /\ call'[t].pc # "latch"
        /\ \A u \in Thread \ {t} : call'[u] = call[u]
    BY <1>0, <1>4 DEF TakeFreeFrame
  <2> QED
    BY <1>0, <2>1
<1>5. ASSUME NEW t \in Thread, NEW p \in Page, NEW mode \in Mode,
             TakeVictim(t, p, mode)
      PROVE  WaitingCalls'
  <2>1. /\ guards' = guards /\ call'[t].pc # "latch"
        /\ \A u \in Thread \ {t} : call'[u] = call[u]
    BY <1>0, <1>5 DEF TakeVictim
  <2> QED
    BY <1>0, <2>1
<1>6. ASSUME NEW t \in Thread, NEW p \in Page, NEW mode \in Mode,
             NoAvailableFrame(t, p, mode)
      PROVE  WaitingCalls'
  BY <1>0, <1>6 DEF NoAvailableFrame, Missing, Fail, Idle
<1>7. ASSUME NEW t \in Thread, NEW p \in Page, PagePinned(t, p) PROVE WaitingCalls'
  BY <1>0, <1>7 DEF PagePinned, Fail, Idle
<1>8. ASSUME NEW t \in Thread, NEW p \in Page, DeleteLoaded(t, p) PROVE WaitingCalls'
  BY <1>0, <1>8 DEF DeleteLoaded, Idle
<1>9. ASSUME NEW t \in Thread, NEW p \in Page, DeleteUnloaded(t, p) PROVE WaitingCalls'
  BY <1>0, <1>9 DEF DeleteUnloaded, Idle
<1>10. ASSUME NEW t \in Thread, LatchFreeFrame(t) PROVE WaitingCalls'
  BY <1>0, <1>10 DEF LatchFreeFrame, Goto
<1>11. ASSUME NEW t \in Thread, LatchCleanVictim(t) PROVE WaitingCalls'
  BY <1>0, <1>11 DEF LatchCleanVictim, Goto
<1>12. ASSUME NEW t \in Thread, LatchDirtyVictim(t) PROVE WaitingCalls'
  BY <1>0, <1>12 DEF LatchDirtyVictim, Goto
<1>13. ASSUME NEW t \in Thread, Flushed(t) PROVE WaitingCalls'
  BY <1>0, <1>13 DEF Flushed, Goto
<1>14. ASSUME NEW t \in Thread, FlushFailed(t) PROVE WaitingCalls'
  BY <1>0, <1>14 DEF FlushFailed, Fail, Idle
<1>15. ASSUME NEW t \in Thread, Loaded(t) PROVE WaitingCalls'
  <2> DEFINE n == GuardFor(t, call[t].page, call[t].frame, call[t].mode, TRUE)
  <2>1. /\ call[t].pc = "load" /\ call'[t].pc = "idle"
        /\ \A u \in Thread \ {t} : call'[u] = call[u]
    BY <1>0, <1>15 DEF Loaded, Return
  <2>2. guards' = guards \cup {n}
    BY <1>15 DEF Loaded, Return
  <2>3. n.owner = t /\ n.page = call[t].page /\ n.frame = call[t].frame /\ n.mode = call[t].mode /\ n.open
    BY DEF GuardFor
  <2> HIDE DEF n
  <2> QED
    BY <1>0, <2>1, <2>2, <2>3
<1>16. ASSUME NEW t \in Thread, LoadFailed(t) PROVE WaitingCalls'
  BY <1>0, <1>16 DEF LoadFailed, Fail, Idle
<1>17. ASSUME NEW t \in Thread, ReturnError(t) PROVE WaitingCalls'
  BY <1>0, <1>17 DEF ReturnError, Return, Idle
<1>18. ASSUME NEW t \in Thread, Unlatch(t) PROVE WaitingCalls'
  BY <1>0, <1>18 DEF Unlatch, Return, Idle
<1>19. ASSUME NEW t \in Thread, SendDelete(t) PROVE WaitingCalls'
  BY <1>0, <1>19 DEF SendDelete, Return, Idle
<1>20. ASSUME NEW g \in guards, Unpin(g) PROVE WaitingCalls'
  <2>1. /\ call'[g.owner].pc = "unlatch"
        /\ \A u \in Thread \ {g.owner} : call'[u] = call[u]
    BY <1>0, <1>20 DEF Unpin
  <2>2. guards' = guards \ {g} /\ g.open
    BY <1>20 DEF Unpin
  <2>3. \A u \in Thread :
          GuardFor(u, call[u].page, call[u].frame, call[u].mode, FALSE) # g
    BY <2>2 DEF GuardFor
  <2> QED
    BY <1>0, <2>1, <2>2, <2>3
<1>21. ASSUME NEW g \in guards, NEW v \in Value, Modify(g, v) PROVE WaitingCalls'
  BY <1>0, <1>21 DEF Modify
<1>22. CASE Worker
  BY <1>0, <1>22 DEF Worker
<1>23. CASE UNCHANGED vars
  BY <1>0, <1>23 DEF vars
<1> QED
  BY <1>1, <1>2, <1>3, <1>4, <1>5, <1>6, <1>7, <1>8, <1>9, <1>10, <1>11, <1>12,
     <1>13, <1>14, <1>15, <1>16, <1>17, <1>18, <1>19, <1>20, <1>21, <1>22, <1>23
     DEF Next, Call, Locked, Free, Close, GuardsOf

\* A thread has one guard of a page at most.
LEMMA OneGuardStep == IInv /\ [Next]_vars => OneGuardPerPage'
<1> SUFFICES ASSUME IInv, [Next]_vars PROVE OneGuardPerPage'
  OBVIOUS
<1> USE DEF At, poolVars, diskVars
<1>0. /\ guards \subseteq Guard /\ OneGuardPerPage /\ WaitingCalls /\ FrameInHand
      /\ GuardKeepsItsFrame
  BY DEF IInv, TypeOK
<1> USE DEF OneGuardPerPage
<1>1. ASSUME NEW t \in Thread, new_page(t) PROVE OneGuardPerPage'
  BY <1>0, <1>1 DEF new_page
<1>2. ASSUME NEW t \in Thread, NEW p \in Page, NEW mode \in Mode,
             PinLoaded(t, p, mode)
      PROVE  OneGuardPerPage'
  <2> DEFINE n == GuardFor(t, p, page_table[p], mode, FALSE)
  <2>1. guards' = guards \cup {n}
    BY <1>2 DEF PinLoaded
  <2>2. n.owner = t /\ n.page = p
    BY DEF GuardFor
  <2>3. \A g \in guards : g.owner = t => g.page # p
    BY <1>0, <1>2 DEF PinLoaded, MayAsk, GuardsOf, Guard, Page
  <2> HIDE DEF n
  <2> QED
    BY <1>0, <2>1, <2>2, <2>3
<1>3. ASSUME NEW t \in Thread, OpenGuard(t) PROVE OneGuardPerPage'
  <2> DEFINE o == GuardFor(t, call[t].page, call[t].frame, call[t].mode, FALSE)
             n == GuardFor(t, call[t].page, call[t].frame, call[t].mode, TRUE)
  <2>1. o \in guards
    BY <1>0, <1>3 DEF OpenGuard, WaitingCalls
  <2>2. guards' = (guards \ {o}) \cup {n}
    BY <1>3 DEF OpenGuard
  <2>3. n.owner = o.owner /\ n.page = o.page
    BY DEF GuardFor
  <2> HIDE DEF o, n
  <2> QED
    BY <1>0, <2>1, <2>2, <2>3
<1>4. ASSUME NEW t \in Thread, NEW p \in Page, NEW mode \in Mode,
             TakeFreeFrame(t, p, mode)
      PROVE  OneGuardPerPage'
  BY <1>0, <1>4 DEF TakeFreeFrame
<1>5. ASSUME NEW t \in Thread, NEW p \in Page, NEW mode \in Mode,
             TakeVictim(t, p, mode)
      PROVE  OneGuardPerPage'
  BY <1>0, <1>5 DEF TakeVictim
<1>6. ASSUME NEW t \in Thread, NEW p \in Page, NEW mode \in Mode,
             NoAvailableFrame(t, p, mode)
      PROVE  OneGuardPerPage'
  BY <1>0, <1>6 DEF NoAvailableFrame
<1>7. ASSUME NEW t \in Thread, NEW p \in Page, PagePinned(t, p) PROVE OneGuardPerPage'
  BY <1>0, <1>7 DEF PagePinned
<1>8. ASSUME NEW t \in Thread, NEW p \in Page, DeleteLoaded(t, p) PROVE OneGuardPerPage'
  BY <1>0, <1>8 DEF DeleteLoaded
<1>9. ASSUME NEW t \in Thread, NEW p \in Page, DeleteUnloaded(t, p) PROVE OneGuardPerPage'
  BY <1>0, <1>9 DEF DeleteUnloaded
<1>10. ASSUME NEW t \in Thread, LatchFreeFrame(t) PROVE OneGuardPerPage'
  BY <1>0, <1>10 DEF LatchFreeFrame
<1>11. ASSUME NEW t \in Thread, LatchCleanVictim(t) PROVE OneGuardPerPage'
  BY <1>0, <1>11 DEF LatchCleanVictim
<1>12. ASSUME NEW t \in Thread, LatchDirtyVictim(t) PROVE OneGuardPerPage'
  BY <1>0, <1>12 DEF LatchDirtyVictim
<1>13. ASSUME NEW t \in Thread, Flushed(t) PROVE OneGuardPerPage'
  BY <1>0, <1>13 DEF Flushed
<1>14. ASSUME NEW t \in Thread, FlushFailed(t) PROVE OneGuardPerPage'
  BY <1>0, <1>14 DEF FlushFailed
<1>15. ASSUME NEW t \in Thread, Loaded(t) PROVE OneGuardPerPage'
  <2> DEFINE n == GuardFor(t, call[t].page, call[t].frame, call[t].mode, TRUE)
  <2>1. guards' = guards \cup {n}
    BY <1>15 DEF Loaded
  <2>2. n.page = call[t].page
    BY DEF GuardFor
  <2>3. \A g \in guards : g.page # call[t].page
    BY <1>0, <1>15, NullAssumption DEF Loaded, FrameInHand, HoldsMutex, GuardKeepsItsFrame, Guard
  <2> HIDE DEF n
  <2> QED
    BY <1>0, <2>1, <2>2, <2>3
<1>16. ASSUME NEW t \in Thread, LoadFailed(t) PROVE OneGuardPerPage'
  BY <1>0, <1>16 DEF LoadFailed
<1>17. ASSUME NEW t \in Thread, ReturnError(t) PROVE OneGuardPerPage'
  BY <1>0, <1>17 DEF ReturnError
<1>18. ASSUME NEW t \in Thread, Unlatch(t) PROVE OneGuardPerPage'
  BY <1>0, <1>18 DEF Unlatch
<1>19. ASSUME NEW t \in Thread, SendDelete(t) PROVE OneGuardPerPage'
  BY <1>0, <1>19 DEF SendDelete
<1>20. ASSUME NEW g \in guards, Unpin(g) PROVE OneGuardPerPage'
  BY <1>0, <1>20 DEF Unpin
<1>21. ASSUME NEW g \in guards, NEW v \in Value, Modify(g, v) PROVE OneGuardPerPage'
  BY <1>0, <1>21 DEF Modify
<1>22. CASE Worker
  BY <1>0, <1>22 DEF Worker
<1>23. CASE UNCHANGED vars
  BY <1>0, <1>23 DEF vars
<1> QED
  BY <1>1, <1>2, <1>3, <1>4, <1>5, <1>6, <1>7, <1>8, <1>9, <1>10, <1>11, <1>12,
     <1>13, <1>14, <1>15, <1>16, <1>17, <1>18, <1>19, <1>20, <1>21, <1>22, <1>23
     DEF Next, Call, Locked, Free, Close, GuardsOf

\* Whoever holds a latch has an open guard, is about to release it, or works with
\* the frame under the mutex.
LEMMA LatchStep == IInv /\ [Next]_vars => LatchOwners'
<1> SUFFICES ASSUME IInv, [Next]_vars PROVE LatchOwners'
  OBVIOUS
<1> USE NullAssumption DEF At, MayAsk, MayDelete, poolVars, diskVars
<1>0. TypeOK /\ CallTypeOK /\ CallsOK /\ LatchOwners
  BY DEF IInv, TypeOK, CallTypeOK
<1> USE DEF TypeOK, CallTypeOK, CallsOK, HoldsMutex, LatchOwners, Guard
<1>1. ASSUME NEW t \in Thread, new_page(t) PROVE LatchOwners'
  BY <1>0, <1>1 DEF new_page
<1>2. ASSUME NEW t \in Thread, NEW p \in Page, NEW mode \in Mode,
             PinLoaded(t, p, mode)
      PROVE  LatchOwners'
  <2>1. call[t] = Idle /\ latch' = latch /\ guards \subseteq guards'
    BY <1>2 DEF PinLoaded
  <2>2. \A u \in Thread \ {t} : call'[u] = call[u]
    BY <1>0, <1>2 DEF PinLoaded
  <2> QED
    BY <1>0, <2>1, <2>2 DEF Idle
<1>3. ASSUME NEW t \in Thread, OpenGuard(t) PROVE LatchOwners'
  <2> DEFINE o == GuardFor(t, call[t].page, call[t].frame, call[t].mode, FALSE)
             n == GuardFor(t, call[t].page, call[t].frame, call[t].mode, TRUE)
  <2>1. /\ call[t].pc = "latch" /\ call[t].frame \in Frame
        /\ \A u \in Thread \ {t} : call'[u] = call[u]
    BY <1>0, <1>3 DEF OpenGuard, Return
  <2>2. guards' = (guards \ {o}) \cup {n}
    BY <1>3 DEF OpenGuard
  <2>3. ~o.open /\ n.open /\ n.owner = t /\ n.frame = call[t].frame
    BY DEF GuardFor
  <2>4. \A f \in Frame, u \in Thread :
          latch'[f].writer = u \/ u \in latch'[f].readers =>
            latch[f].writer = u \/ u \in latch[f].readers \/ (u = t /\ f = call[t].frame)
    BY <1>0, <1>3, <2>1 DEF OpenGuard, Latched
  <2> HIDE DEF o, n
  <2> QED
    BY <1>0, <2>1, <2>2, <2>3, <2>4
<1>4. ASSUME NEW t \in Thread, NEW p \in Page, NEW mode \in Mode,
             TakeFreeFrame(t, p, mode)
      PROVE  LatchOwners'
  <2>1. /\ call[t].pc = "idle" /\ latch' = latch /\ guards \subseteq guards'
        /\ \A u \in Thread \ {t} : call'[u] = call[u]
    BY <1>0, <1>4 DEF TakeFreeFrame, Missing, Idle
  <2> QED
    BY <1>0, <2>1
<1>5. ASSUME NEW t \in Thread, NEW p \in Page, NEW mode \in Mode,
             TakeVictim(t, p, mode)
      PROVE  LatchOwners'
  <2>1. /\ call[t].pc = "idle" /\ latch' = latch /\ guards \subseteq guards'
        /\ \A u \in Thread \ {t} : call'[u] = call[u]
    BY <1>0, <1>5 DEF TakeVictim, Missing, Idle
  <2> QED
    BY <1>0, <2>1
<1>6. ASSUME NEW t \in Thread, NEW p \in Page, NEW mode \in Mode,
             NoAvailableFrame(t, p, mode)
      PROVE  LatchOwners'
  <2>1. /\ call[t].pc = "idle" /\ latch' = latch /\ guards \subseteq guards'
        /\ \A u \in Thread \ {t} : call'[u] = call[u]
    BY <1>0, <1>6 DEF NoAvailableFrame, Missing, Fail, Idle
  <2> QED
    BY <1>0, <2>1
<1>7. ASSUME NEW t \in Thread, NEW p \in Page, PagePinned(t, p) PROVE LatchOwners'
  BY <1>0, <1>7 DEF PagePinned, Fail, Idle
<1>8. ASSUME NEW t \in Thread, NEW p \in Page, DeleteLoaded(t, p) PROVE LatchOwners'
  BY <1>0, <1>8 DEF DeleteLoaded, Idle
<1>9. ASSUME NEW t \in Thread, NEW p \in Page, DeleteUnloaded(t, p) PROVE LatchOwners'
  BY <1>0, <1>9 DEF DeleteUnloaded, Idle
<1>10. ASSUME NEW t \in Thread, LatchFreeFrame(t) PROVE LatchOwners'
  BY <1>0, <1>10 DEF LatchFreeFrame, Goto, Latched
<1>11. ASSUME NEW t \in Thread, LatchCleanVictim(t) PROVE LatchOwners'
  BY <1>0, <1>11 DEF LatchCleanVictim, Goto, Latched
<1>12. ASSUME NEW t \in Thread, LatchDirtyVictim(t) PROVE LatchOwners'
  BY <1>0, <1>12 DEF LatchDirtyVictim, Goto, Latched
<1>13. ASSUME NEW t \in Thread, Flushed(t) PROVE LatchOwners'
  BY <1>0, <1>13 DEF Flushed, Goto
<1>14. ASSUME NEW t \in Thread, FlushFailed(t) PROVE LatchOwners'
  BY <1>0, <1>14 DEF FlushFailed, Fail, Idle, Released
<1>15. ASSUME NEW t \in Thread, Loaded(t) PROVE LatchOwners'
  <2> DEFINE n == GuardFor(t, call[t].page, call[t].frame, call[t].mode, TRUE)
  <2>1. /\ call[t].pc = "load" /\ call[t].frame \in Frame
        /\ \A u \in Thread \ {t} : call'[u] = call[u]
    BY <1>0, <1>15 DEF Loaded, Return
  <2>2. guards' = guards \cup {n}
    BY <1>15 DEF Loaded
  <2>3. n.open /\ n.owner = t /\ n.frame = call[t].frame
    BY DEF GuardFor
  <2>4. \A f \in Frame, u \in Thread :
          latch'[f].writer = u \/ u \in latch'[f].readers =>
            IF f = call[t].frame THEN u = t
            ELSE latch[f].writer = u \/ u \in latch[f].readers
    BY <1>0, <1>15, <2>1 DEF Loaded
  <2> HIDE DEF n
  <2> QED
    BY <1>0, <2>1, <2>2, <2>3, <2>4
<1>16. ASSUME NEW t \in Thread, LoadFailed(t) PROVE LatchOwners'
  BY <1>0, <1>16 DEF LoadFailed, Fail, Idle, Released
<1>17. ASSUME NEW t \in Thread, ReturnError(t) PROVE LatchOwners'
  BY <1>0, <1>17 DEF ReturnError, Return, Idle
<1>18. ASSUME NEW t \in Thread, Unlatch(t) PROVE LatchOwners'
  BY <1>0, <1>18 DEF Unlatch, Return, Idle, Released
<1>19. ASSUME NEW t \in Thread, SendDelete(t) PROVE LatchOwners'
  BY <1>0, <1>19 DEF SendDelete, Return, Idle
<1>20. ASSUME NEW g \in guards, Unpin(g) PROVE LatchOwners'
  BY <1>0, <1>20 DEF Unpin, Idle
<1>21. ASSUME NEW g \in guards, NEW v \in Value, Modify(g, v) PROVE LatchOwners'
  BY <1>0, <1>21 DEF Modify
<1>22. CASE Worker
  BY <1>0, <1>22 DEF Worker
<1>23. CASE UNCHANGED vars
  BY <1>0, <1>23 DEF vars
<1> QED
  BY <1>1, <1>2, <1>3, <1>4, <1>5, <1>6, <1>7, <1>8, <1>9, <1>10, <1>11, <1>12,
     <1>13, <1>14, <1>15, <1>16, <1>17, <1>18, <1>19, <1>20, <1>21, <1>22, <1>23
     DEF Next, Call, Locked, Free, Close, GuardsOf

\* pin_count keeps counting the guards.
LEMMA PinsStep == IInv /\ [Next]_vars => (IsFiniteSet(guards) /\ PinsCountGuards)'
<1> SUFFICES ASSUME IInv, [Next]_vars PROVE (IsFiniteSet(guards) /\ PinsCountGuards)'
  OBVIOUS
<1> USE DEF At
<1>0. /\ page_table \in [Page -> Frame \cup {NoFrame}] /\ frame_metas \in [Frame -> FrameMeta]
      /\ guards \subseteq Guard /\ call \in [Thread -> [pc : PC, page : Page \cup {NoPage},
                                  frame : Frame \cup {NoFrame}, mode : Mode]]
      /\ CallsOK /\ FrameInHand /\ WaitingCalls /\ OneGuardPerPage
      /\ IsFiniteSet(guards) /\ PinsCountGuards
      /\ \A f \in Frame : frame_metas[f].pin_count = Cardinality(PinsOf(guards, f))
  BY DEF IInv, TypeOK, PinsCountGuards, PinsOf
<1>1. ASSUME NEW t \in Thread, new_page(t) PROVE (IsFiniteSet(guards) /\ PinsCountGuards)'
  BY <1>0, <1>1 DEF new_page, poolVars, PinsCountGuards
<1>2. ASSUME NEW t \in Thread, NEW p \in Page, NEW mode \in Mode,
             PinLoaded(t, p, mode)
      PROVE  (IsFiniteSet(guards) /\ PinsCountGuards)'
  <2> DEFINE n == GuardFor(t, p, page_table[p], mode, FALSE)
  <2>1. guards' = guards \cup {n}
    BY <1>2 DEF PinLoaded
  <2>2. n.frame = page_table[p] /\ n.owner = t /\ n.page = p
    BY DEF GuardFor
  <2>3. n \notin guards
    <3>1. \A g \in guards : g.owner = t => g.page # p
      BY <1>0, <1>2 DEF PinLoaded, MayAsk, GuardsOf, Guard, Page
    <3> HIDE DEF n
    <3> QED
      BY <2>2, <3>1
  <2>4. \A f \in Frame :
          frame_metas'[f].pin_count = IF f = page_table[p] THEN frame_metas[f].pin_count + 1
                                                           ELSE frame_metas[f].pin_count
    BY <1>0, <1>2 DEF PinLoaded, FrameMeta
  <2> HIDE DEF n
  <2>5. /\ IsFiniteSet(guards')
        /\ \A f \in Frame : frame_metas'[f].pin_count = Cardinality(PinsOf(guards', f))
    <3>0. IsFiniteSet(guards)
      BY <1>0
    <3>1. IsFiniteSet(guards \cup {n})
      BY <1>0, <2>1, <2>2, <2>3, <2>4, AddGuard
    <3>2. ASSUME NEW f \in Frame
          PROVE  Cardinality(PinsOf(guards \cup {n}, f)) = IF n.frame = f THEN Cardinality(PinsOf(guards, f)) + 1
                                             ELSE Cardinality(PinsOf(guards, f))
      BY <3>0, <2>3, AddGuard
    <3> QED
      BY <1>0, <2>1, <2>2, <2>3, <2>4, <3>1, <3>2
  <2> QED
    BY <2>5 DEF PinsCountGuards, PinsOf
<1>3. ASSUME NEW t \in Thread, OpenGuard(t) PROVE (IsFiniteSet(guards) /\ PinsCountGuards)'
  <2> DEFINE o == GuardFor(t, call[t].page, call[t].frame, call[t].mode, FALSE)
             n == GuardFor(t, call[t].page, call[t].frame, call[t].mode, TRUE)
  <2>1. o \in guards
    BY <1>0, <1>3 DEF OpenGuard, WaitingCalls
  <2>2. guards' = (guards \ {o}) \cup {n} /\ frame_metas' = frame_metas
    BY <1>3 DEF OpenGuard, poolVars
  <2>3. n.owner = o.owner /\ n.page = o.page /\ n.frame = o.frame /\ n # o
    BY DEF GuardFor
  <2> HIDE DEF o, n
  <2>4. n \notin guards
    BY <1>0, <2>1, <2>3 DEF OneGuardPerPage
  <2>5. /\ IsFiniteSet(guards')
        /\ \A f \in Frame : frame_metas'[f].pin_count = Cardinality(PinsOf(guards', f))
    <3>0. IsFiniteSet(guards)
      BY <1>0
    <3>1. IsFiniteSet((guards \ {o}) \cup {n})
      BY <1>0, <2>1, <2>2, <2>3, <2>4, ReplaceGuard
    <3>2. ASSUME NEW f \in Frame
          PROVE  Cardinality(PinsOf((guards \ {o}) \cup {n}, f)) = Cardinality(PinsOf(guards, f))
      BY <3>0, <2>1, <2>3, <2>4, ReplaceGuard
    <3> QED
      BY <1>0, <2>1, <2>2, <2>3, <2>4, <3>1, <3>2
  <2> QED
    BY <2>5 DEF PinsCountGuards, PinsOf
<1>4. ASSUME NEW t \in Thread, NEW p \in Page, NEW mode \in Mode,
             TakeFreeFrame(t, p, mode)
      PROVE  (IsFiniteSet(guards) /\ PinsCountGuards)'
  BY <1>0, <1>4 DEF TakeFreeFrame, poolVars, PinsCountGuards
<1>5. ASSUME NEW t \in Thread, NEW p \in Page, NEW mode \in Mode,
             TakeVictim(t, p, mode)
      PROVE  (IsFiniteSet(guards) /\ PinsCountGuards)'
  BY <1>0, <1>5 DEF TakeVictim, poolVars, PinsCountGuards
<1>6. ASSUME NEW t \in Thread, NEW p \in Page, NEW mode \in Mode,
             NoAvailableFrame(t, p, mode)
      PROVE  (IsFiniteSet(guards) /\ PinsCountGuards)'
  BY <1>0, <1>6 DEF NoAvailableFrame, poolVars, PinsCountGuards
<1>7. ASSUME NEW t \in Thread, NEW p \in Page, PagePinned(t, p) PROVE (IsFiniteSet(guards) /\ PinsCountGuards)'
  BY <1>0, <1>7 DEF PagePinned, poolVars, PinsCountGuards
<1>8. ASSUME NEW t \in Thread, NEW p \in Page, DeleteLoaded(t, p) PROVE (IsFiniteSet(guards) /\ PinsCountGuards)'
  <2>1. \A f \in Frame : frame_metas'[f].pin_count = frame_metas[f].pin_count
    BY <1>0, <1>8 DEF DeleteLoaded, Unload, Reset, Deletable
  <2>2. guards' = guards
    BY <1>8 DEF DeleteLoaded
  <2> QED
    BY <1>0, <2>1, <2>2 DEF PinsCountGuards
<1>9. ASSUME NEW t \in Thread, NEW p \in Page, DeleteUnloaded(t, p) PROVE (IsFiniteSet(guards) /\ PinsCountGuards)'
  BY <1>0, <1>9 DEF DeleteUnloaded, poolVars, PinsCountGuards
<1>10. ASSUME NEW t \in Thread, LatchFreeFrame(t) PROVE (IsFiniteSet(guards) /\ PinsCountGuards)'
  BY <1>0, <1>10 DEF LatchFreeFrame, poolVars, PinsCountGuards
<1>11. ASSUME NEW t \in Thread, LatchCleanVictim(t) PROVE (IsFiniteSet(guards) /\ PinsCountGuards)'
  <2>1. \A f \in Frame : frame_metas'[f].pin_count = frame_metas[f].pin_count
    BY <1>0, <1>11 DEF LatchCleanVictim, Unload, Reset, CallsOK, FrameInHand, HoldsMutex
  <2>2. guards' = guards
    BY <1>11 DEF LatchCleanVictim
  <2> QED
    BY <1>0, <2>1, <2>2 DEF PinsCountGuards
<1>12. ASSUME NEW t \in Thread, LatchDirtyVictim(t) PROVE (IsFiniteSet(guards) /\ PinsCountGuards)'
  BY <1>0, <1>12 DEF LatchDirtyVictim, poolVars, PinsCountGuards
<1>13. ASSUME NEW t \in Thread, Flushed(t) PROVE (IsFiniteSet(guards) /\ PinsCountGuards)'
  <2>1. \A f \in Frame : frame_metas'[f].pin_count = frame_metas[f].pin_count
    BY <1>0, <1>13 DEF Flushed, Unload, Reset, CallsOK, FrameInHand, HoldsMutex
  <2>2. guards' = guards
    BY <1>13 DEF Flushed
  <2> QED
    BY <1>0, <2>1, <2>2 DEF PinsCountGuards
<1>14. ASSUME NEW t \in Thread, FlushFailed(t) PROVE (IsFiniteSet(guards) /\ PinsCountGuards)'
  BY <1>0, <1>14 DEF FlushFailed, poolVars, PinsCountGuards
<1>15. ASSUME NEW t \in Thread, Loaded(t) PROVE (IsFiniteSet(guards) /\ PinsCountGuards)'
  <2> DEFINE n == GuardFor(t, call[t].page, call[t].frame, call[t].mode, TRUE)
  <2>1. guards' = guards \cup {n}
    BY <1>15 DEF Loaded
  <2>2. n.frame = call[t].frame /\ n.page = call[t].page
    BY DEF GuardFor
  <2>3. call[t].frame \in Frame /\ frame_metas[call[t].frame].pin_count = 0
    BY <1>0, <1>15 DEF Loaded, CallsOK, FrameInHand, HoldsMutex
  <2>4. n \notin guards
    BY <2>2, <2>3, UnpinnedMeansNoGuard
  <2>5. \A f \in Frame :
          frame_metas'[f].pin_count = IF f = call[t].frame THEN frame_metas[f].pin_count + 1
                                                           ELSE frame_metas[f].pin_count
    BY <1>0, <1>15, <2>3 DEF Loaded, Published
  <2> HIDE DEF n
  <2>6. /\ IsFiniteSet(guards')
        /\ \A f \in Frame : frame_metas'[f].pin_count = Cardinality(PinsOf(guards', f))
    <3>0. IsFiniteSet(guards)
      BY <1>0
    <3>1. IsFiniteSet(guards \cup {n})
      BY <1>0, <2>1, <2>2, <2>4, <2>5, AddGuard
    <3>2. ASSUME NEW f \in Frame
          PROVE  Cardinality(PinsOf(guards \cup {n}, f)) = IF n.frame = f THEN Cardinality(PinsOf(guards, f)) + 1
                                             ELSE Cardinality(PinsOf(guards, f))
      BY <3>0, <2>4, AddGuard
    <3> QED
      BY <1>0, <2>1, <2>2, <2>4, <2>5, <3>1, <3>2
  <2> QED
    BY <2>6 DEF PinsCountGuards, PinsOf
<1>16. ASSUME NEW t \in Thread, LoadFailed(t) PROVE (IsFiniteSet(guards) /\ PinsCountGuards)'
  BY <1>0, <1>16 DEF LoadFailed, poolVars, PinsCountGuards
<1>17. ASSUME NEW t \in Thread, ReturnError(t) PROVE (IsFiniteSet(guards) /\ PinsCountGuards)'
  BY <1>0, <1>17 DEF ReturnError, poolVars, PinsCountGuards
<1>18. ASSUME NEW t \in Thread, Unlatch(t) PROVE (IsFiniteSet(guards) /\ PinsCountGuards)'
  BY <1>0, <1>18 DEF Unlatch, poolVars, PinsCountGuards
<1>19. ASSUME NEW t \in Thread, SendDelete(t) PROVE (IsFiniteSet(guards) /\ PinsCountGuards)'
  BY <1>0, <1>19 DEF SendDelete, poolVars, PinsCountGuards
<1>20. ASSUME NEW g \in guards, Unpin(g) PROVE (IsFiniteSet(guards) /\ PinsCountGuards)'
  <2>1. g.frame \in Frame /\ guards' = guards \ {g}
    BY <1>0, <1>20 DEF Unpin, Guard
  <2>2. \A f \in Frame :
          frame_metas'[f].pin_count = IF f = g.frame THEN frame_metas[f].pin_count - 1
                                                     ELSE frame_metas[f].pin_count
    BY <1>0, <1>20, <2>1 DEF Unpin, Dropped, FrameMeta
  <2>3. /\ IsFiniteSet(guards')
        /\ \A f \in Frame : frame_metas'[f].pin_count = Cardinality(PinsOf(guards', f))
    <3>0. IsFiniteSet(guards)
      BY <1>0
    <3>1. IsFiniteSet(guards \ {g})
      BY <1>0, <2>1, <2>2, RemoveGuard
    <3>2. ASSUME NEW f \in Frame
          PROVE  Cardinality(PinsOf(guards \ {g}, f)) = IF g.frame = f THEN Cardinality(PinsOf(guards, f)) - 1
                                             ELSE Cardinality(PinsOf(guards, f))
      BY <3>0, RemoveGuard
    <3> QED
      BY <1>0, <2>1, <2>2, <3>1, <3>2
  <2> QED
    BY <2>3 DEF PinsCountGuards, PinsOf
<1>21. ASSUME NEW g \in guards, NEW v \in Value, Modify(g, v) PROVE (IsFiniteSet(guards) /\ PinsCountGuards)'
  BY <1>0, <1>21 DEF Modify, poolVars, PinsCountGuards
<1>22. CASE Worker
  BY <1>0, <1>22 DEF Worker, poolVars, PinsCountGuards
<1>23. CASE UNCHANGED vars
  BY <1>0, <1>23 DEF vars, poolVars, PinsCountGuards
<1> QED
  BY <1>1, <1>2, <1>3, <1>4, <1>5, <1>6, <1>7, <1>8, <1>9, <1>10, <1>11, <1>12,
     <1>13, <1>14, <1>15, <1>16, <1>17, <1>18, <1>19, <1>20, <1>21, <1>22, <1>23
     DEF Next, Call, Locked, Free, Close, GuardsOf

\* A frame that some structure knows, or that a call is working with.
Known(f) == f \in free_list \/ frame_metas[f].page_id # NoPage \/ Held(f)

FrameLost(f) == \E t \in Thread : At(t, "load") /\ call[t].frame = f /\ reply[t] = Failed

KnownFramesKept == \A f \in Frame : Known(f) => Known(f)' \/ FrameLost(f)


\* No step forgets a frame, except a read error.
LEMMA KnownStep == IInv /\ [Next]_vars => KnownFramesKept
<1> SUFFICES ASSUME IInv, [Next]_vars PROVE KnownFramesKept
  OBVIOUS
<1> USE NullAssumption DEF HoldsMutex, At, MutexFree, MayDelete, Held, Known, FrameLost, poolVars, diskVars
<1>0. /\ TypeOK /\ CallTypeOK /\ CallsOK /\ FrameInHand /\ Tracking
  BY DEF IInv, TypeOK, CallTypeOK
<1> USE DEF TypeOK, CallTypeOK, CallsOK, KnownFramesKept
<1>1. ASSUME NEW t \in Thread, new_page(t) PROVE KnownFramesKept
  BY <1>0, <1>1 DEF new_page
<1>2. ASSUME NEW t \in Thread, NEW p \in Page, NEW mode \in Mode,
             PinLoaded(t, p, mode)
      PROVE  KnownFramesKept
  BY <1>0, <1>2 DEF PinLoaded
<1>3. ASSUME NEW t \in Thread, OpenGuard(t) PROVE KnownFramesKept
  BY <1>0, <1>3 DEF OpenGuard, Return, Idle
<1>4. ASSUME NEW t \in Thread, NEW p \in Page, NEW mode \in Mode,
             TakeFreeFrame(t, p, mode)
      PROVE  KnownFramesKept
  BY <1>0, <1>4 DEF TakeFreeFrame, Missing
<1>5. ASSUME NEW t \in Thread, NEW p \in Page, NEW mode \in Mode,
             TakeVictim(t, p, mode)
      PROVE  KnownFramesKept
  BY <1>0, <1>5 DEF TakeVictim, Missing, Tracking, Rep!Replacers
<1>6. ASSUME NEW t \in Thread, NEW p \in Page, NEW mode \in Mode,
             NoAvailableFrame(t, p, mode)
      PROVE  KnownFramesKept
  BY <1>0, <1>6 DEF NoAvailableFrame, Missing, Fail, Idle
<1>7. ASSUME NEW t \in Thread, NEW p \in Page, PagePinned(t, p) PROVE KnownFramesKept
  BY <1>0, <1>7 DEF PagePinned, Fail, Idle
<1>8. ASSUME NEW t \in Thread, NEW p \in Page, DeleteLoaded(t, p) PROVE KnownFramesKept
  BY <1>0, <1>8 DEF DeleteLoaded, Unload, Reset, Freed
<1>9. ASSUME NEW t \in Thread, NEW p \in Page, DeleteUnloaded(t, p) PROVE KnownFramesKept
  BY <1>0, <1>9 DEF DeleteUnloaded, Idle
<1>10. ASSUME NEW t \in Thread, LatchFreeFrame(t) PROVE KnownFramesKept
  BY <1>0, <1>10 DEF LatchFreeFrame, Goto
<1>11. ASSUME NEW t \in Thread, LatchCleanVictim(t) PROVE KnownFramesKept
  BY <1>0, <1>11 DEF LatchCleanVictim, Goto, Unload, Reset
<1>12. ASSUME NEW t \in Thread, LatchDirtyVictim(t) PROVE KnownFramesKept
  BY <1>0, <1>12 DEF LatchDirtyVictim, Goto
<1>13. ASSUME NEW t \in Thread, Flushed(t) PROVE KnownFramesKept
  BY <1>0, <1>13 DEF Flushed, Goto, Unload, Reset
<1>14. ASSUME NEW t \in Thread, FlushFailed(t) PROVE KnownFramesKept
  BY <1>0, <1>14 DEF FlushFailed, FrameInHand
<1>15. ASSUME NEW t \in Thread, Loaded(t) PROVE KnownFramesKept
  BY <1>0, <1>15 DEF Loaded, Published
<1>16. ASSUME NEW t \in Thread, LoadFailed(t) PROVE KnownFramesKept
  BY <1>0, <1>16 DEF LoadFailed
<1>17. ASSUME NEW t \in Thread, ReturnError(t) PROVE KnownFramesKept
  BY <1>0, <1>17 DEF ReturnError, Return
<1>18. ASSUME NEW t \in Thread, Unlatch(t) PROVE KnownFramesKept
  BY <1>0, <1>18 DEF Unlatch, Return
<1>19. ASSUME NEW t \in Thread, SendDelete(t) PROVE KnownFramesKept
  BY <1>0, <1>19 DEF SendDelete, Return
<1>20. ASSUME NEW g \in guards, Unpin(g) PROVE KnownFramesKept
  BY <1>0, <1>20 DEF Unpin, Guard, Dropped
<1>21. ASSUME NEW g \in guards, NEW v \in Value, Modify(g, v) PROVE KnownFramesKept
  BY <1>0, <1>21 DEF Modify
<1>22. CASE Worker
  BY <1>0, <1>22 DEF Worker
<1>23. CASE UNCHANGED vars
  BY <1>0, <1>23 DEF vars
<1> QED
  BY <1>1, <1>2, <1>3, <1>4, <1>5, <1>6, <1>7, <1>8, <1>9, <1>10, <1>11, <1>12,
     <1>13, <1>14, <1>15, <1>16, <1>17, <1>18, <1>19, <1>20, <1>21, <1>22, <1>23
     DEF Next, Call, Locked, Free, Close, GuardsOf

-----------------------------------------------------------------------------
(* The theorems.                                                           *)

LEMMA Inductive == IInv /\ [Next]_vars => IInv'
BY TypeStep, CallsStep, HandStep, FreeStep, TableStep, TrackStep, KeepsFrameStep,
   WaitingStep, WaitingCallsStep, OneGuardStep, LatchStep, PinsStep DEF IInv

\* Every reachable state satisfies the inductive invariant.
THEOREM Invariance == Spec => []IInv
BY InitIInv, Inductive, PTL DEF Spec

\* The types, and with them that no pin_count ever drops below zero.
THEOREM TypeCorrect == Spec => []TypeOK
<1>1. IInv => TypeOK
  BY DEF IInv
<1> QED
  BY Invariance, <1>1, PTL

\* page_table and the frame metas are inverse to each other, across evictions,
\* failed loads, failed flushes and deletes.
THEOREM PageTableCorrect == Spec => []PageTableMatchesMetas
<1>1. IInv => PageTableMatchesMetas
  BY DEF IInv
<1> QED
  BY Invariance, <1>1, PTL

\* pin_count counts the guards: the assertions in Drop never fail.
THEOREM PinsCorrect == Spec => []PinsCountGuards
<1>1. IInv => PinsCountGuards
  BY DEF IInv
<1> QED
  BY Invariance, <1>1, PTL

\* A page does not leave its frame while anybody holds a guard of it.
THEOREM GuardsCorrect == Spec => []GuardKeepsItsFrame
<1>1. IInv => GuardKeepsItsFrame
  BY DEF IInv
<1> QED
  BY Invariance, <1>1, PTL

\* InHand is the frame of the thread that has the mutex.
LEMMA InHandIsHeld ==
  ASSUME IInv, NEW f \in Frame
  PROVE  f \in InHand <=> Held(f)
<1>1. f \in InHand <=> \E t \in Thread : HoldsMutex(t) /\ call[t].frame = f
  BY DEF InHand, HoldsMutex
<1>2. /\ mutex \in Thread \cup {NoThread}
      /\ \A t \in Thread : HoldsMutex(t) <=> mutex = t
  BY DEF IInv, TypeOK, CallsOK
<1> QED
  BY <1>1, <1>2, NullAssumption DEF Held

\* The replacer tracks the loaded frames and offers the unpinned ones.
THEOREM EvictionCorrect == Spec => []EvictableIffUnpinned
<1>1. ASSUME IInv PROVE EvictableIffUnpinned
  <2>1. /\ replacer.tracked \subseteq Frame /\ replacer.evictable \subseteq Frame
    BY <1>1 DEF IInv, TypeOK, Rep!Replacers
  <2>2. \A f \in Frame :
          /\ f \in replacer.tracked <=> f \in LoadedFrames \ InHand
          /\ f \in replacer.evictable <=>
               f \in LoadedFrames \ InHand /\ frame_metas[f].pin_count = 0
    BY <1>1, InHandIsHeld DEF IInv, Tracking, LoadedFrames
  <2>3. LoadedFrames \subseteq Frame
    BY DEF LoadedFrames
  <2> QED
    BY <2>1, <2>2, <2>3 DEF EvictableIffUnpinned
<1> QED
  BY Invariance, <1>1, PTL

\* A thread that waits for a latch while it keeps the mutex waits only for threads
\* that need no lock to release it, so that the mutex is never part of a deadlock.
THEOREM NoDeadlockOnMutex == Spec => []MutexHolderWaitsOnlyForDrops
<1>1. ASSUME IInv PROVE MutexHolderWaitsOnlyForDrops
  <2> SUFFICES ASSUME NEW t \in Thread, NEW u \in Thread,
                      call[t].pc \in {"free_latch", "victim_latch"},
                      u = latch[call[t].frame].writer \/ u \in latch[call[t].frame].readers
               PROVE  At(u, "unlatch") /\ call[u].frame = call[t].frame
    BY DEF MutexHolderWaitsOnlyForDrops
  <2>1. /\ mutex = t /\ call[t].frame \in Frame
        /\ frame_metas[call[t].frame].pin_count = 0
    BY <1>1 DEF IInv, CallsOK, FrameInHand, HoldsMutex
  <2>2. \A g \in guards : g.frame # call[t].frame
    BY <1>1, <2>1, UnpinnedMeansNoGuard
  <2>3. call[u].pc \in {"unlatch", "flush", "load"} /\ call[u].frame = call[t].frame
    BY <1>1, <2>1, <2>2 DEF IInv, LatchOwners
  <2>4. call[u].pc \notin {"flush", "load"}
    BY <1>1, <2>1 DEF IInv, CallsOK, HoldsMutex
  <2> QED
    BY <2>3, <2>4 DEF At
<1> QED
  BY Invariance, <1>1, PTL

\* The pool never has a frame twice, and only a read error of the disk loses one.
THEOREM NoFrameLost == Spec => FramesAccountedFor
<1> DEFINE A == /\ free_list' \cap (LoadedFrames' \cup InHand') = {}
                /\ \A f \in Lost' \ Lost : FrameLost(f)
<1>1. ASSUME IInv, IInv', [Next]_vars PROVE A
  <2>1. free_list' \cap (LoadedFrames' \cup InHand') = {}
    <3>1. free_list' \cap LoadedFrames' = {}
      BY <1>1 DEF IInv, FreeFrames, LoadedFrames
    <3>2. free_list' \cap InHand' = {}
      BY <1>1 DEF IInv, FrameInHand, HoldsMutex, InHand
    <3> QED
      BY <3>1, <3>2
  <2>2. ASSUME NEW f \in Frame, f \in Lost', f \notin Lost PROVE FrameLost(f)
    <3>1. f \in InHand <=> Held(f)
      BY <1>1, InHandIsHeld
    <3>2. (f \in InHand <=> Held(f))'
      BY <1>1, InHandIsHeld, PTL
    <3>3. Known(f) /\ ~Known(f)'
      BY <2>2, <3>1, <3>2 DEF Lost, Known, LoadedFrames
    <3> QED
      BY <1>1, <3>3, KnownStep DEF KnownFramesKept
  <2>3. Lost' \subseteq Frame
    BY DEF Lost
  <2> QED
    BY <2>1, <2>2, <2>3
<1>2. [A]_vars => [/\ free_list' \cap (LoadedFrames' \cup InHand') = {}
                   /\ \A f \in Lost' \ Lost : \E t \in Thread :
                        At(t, "load") /\ call[t].frame = f /\ reply[t] = Failed]_vars
  BY DEF FrameLost
<1> QED
  BY Invariance, <1>1, <1>2, PTL DEF FramesAccountedFor, Spec
=============================================================================
