--------------------------- MODULE PageStoreProofs ---------------------------
(***************************************************************************)
(* Proof that the buffer pool implements PageStore, for any number of      *)
(* threads, frames, pages and values: whatever is loaded, evicted, written *)
(* back, deleted or refused by the disk, a page has one content, and only  *)
(* the thread that has it open for writing changes it.                     *)
(*                                                                         *)
(* IInv of BufferPoolProofs is about the bookkeeping.  Here StoreInv adds  *)
(* where the bytes are: a frame that is not dirty has the bytes that the   *)
(* disk has (CleanSaved), what a thread waits to write is in its victim's  *)
(* frame (RequestsOK), what it has read is still on disk when it gets the  *)
(* mutex back (RepliesOK), and the latches are those of the open guards    *)
(* (LatchesHeld).                                                          *)
(***************************************************************************)
EXTENDS BufferPoolProofs

\* Nobody has, or is about to get, a deleted page for writing.
WritesLive ==
  /\ \A g \in guards : g.mode = "write" => g.page \notin retired
  /\ \A t \in Thread : HoldsMutex(t) /\ call[t].mode = "write" =>
       call[t].page \notin retired

\* An open guard has its latch, and a thread about to unlatch a frame has no other
\* guard of it.
LatchesHeld ==
  /\ \A g \in guards : g.open =>
       IF g.mode = "write" THEN latch[g.frame].writer = g.owner
                           ELSE g.owner \in latch[g.frame].readers
  /\ \A f \in Frame : latch[f].writer # NoThread => latch[f].readers = {}
  /\ \A t \in Thread : At(t, "unlatch") =>
       \A g \in guards : g.owner = t => g.frame # call[t].frame

\* The page that is in frame f.
PageIn(f) == frame_metas[f].page_id

\* A victim is written because it is dirty, and a deleted page is retired first.
CallsMeanIt ==
  \A t \in Thread :
    /\ At(t, "flush") => frame_metas[call[t].frame].is_dirty
    /\ At(t, "delete") => call[t].page \in retired

\* What is in the disk's queue: deletes of retired pages, and what the thread in
\* the mutex waits for.
RequestsOK ==
  \A i \in DOMAIN queue :
    LET r == queue[i] IN
    /\ r.op = "delete" => r.page \in retired
    /\ r.op # "delete" => reply[r.client] = NoReply
    /\ r.op = "read" => At(r.client, "load") /\ r.page = call[r.client].page
    /\ r.op = "write" => /\ At(r.client, "flush")
                         /\ r.page = PageIn(call[r.client].frame)
                         /\ r.data = data[call[r.client].frame]

\* A thread has one request in the queue at most.
OneRequest ==
  \A i, j \in DOMAIN queue :
    queue[i].op # "delete" /\ queue[j].op # "delete" => i = j

\* What a thread was answered is still true.
RepliesOK ==
  \A t \in Thread : reply[t] # NoReply =>
    LET c == call[t]
        q == PageIn(c.frame)
    IN
    /\ c.pc \in {"flush", "load"}
    /\ reply[t] \in Value =>
         c.pc = "load" /\ (c.page \notin retired => stored[c.page] = reply[t])
    /\ reply[t] = Done =>
         c.pc = "flush" /\ (q \notin retired => stored[q] = data[c.frame])

\* Nobody can be changing the bytes of frame f.
NoWriter(f) == \A g \in guards : g.open /\ g.mode = "write" => g.frame # f

\* A page that is neither dirty nor open for writing is on disk as it is in its frame.
CleanSaved ==
  \A f \in Frame :
    LET p == PageIn(f) IN
    p \in Page \ retired /\ ~frame_metas[f].is_dirty /\ NoWriter(f) => stored[p] = data[f]

StoreInv ==
  /\ WritesLive
  /\ LatchesHeld
  /\ CallsMeanIt
  /\ RequestsOK
  /\ OneRequest
  /\ RepliesOK
  /\ CleanSaved

-----------------------------------------------------------------------------
(* Initially.                                                              *)

\* The pool BufferPoolManager::new creates holds no page.
LEMMA InitStoreInv == Init => StoreInv
<1> SUFFICES ASSUME Init PROVE StoreInv
  OBVIOUS
<1> USE NullAssumption DEF Init, Disk!ServiceInit
<1>1. WritesLive /\ LatchesHeld /\ CallsMeanIt
  BY DEF WritesLive, LatchesHeld, CallsMeanIt, HoldsMutex, At, Idle
<1>2. RequestsOK /\ OneRequest /\ RepliesOK
  BY DEF RequestsOK, OneRequest, RepliesOK
<1>3. CleanSaved
  BY DEF CleanSaved, PageIn, Reset
<1> QED
  BY <1>1, <1>2, <1>3 DEF StoreInv

-----------------------------------------------------------------------------
(* Every step keeps StoreInv.                                              *)

\* A page is deleted only while nobody has it or is loading it for writing.
LEMMA WritesLiveStep == IInv /\ StoreInv /\ [Next]_vars => WritesLive'
<1> SUFFICES ASSUME IInv, StoreInv, [Next]_vars PROVE WritesLive'
  OBVIOUS
<1> USE NullAssumption DEF HoldsMutex, At, MayAsk, MayDelete, MutexFree, poolVars,
                           diskVars
<1>0. /\ TypeOK /\ CallTypeOK /\ CallsOK /\ GuardKeepsItsFrame /\ WaitingCalls
      /\ WritesLive /\ \A g \in guards : g.owner \in Thread /\ g.page \in Page
  BY DEF IInv, TypeOK, CallTypeOK, StoreInv, Guard
<1> USE DEF TypeOK, CallTypeOK, CallsOK, WritesLive
<1>1. ASSUME NEW t \in Thread, new_page(t) PROVE WritesLive'
  BY <1>0, <1>1 DEF new_page
<1>2. ASSUME NEW t \in Thread, NEW p \in Page, NEW mode \in Mode,
             PinLoaded(t, p, mode)
      PROVE  WritesLive'
  BY <1>0, <1>2 DEF PinLoaded, GuardFor
<1>3. ASSUME NEW t \in Thread, OpenGuard(t) PROVE WritesLive'
  <2> DEFINE o == GuardFor(t, call[t].page, call[t].frame, call[t].mode, FALSE)
             n == GuardFor(t, call[t].page, call[t].frame, call[t].mode, TRUE)
  <2>1. o \in guards
    BY <1>0, <1>3 DEF OpenGuard, WaitingCalls
  <2>2. guards' = (guards \ {o}) \cup {n} /\ retired' = retired
    BY <1>3 DEF OpenGuard
  <2>3. n.page = o.page /\ n.mode = o.mode
    BY DEF GuardFor
  <2>4. \A u \in Thread : HoldsMutex(u)' => call'[u] = call[u] /\ HoldsMutex(u)
    BY <1>0, <1>3 DEF OpenGuard, Return, Idle
  <2> HIDE DEF o, n
  <2> QED
    BY <1>0, <2>1, <2>2, <2>3, <2>4
<1>4. ASSUME NEW t \in Thread, NEW p \in Page, NEW mode \in Mode,
             TakeFreeFrame(t, p, mode)
      PROVE  WritesLive'
  BY <1>0, <1>4 DEF TakeFreeFrame, Missing
<1>5. ASSUME NEW t \in Thread, NEW p \in Page, NEW mode \in Mode,
             TakeVictim(t, p, mode)
      PROVE  WritesLive'
  BY <1>0, <1>5 DEF TakeVictim, Missing
<1>6. ASSUME NEW t \in Thread, NEW p \in Page, NEW mode \in Mode,
             NoAvailableFrame(t, p, mode)
      PROVE  WritesLive'
  BY <1>0, <1>6 DEF NoAvailableFrame, Missing, Fail, Idle
<1>7. ASSUME NEW t \in Thread, NEW p \in Page, PagePinned(t, p) PROVE WritesLive'
  BY <1>0, <1>7 DEF PagePinned, Fail, Idle
<1>8. ASSUME NEW t \in Thread, NEW p \in Page, DeleteLoaded(t, p) PROVE WritesLive'
  <2>1. \A g \in guards : g.page # p
    <3>1. page_table[p] \in Frame /\ frame_metas[page_table[p]].pin_count = 0
      BY <1>0, <1>8 DEF DeleteLoaded, Deletable
    <3> QED
      BY <1>0, <3>1, UnpinnedMeansNoGuard DEF GuardKeepsItsFrame
  <2> QED
    BY <1>0, <1>8, <2>1 DEF DeleteLoaded, Idle
<1>9. ASSUME NEW t \in Thread, NEW p \in Page, DeleteUnloaded(t, p) PROVE WritesLive'
  <2>1. \A g \in guards : g.page # p
    BY <1>0, <1>9 DEF DeleteUnloaded, GuardKeepsItsFrame, IInv, Guard
  <2> QED
    BY <1>0, <1>9, <2>1 DEF DeleteUnloaded, Idle
<1>10. ASSUME NEW t \in Thread, LatchFreeFrame(t) PROVE WritesLive'
  BY <1>0, <1>10 DEF LatchFreeFrame, Goto
<1>11. ASSUME NEW t \in Thread, LatchCleanVictim(t) PROVE WritesLive'
  BY <1>0, <1>11 DEF LatchCleanVictim, Goto
<1>12. ASSUME NEW t \in Thread, LatchDirtyVictim(t) PROVE WritesLive'
  BY <1>0, <1>12 DEF LatchDirtyVictim, Goto
<1>13. ASSUME NEW t \in Thread, Flushed(t) PROVE WritesLive'
  BY <1>0, <1>13 DEF Flushed, Goto
<1>14. ASSUME NEW t \in Thread, FlushFailed(t) PROVE WritesLive'
  BY <1>0, <1>14 DEF FlushFailed, Fail, Idle
<1>15. ASSUME NEW t \in Thread, Loaded(t) PROVE WritesLive'
  BY <1>0, <1>15 DEF Loaded, Return, Idle, GuardFor
<1>16. ASSUME NEW t \in Thread, LoadFailed(t) PROVE WritesLive'
  BY <1>0, <1>16 DEF LoadFailed, Fail, Idle
<1>17. ASSUME NEW t \in Thread, ReturnError(t) PROVE WritesLive'
  BY <1>0, <1>17 DEF ReturnError, Return, Idle
<1>18. ASSUME NEW t \in Thread, Unlatch(t) PROVE WritesLive'
  BY <1>0, <1>18 DEF Unlatch, Return, Idle
<1>19. ASSUME NEW t \in Thread, SendDelete(t) PROVE WritesLive'
  BY <1>0, <1>19 DEF SendDelete, Return, Idle
<1>20. ASSUME NEW g \in guards, Unpin(g) PROVE WritesLive'
  BY <1>0, <1>20 DEF Unpin, Idle
<1>21. ASSUME NEW g \in guards, NEW v \in Value, Modify(g, v) PROVE WritesLive'
  BY <1>0, <1>21 DEF Modify
<1>22. CASE Worker
  BY <1>0, <1>22 DEF Worker
<1>23. CASE UNCHANGED vars
  BY <1>0, <1>23 DEF vars
<1> QED
  BY <1>1, <1>2, <1>3, <1>4, <1>5, <1>6, <1>7, <1>8, <1>9, <1>10, <1>11, <1>12,
     <1>13, <1>14, <1>15, <1>16, <1>17, <1>18, <1>19, <1>20, <1>21, <1>22, <1>23
     DEF Next, Call, Locked, Free, Close, GuardsOf

\* An open guard keeps its latch until it is dropped, and the drop releases no other's.
LEMMA LatchesStep == IInv /\ StoreInv /\ [Next]_vars => LatchesHeld'
<1> SUFFICES ASSUME IInv, StoreInv, [Next]_vars PROVE LatchesHeld'
  OBVIOUS
<1> USE NullAssumption DEF At, MayAsk, MayDelete, MutexFree, poolVars, diskVars
<1>0. /\ CallTypeOK /\ CallsOK /\ FrameInHand /\ GuardKeepsItsFrame /\ WaitingGuards
      /\ WaitingCalls /\ OneGuardPerPage /\ PageTableMatchesMetas /\ latch \in Latches
      /\ LatchesHeld
      /\ \A g \in guards : /\ g.owner \in Thread /\ g.page \in Page
                           /\ g.frame \in Frame /\ g.mode \in Mode
  BY DEF IInv, TypeOK, CallTypeOK, Latches, StoreInv, Guard
<1> USE DEF CallTypeOK, LatchesHeld
<1>1. ASSUME NEW t \in Thread, new_page(t) PROVE LatchesHeld'
  BY <1>0, <1>1 DEF new_page
<1>2. ASSUME NEW t \in Thread, NEW p \in Page, NEW mode \in Mode,
             PinLoaded(t, p, mode)
      PROVE  LatchesHeld'
  BY <1>0, <1>2 DEF PinLoaded, GuardFor
<1>3. ASSUME NEW t \in Thread, OpenGuard(t) PROVE LatchesHeld'
  <2> DEFINE c == call[t]
             o == GuardFor(t, c.page, c.frame, c.mode, FALSE)
             n == GuardFor(t, c.page, c.frame, c.mode, TRUE)
  <2>1. /\ c.frame \in Frame /\ c.page \in Page /\ c.mode \in Mode
        /\ CanLatch(c.frame, c.mode) /\ latch' = Latched(t, c.frame, c.mode)
    BY <1>0, <1>3 DEF OpenGuard, CallsOK
  <2>2. guards' = (guards \ {o}) \cup {n}
    BY <1>3 DEF OpenGuard
  <2>3. n.owner = t /\ n.frame = c.frame /\ n.mode = c.mode
    BY DEF GuardFor
  <2>4. \A u \in Thread : call'[u].pc = "unlatch" => u # t /\ call'[u] = call[u]
    BY <1>0, <1>3 DEF OpenGuard, Return, Idle
  <2> HIDE DEF c, o, n
  <2>5. \A g \in guards' : g.open =>
          IF g.mode = "write" THEN latch'[g.frame].writer = g.owner
                              ELSE g.owner \in latch'[g.frame].readers
    BY <1>0, <2>1, <2>2, <2>3 DEF Latched, CanLatch, Unlatched, Latches, Mode
  <2>6. \A f \in Frame : latch'[f].writer # NoThread => latch'[f].readers = {}
    BY <1>0, <2>1 DEF Latched, CanLatch, Unlatched, Latches, Mode
  <2>7. \A u \in Thread : call'[u].pc = "unlatch" =>
          \A g \in guards' : g.owner = u => g.frame # call'[u].frame
    BY <1>0, <2>2, <2>3, <2>4
  <2> QED
    BY <2>5, <2>6, <2>7
<1>4. ASSUME NEW t \in Thread, NEW p \in Page, NEW mode \in Mode,
             TakeFreeFrame(t, p, mode)
      PROVE  LatchesHeld'
  BY <1>0, <1>4 DEF TakeFreeFrame, Missing
<1>5. ASSUME NEW t \in Thread, NEW p \in Page, NEW mode \in Mode,
             TakeVictim(t, p, mode)
      PROVE  LatchesHeld'
  BY <1>0, <1>5 DEF TakeVictim, Missing
<1>6. ASSUME NEW t \in Thread, NEW p \in Page, NEW mode \in Mode,
             NoAvailableFrame(t, p, mode)
      PROVE  LatchesHeld'
  BY <1>0, <1>6 DEF NoAvailableFrame, Missing, Fail, Idle
<1>7. ASSUME NEW t \in Thread, NEW p \in Page, PagePinned(t, p) PROVE LatchesHeld'
  BY <1>0, <1>7 DEF PagePinned, Fail, Idle
<1>8. ASSUME NEW t \in Thread, NEW p \in Page, DeleteLoaded(t, p) PROVE LatchesHeld'
  BY <1>0, <1>8 DEF DeleteLoaded, Idle
<1>9. ASSUME NEW t \in Thread, NEW p \in Page, DeleteUnloaded(t, p) PROVE LatchesHeld'
  BY <1>0, <1>9 DEF DeleteUnloaded, Idle
<1>10. ASSUME NEW t \in Thread, LatchFreeFrame(t) PROVE LatchesHeld'
  <2>1. \A g \in guards : g.frame # call[t].frame
    BY <1>0, <1>10, UnpinnedMeansNoGuard
       DEF LatchFreeFrame, FrameInHand, CallsOK, HoldsMutex, At
  <2> QED
    BY <1>0, <1>10, <2>1
       DEF LatchFreeFrame, Latched, Unlatched, Latches, Goto, CallsOK, HoldsMutex
<1>11. ASSUME NEW t \in Thread, LatchCleanVictim(t) PROVE LatchesHeld'
  <2>1. \A g \in guards : g.frame # call[t].frame
    BY <1>0, <1>11, UnpinnedMeansNoGuard
       DEF LatchCleanVictim, FrameInHand, CallsOK, HoldsMutex, At
  <2> QED
    BY <1>0, <1>11, <2>1
       DEF LatchCleanVictim, Latched, Unlatched, Latches, Goto, CallsOK, HoldsMutex
<1>12. ASSUME NEW t \in Thread, LatchDirtyVictim(t) PROVE LatchesHeld'
  <2>1. \A g \in guards : g.frame # call[t].frame
    BY <1>0, <1>12, UnpinnedMeansNoGuard
       DEF LatchDirtyVictim, FrameInHand, CallsOK, HoldsMutex, At
  <2> QED
    BY <1>0, <1>12, <2>1
       DEF LatchDirtyVictim, Latched, Unlatched, Latches, Goto, CallsOK, HoldsMutex
<1>13. ASSUME NEW t \in Thread, Flushed(t) PROVE LatchesHeld'
  BY <1>0, <1>13 DEF Flushed, Goto
<1>14. ASSUME NEW t \in Thread, FlushFailed(t) PROVE LatchesHeld'
  <2>1. \A g \in guards : g.frame # call[t].frame
    BY <1>0, <1>14, UnpinnedMeansNoGuard
       DEF FlushFailed, FrameInHand, CallsOK, HoldsMutex, At
  <2> QED
    BY <1>0, <1>14, <2>1 DEF FlushFailed, Released, Latches, Fail, Idle
<1>15. ASSUME NEW t \in Thread, Loaded(t) PROVE LatchesHeld'
  <2> DEFINE c == call[t]
             n == GuardFor(t, c.page, c.frame, c.mode, TRUE)
  <2>1. c.frame \in Frame /\ c.mode \in Mode
    BY <1>0, <1>15 DEF Loaded, CallsOK, HoldsMutex
  <2>2. \A g \in guards : g.frame # c.frame
    BY <1>0, <1>15, <2>1, UnpinnedMeansNoGuard DEF Loaded, FrameInHand, HoldsMutex
  <2>3. /\ guards' = guards \cup {n}
        /\ n.owner = t /\ n.frame = c.frame /\ n.mode = c.mode
    BY <1>15 DEF Loaded, GuardFor
  <2>4. latch' = [latch EXCEPT ![c.frame] =
          IF c.mode = "write" THEN [writer |-> t, readers |-> {}]
                              ELSE [writer |-> NoThread, readers |-> {t}]]
    BY <1>15 DEF Loaded
  <2>5. \A u \in Thread : call'[u].pc = "unlatch" => u # t /\ call'[u] = call[u]
    BY <1>0, <1>15 DEF Loaded, Return, Idle
  <2> HIDE DEF c, n
  <2> QED
    BY <1>0, <2>1, <2>2, <2>3, <2>4, <2>5 DEF Latches
<1>16. ASSUME NEW t \in Thread, LoadFailed(t) PROVE LatchesHeld'
  <2>1. \A g \in guards : g.frame # call[t].frame
    BY <1>0, <1>16, UnpinnedMeansNoGuard
       DEF LoadFailed, FrameInHand, CallsOK, HoldsMutex, At
  <2> QED
    BY <1>0, <1>16, <2>1 DEF LoadFailed, Released, Latches, Fail, Idle
<1>17. ASSUME NEW t \in Thread, ReturnError(t) PROVE LatchesHeld'
  BY <1>0, <1>17 DEF ReturnError, Return, Idle
<1>18. ASSUME NEW t \in Thread, Unlatch(t) PROVE LatchesHeld'
  <2>1. \A g \in guards : g.frame = call[t].frame => g.owner # t
    BY <1>0, <1>18 DEF Unlatch
  <2> QED
    BY <1>0, <1>18, <2>1 DEF Unlatch, Released, Latches, Return, Idle
<1>19. ASSUME NEW t \in Thread, SendDelete(t) PROVE LatchesHeld'
  BY <1>0, <1>19 DEF SendDelete, Return, Idle
<1>20. ASSUME NEW g \in guards, Unpin(g) PROVE LatchesHeld'
  <2>1. /\ g.owner \in Thread /\ guards' = guards \ {g} /\ latch' = latch
        /\ call'[g.owner].frame = g.frame
        /\ \A u \in Thread \ {g.owner} : call'[u] = call[u]
    BY <1>0, <1>20 DEF Unpin
  <2>2. \A h \in guards : h.owner = g.owner /\ h.frame = g.frame => h = g
    BY <1>0 DEF GuardKeepsItsFrame, OneGuardPerPage, PageTableMatchesMetas
  <2> QED
    BY <1>0, <2>1, <2>2
<1>21. ASSUME NEW g \in guards, NEW v \in Value, Modify(g, v) PROVE LatchesHeld'
  BY <1>0, <1>21 DEF Modify
<1>22. CASE Worker
  BY <1>0, <1>22 DEF Worker
<1>23. CASE UNCHANGED vars
  BY <1>0, <1>23 DEF vars
<1> QED
  BY <1>1, <1>2, <1>3, <1>4, <1>5, <1>6, <1>7, <1>8, <1>9, <1>10, <1>11, <1>12,
     <1>13, <1>14, <1>15, <1>16, <1>17, <1>18, <1>19, <1>20, <1>21, <1>22, <1>23
     DEF Next, Call, Locked, Free, Close, GuardsOf

\* A frame stays dirty until it is written, and nothing undoes a delete.
LEMMA CallsMeanItStep == IInv /\ StoreInv /\ [Next]_vars => CallsMeanIt'
<1> SUFFICES ASSUME IInv, StoreInv, [Next]_vars PROVE CallsMeanIt'
  OBVIOUS
<1> USE NullAssumption DEF HoldsMutex, At, MayAsk, MayDelete, MutexFree, poolVars,
                           diskVars
<1>0. /\ TypeOK /\ CallTypeOK /\ CallsOK /\ FrameInHand /\ CallsMeanIt
      /\ \A g \in guards : g.owner \in Thread /\ g.frame \in Frame
  BY DEF IInv, TypeOK, CallTypeOK, StoreInv, Guard
<1> USE DEF TypeOK, CallTypeOK, CallsOK, CallsMeanIt
<1>1. ASSUME NEW t \in Thread, new_page(t) PROVE CallsMeanIt'
  BY <1>0, <1>1 DEF new_page
<1>2. ASSUME NEW t \in Thread, NEW p \in Page, NEW mode \in Mode,
             PinLoaded(t, p, mode)
      PROVE  CallsMeanIt'
  BY <1>0, <1>2 DEF PinLoaded
<1>3. ASSUME NEW t \in Thread, OpenGuard(t) PROVE CallsMeanIt'
  BY <1>0, <1>3 DEF OpenGuard, Return, Idle
<1>4. ASSUME NEW t \in Thread, NEW p \in Page, NEW mode \in Mode,
             TakeFreeFrame(t, p, mode)
      PROVE  CallsMeanIt'
  BY <1>0, <1>4 DEF TakeFreeFrame, Missing
<1>5. ASSUME NEW t \in Thread, NEW p \in Page, NEW mode \in Mode,
             TakeVictim(t, p, mode)
      PROVE  CallsMeanIt'
  BY <1>0, <1>5 DEF TakeVictim, Missing
<1>6. ASSUME NEW t \in Thread, NEW p \in Page, NEW mode \in Mode,
             NoAvailableFrame(t, p, mode)
      PROVE  CallsMeanIt'
  BY <1>0, <1>6 DEF NoAvailableFrame, Missing, Fail, Idle
<1>7. ASSUME NEW t \in Thread, NEW p \in Page, PagePinned(t, p) PROVE CallsMeanIt'
  BY <1>0, <1>7 DEF PagePinned, Fail, Idle
<1>8. ASSUME NEW t \in Thread, NEW p \in Page, DeleteLoaded(t, p) PROVE CallsMeanIt'
  BY <1>0, <1>8 DEF DeleteLoaded, Idle
<1>9. ASSUME NEW t \in Thread, NEW p \in Page, DeleteUnloaded(t, p) PROVE CallsMeanIt'
  BY <1>0, <1>9 DEF DeleteUnloaded, Idle
<1>10. ASSUME NEW t \in Thread, LatchFreeFrame(t) PROVE CallsMeanIt'
  BY <1>0, <1>10 DEF LatchFreeFrame, Goto
<1>11. ASSUME NEW t \in Thread, LatchCleanVictim(t) PROVE CallsMeanIt'
  BY <1>0, <1>11 DEF LatchCleanVictim, Goto
<1>12. ASSUME NEW t \in Thread, LatchDirtyVictim(t) PROVE CallsMeanIt'
  BY <1>0, <1>12 DEF LatchDirtyVictim, Goto
<1>13. ASSUME NEW t \in Thread, Flushed(t) PROVE CallsMeanIt'
  BY <1>0, <1>13 DEF Flushed, Goto
<1>14. ASSUME NEW t \in Thread, FlushFailed(t) PROVE CallsMeanIt'
  BY <1>0, <1>14 DEF FlushFailed, Fail, Idle
<1>15. ASSUME NEW t \in Thread, Loaded(t) PROVE CallsMeanIt'
  BY <1>0, <1>15 DEF Loaded, Return, Idle
<1>16. ASSUME NEW t \in Thread, LoadFailed(t) PROVE CallsMeanIt'
  BY <1>0, <1>16 DEF LoadFailed, Fail, Idle
<1>17. ASSUME NEW t \in Thread, ReturnError(t) PROVE CallsMeanIt'
  BY <1>0, <1>17 DEF ReturnError, Return, Idle
<1>18. ASSUME NEW t \in Thread, Unlatch(t) PROVE CallsMeanIt'
  BY <1>0, <1>18 DEF Unlatch, Return, Idle
<1>19. ASSUME NEW t \in Thread, SendDelete(t) PROVE CallsMeanIt'
  BY <1>0, <1>19 DEF SendDelete, Return, Idle
<1>20. ASSUME NEW g \in guards, Unpin(g) PROVE CallsMeanIt'
  <2>1. \A u \in Thread : call'[u].pc \in {"flush", "delete"} =>
          call'[u] = call[u]
    BY <1>0, <1>20 DEF Unpin, Idle
  <2>2. \A f \in Frame : frame_metas[f].is_dirty => frame_metas'[f].is_dirty
    BY <1>0, <1>20 DEF Unpin, Dropped, FrameMeta
  <2> QED
    BY <1>0, <1>20, <2>1, <2>2 DEF Unpin
<1>21. ASSUME NEW g \in guards, NEW v \in Value, Modify(g, v) PROVE CallsMeanIt'
  BY <1>0, <1>21 DEF Modify
<1>22. CASE Worker
  BY <1>0, <1>22 DEF Worker
<1>23. CASE UNCHANGED vars
  BY <1>0, <1>23 DEF vars
<1> QED
  BY <1>1, <1>2, <1>3, <1>4, <1>5, <1>6, <1>7, <1>8, <1>9, <1>10, <1>11, <1>12,
     <1>13, <1>14, <1>15, <1>16, <1>17, <1>18, <1>19, <1>20, <1>21, <1>22, <1>23
     DEF Next, Call, Locked, Free, Close, GuardsOf

\* No thread waits for the disk.
OnlyDeletes == \A i \in DOMAIN queue : queue[i].op = "delete"

\* The requests of the queue are those of the thread in the mutex.
LEMMA RequestsOfMutex ==
  ASSUME IInv, StoreInv, NEW i \in DOMAIN queue, queue[i].op # "delete"
  PROVE  /\ queue[i].client = mutex /\ mutex \in Thread
         /\ call[mutex].pc \in {"flush", "load"} /\ reply[mutex] = NoReply
<1>1. queue[i] \in Disk!Requests
  BY DEF IInv, TypeOK
<1>2. queue[i].client \in Thread /\ queue[i].op \in {"read", "write"}
  BY <1>1 DEF Disk!Requests
<1> QED
  BY <1>2 DEF StoreInv, RequestsOK, IInv, CallsOK, HoldsMutex, At

\* Before a thread sends a request, and when it has its answer, no other is waiting.
LEMMA NobodyWaits ==
  ASSUME IInv, StoreInv,
         \/ mutex = NoThread
         \/ \E t \in Thread : HoldsMutex(t)
              /\ (call[t].pc \in {"flush", "load"} => reply[t] # NoReply)
  PROVE  OnlyDeletes
BY RequestsOfMutex, NullAssumption DEF OnlyDeletes, IInv, CallsOK

\* A read or write that is sent when nobody waits is the only one in the queue.
LEMMA SendAlone ==
  ASSUME queue \in Seq(Disk!Requests), OnlyDeletes,
         NEW r \in Disk!Requests, queue' = Append(queue, r)
  PROVE  /\ \A i \in DOMAIN queue' :
              \/ queue'[i] = r
              \/ i \in DOMAIN queue /\ queue'[i] = queue[i] /\ queue[i].op = "delete"
         /\ OneRequest'
<1>1. /\ Len(queue') = Len(queue) + 1 /\ DOMAIN queue' = 1 .. Len(queue) + 1
      /\ \A i \in 1 .. Len(queue) : queue'[i] = queue[i] /\ i \in DOMAIN queue
      /\ queue'[Len(queue) + 1] = r /\ Len(queue) \in Nat
  OBVIOUS
<1>2. \A i \in DOMAIN queue' :
        i = Len(queue) + 1 \/ (i \in DOMAIN queue /\ queue'[i] = queue[i])
  BY <1>1
<1> QED
  BY <1>1, <1>2 DEF OnlyDeletes, OneRequest

\* Another delete does not disturb who waits.
LEMMA SendDeleteToo ==
  ASSUME queue \in Seq(Disk!Requests), OneRequest,
         NEW r \in Disk!Requests, r.op = "delete", queue' = Append(queue, r)
  PROVE  /\ \A i \in DOMAIN queue' :
              queue'[i] = r \/ (i \in DOMAIN queue /\ queue'[i] = queue[i])
         /\ OneRequest'
<1>1. /\ DOMAIN queue' = 1 .. Len(queue) + 1 /\ Len(queue) \in Nat
      /\ \A i \in 1 .. Len(queue) : queue'[i] = queue[i] /\ i \in DOMAIN queue
      /\ queue'[Len(queue) + 1] = r
  OBVIOUS
<1>2. \A i \in DOMAIN queue' :
        i = Len(queue) + 1 \/ (i \in DOMAIN queue /\ queue'[i] = queue[i])
  BY <1>1
<1> QED
  BY <1>1, <1>2 DEF OneRequest

\* Serving a request takes it from the queue and leaves the others.
LEMMA ServeFirst ==
  ASSUME queue \in Seq(Disk!Requests), queue # <<>>, OneRequest, queue' = Tail(queue)
  PROVE  /\ 1 \in DOMAIN queue /\ Head(queue) = queue[1] /\ queue[1] \in Disk!Requests
         /\ \A i \in DOMAIN queue' : i + 1 \in DOMAIN queue /\ queue'[i] = queue[i + 1]
         /\ OneRequest'
         /\ Head(queue).op # "delete" => OnlyDeletes'
<1>1. /\ 1 \in DOMAIN queue /\ Head(queue) = queue[1] /\ queue[1] \in Disk!Requests
      /\ \A i \in DOMAIN queue' :
           i \in Nat \ {0} /\ i + 1 \in DOMAIN queue /\ queue'[i] = queue[i + 1]
  OBVIOUS
<1>2. OneRequest'
  <2> SUFFICES ASSUME NEW i \in DOMAIN queue', NEW j \in DOMAIN queue',
                      queue'[i].op # "delete", queue'[j].op # "delete"
               PROVE  i = j
    BY DEF OneRequest
  <2>1. i + 1 = j + 1
    BY <1>1 DEF OneRequest
  <2> QED
    BY <1>1, <2>1
<1>3. ASSUME Head(queue).op # "delete" PROVE OnlyDeletes'
  <2> SUFFICES ASSUME NEW i \in DOMAIN queue', queue'[i].op # "delete" PROVE FALSE
    BY DEF OnlyDeletes
  <2>1. i + 1 = 1
    BY <1>1, <1>3 DEF OneRequest
  <2> QED
    BY <1>1, <2>1
<1> QED
  BY <1>1, <1>2, <1>3

\* A request keeps saying what its sender waits for: the frame in hand does not change
\* while it is in the queue.
LEMMA RequestsStep == IInv /\ StoreInv /\ [Next]_vars => (RequestsOK /\ OneRequest)'
<1> SUFFICES ASSUME IInv, StoreInv, [Next]_vars PROVE (RequestsOK /\ OneRequest)'
  OBVIOUS
<1> USE NullAssumption DEF HoldsMutex, At, MayAsk, MayDelete, MutexFree, poolVars,
                           diskVars
<1>0. /\ TypeOK /\ CallTypeOK /\ CallsOK /\ FrameInHand /\ CallsMeanIt /\ RepliesOK
      /\ RequestsOK /\ OneRequest /\ queue \in Seq(Disk!Requests)
      /\ \A g \in guards : g.owner \in Thread /\ g.frame \in Frame
      /\ \A i \in DOMAIN queue : queue[i].op # "delete" =>
           /\ queue[i].client = mutex /\ mutex \in Thread /\ reply[mutex] = NoReply
           /\ call[mutex].pc \in {"flush", "load"} /\ call[mutex].frame \in Frame
  BY RequestsOfMutex DEF IInv, TypeOK, CallTypeOK, StoreInv, Guard, CallsOK
<1> USE DEF TypeOK, CallTypeOK, CallsOK, RequestsOK, PageIn, OneRequest
<1>1. ASSUME NEW t \in Thread, new_page(t) PROVE (RequestsOK /\ OneRequest)'
  BY <1>0, <1>1 DEF new_page
<1>2. ASSUME NEW t \in Thread, NEW p \in Page, NEW mode \in Mode,
             PinLoaded(t, p, mode)
      PROVE  (RequestsOK /\ OneRequest)'
  BY <1>0, <1>2 DEF PinLoaded
<1>3. ASSUME NEW t \in Thread, OpenGuard(t) PROVE (RequestsOK /\ OneRequest)'
  BY <1>0, <1>3 DEF OpenGuard, Return, Idle
<1>4. ASSUME NEW t \in Thread, NEW p \in Page, NEW mode \in Mode,
             TakeFreeFrame(t, p, mode)
      PROVE  (RequestsOK /\ OneRequest)'
  BY <1>0, <1>4 DEF TakeFreeFrame, Missing
<1>5. ASSUME NEW t \in Thread, NEW p \in Page, NEW mode \in Mode,
             TakeVictim(t, p, mode)
      PROVE  (RequestsOK /\ OneRequest)'
  BY <1>0, <1>5 DEF TakeVictim, Missing
<1>6. ASSUME NEW t \in Thread, NEW p \in Page, NEW mode \in Mode,
             NoAvailableFrame(t, p, mode)
      PROVE  (RequestsOK /\ OneRequest)'
  BY <1>0, <1>6 DEF NoAvailableFrame, Missing, Fail, Idle
<1>7. ASSUME NEW t \in Thread, NEW p \in Page, PagePinned(t, p)
      PROVE  (RequestsOK /\ OneRequest)'
  BY <1>0, <1>7 DEF PagePinned, Fail, Idle
<1>8. ASSUME NEW t \in Thread, NEW p \in Page, DeleteLoaded(t, p)
      PROVE  (RequestsOK /\ OneRequest)'
  BY <1>0, <1>8 DEF DeleteLoaded, Idle
<1>9. ASSUME NEW t \in Thread, NEW p \in Page, DeleteUnloaded(t, p)
      PROVE  (RequestsOK /\ OneRequest)'
  BY <1>0, <1>9 DEF DeleteUnloaded, Idle
<1>10. ASSUME NEW t \in Thread, LatchFreeFrame(t) PROVE (RequestsOK /\ OneRequest)'
  <2>1. HoldsMutex(t) /\ call[t].page \in Page /\ call[t].frame \in Frame
    BY <1>0, <1>10 DEF LatchFreeFrame
  <2>2. OnlyDeletes
    BY <1>10, <2>1, NobodyWaits, ReplyAssumption DEF LatchFreeFrame
  <2> DEFINE r == Disk!ReadRequest(t, call[t].page)
  <2>3. r \in Disk!Requests /\ queue' = Append(queue, r)
    BY <1>0, <1>10, <2>1, RequestsTyped, ValueAssumption DEF LatchFreeFrame, SendRead
  <2>4. OneRequest' /\ \A i \in DOMAIN queue' :
          \/ queue'[i] = r
          \/ i \in DOMAIN queue /\ queue'[i] = queue[i] /\ queue[i].op = "delete"
    BY <1>0, <2>2, <2>3, SendAlone
  <2>5. /\ r.op = "read" /\ r.client = t /\ r.page = call[t].page
    BY DEF Disk!ReadRequest, Disk!WriteRequest
  <2>6. /\ reply'[t] = NoReply /\ retired' = retired
        /\ call'[t].pc = "load"
        /\ call'[t].page = call[t].page /\ call'[t].frame = call[t].frame
    BY <1>0, <1>10 DEF LatchFreeFrame, Goto, RepliesOK
  <2> HIDE DEF r
  <2> QED
    BY <1>0, <2>2, <2>4, <2>5, <2>6
<1>11. ASSUME NEW t \in Thread, LatchCleanVictim(t) PROVE (RequestsOK /\ OneRequest)'
  <2>1. HoldsMutex(t) /\ call[t].page \in Page /\ call[t].frame \in Frame
    BY <1>0, <1>11 DEF LatchCleanVictim
  <2>2. OnlyDeletes
    BY <1>11, <2>1, NobodyWaits, ReplyAssumption DEF LatchCleanVictim
  <2> DEFINE r == Disk!ReadRequest(t, call[t].page)
  <2>3. r \in Disk!Requests /\ queue' = Append(queue, r)
    BY <1>0, <1>11, <2>1, RequestsTyped, ValueAssumption DEF LatchCleanVictim, SendRead
  <2>4. OneRequest' /\ \A i \in DOMAIN queue' :
          \/ queue'[i] = r
          \/ i \in DOMAIN queue /\ queue'[i] = queue[i] /\ queue[i].op = "delete"
    BY <1>0, <2>2, <2>3, SendAlone
  <2>5. /\ r.op = "read" /\ r.client = t /\ r.page = call[t].page
    BY DEF Disk!ReadRequest, Disk!WriteRequest
  <2>6. /\ reply'[t] = NoReply /\ retired' = retired
        /\ call'[t].pc = "load"
        /\ call'[t].page = call[t].page /\ call'[t].frame = call[t].frame
    BY <1>0, <1>11 DEF LatchCleanVictim, Goto, RepliesOK
  <2> HIDE DEF r
  <2> QED
    BY <1>0, <2>2, <2>4, <2>5, <2>6
<1>12. ASSUME NEW t \in Thread, LatchDirtyVictim(t) PROVE (RequestsOK /\ OneRequest)'
  <2>1. HoldsMutex(t) /\ call[t].page \in Page /\ call[t].frame \in Frame
    BY <1>0, <1>12 DEF LatchDirtyVictim
  <2>2. OnlyDeletes
    BY <1>12, <2>1, NobodyWaits, ReplyAssumption DEF LatchDirtyVictim
  <2> DEFINE r == Disk!WriteRequest(t, PageIn(call[t].frame), data[call[t].frame])
  <2>3. r \in Disk!Requests /\ queue' = Append(queue, r)
    BY <1>0, <1>12, <2>1, RequestsTyped, ValueAssumption
       DEF LatchDirtyVictim, SendRead, PageIn, FrameInHand, FrameMeta
  <2>4. OneRequest' /\ \A i \in DOMAIN queue' :
          \/ queue'[i] = r
          \/ i \in DOMAIN queue /\ queue'[i] = queue[i] /\ queue[i].op = "delete"
    BY <1>0, <2>2, <2>3, SendAlone
  <2>5. /\ r.op = "write" /\ r.client = t
        /\ r.page = PageIn(call[t].frame) /\ r.data = data[call[t].frame]
    BY DEF Disk!ReadRequest, Disk!WriteRequest
  <2>6. /\ frame_metas' = frame_metas /\ data' = data
        /\ reply'[t] = NoReply /\ retired' = retired
        /\ call'[t].pc = "flush"
        /\ call'[t].page = call[t].page /\ call'[t].frame = call[t].frame
    BY <1>0, <1>12 DEF LatchDirtyVictim, Goto, RepliesOK
  <2> HIDE DEF r
  <2> QED
    BY <1>0, <2>2, <2>4, <2>5, <2>6
<1>13. ASSUME NEW t \in Thread, Flushed(t) PROVE (RequestsOK /\ OneRequest)'
  <2>1. HoldsMutex(t) /\ call[t].page \in Page /\ call[t].frame \in Frame
    BY <1>0, <1>13 DEF Flushed
  <2>2. OnlyDeletes
    BY <1>13, <2>1, NobodyWaits, ReplyAssumption DEF Flushed
  <2> DEFINE r == Disk!ReadRequest(t, call[t].page)
  <2>3. r \in Disk!Requests /\ queue' = Append(queue, r)
    BY <1>0, <1>13, <2>1, RequestsTyped, ValueAssumption DEF Flushed, SendRead
  <2>4. OneRequest' /\ \A i \in DOMAIN queue' :
          \/ queue'[i] = r
          \/ i \in DOMAIN queue /\ queue'[i] = queue[i] /\ queue[i].op = "delete"
    BY <1>0, <2>2, <2>3, SendAlone
  <2>5. /\ r.op = "read" /\ r.client = t /\ r.page = call[t].page
    BY DEF Disk!ReadRequest, Disk!WriteRequest
  <2>6. /\ reply'[t] = NoReply /\ retired' = retired
        /\ call'[t].pc = "load"
        /\ call'[t].page = call[t].page /\ call'[t].frame = call[t].frame
    BY <1>0, <1>13 DEF Flushed, Goto, RepliesOK
  <2> HIDE DEF r
  <2> QED
    BY <1>0, <2>2, <2>4, <2>5, <2>6
<1>14. ASSUME NEW t \in Thread, FlushFailed(t) PROVE (RequestsOK /\ OneRequest)'
  <2>1. OnlyDeletes
    BY <1>14, NobodyWaits, ReplyAssumption DEF FlushFailed
  <2> QED
    BY <1>0, <1>14, <2>1 DEF FlushFailed, OnlyDeletes
<1>15. ASSUME NEW t \in Thread, Loaded(t) PROVE (RequestsOK /\ OneRequest)'
  <2>1. OnlyDeletes
    BY <1>15, NobodyWaits, ReplyAssumption DEF Loaded
  <2> QED
    BY <1>0, <1>15, <2>1 DEF Loaded, OnlyDeletes
<1>16. ASSUME NEW t \in Thread, LoadFailed(t) PROVE (RequestsOK /\ OneRequest)'
  <2>1. OnlyDeletes
    BY <1>16, NobodyWaits, ReplyAssumption DEF LoadFailed
  <2> QED
    BY <1>0, <1>16, <2>1 DEF LoadFailed, OnlyDeletes
<1>17. ASSUME NEW t \in Thread, ReturnError(t) PROVE (RequestsOK /\ OneRequest)'
  BY <1>0, <1>17 DEF ReturnError, Return, Idle
<1>18. ASSUME NEW t \in Thread, Unlatch(t) PROVE (RequestsOK /\ OneRequest)'
  BY <1>0, <1>18 DEF Unlatch, Return, Idle
<1>19. ASSUME NEW t \in Thread, SendDelete(t) PROVE (RequestsOK /\ OneRequest)'
  <2> DEFINE r == Disk!DeleteRequest(call[t].page)
  <2>1. r \in Disk!Requests /\ queue' = Append(queue, r) /\ call[t].page \in retired
    BY <1>0, <1>19, RequestsTyped, ValueAssumption DEF SendDelete, DeleteSent, CallsMeanIt
  <2>2. r.op = "delete" /\ r.page = call[t].page
    BY DEF Disk!DeleteRequest
  <2>3. OneRequest' /\ \A i \in DOMAIN queue' :
          queue'[i] = r \/ (i \in DOMAIN queue /\ queue'[i] = queue[i])
    BY <1>0, <2>1, <2>2, SendDeleteToo
  <2>4. /\ reply' = reply /\ data' = data /\ retired' = retired
        /\ frame_metas' = frame_metas
        /\ \A u \in Thread \ {t} : call'[u] = call[u]
    BY <1>0, <1>19 DEF SendDelete, Return, Idle
  <2>5. \A i \in DOMAIN queue : queue[i].op # "delete" =>
          queue[i].client \in Thread \ {t} /\ call[queue[i].client].frame \in Frame
    BY <1>0, <1>19 DEF SendDelete
  <2> HIDE DEF r
  <2>6. RequestsOK'
    <3> SUFFICES ASSUME NEW i \in DOMAIN queue' PROVE RequestsOK!(i)'
      BY <2>3
    <3> QED
      BY <1>0, <2>1, <2>2, <2>3, <2>4, <2>5, SMTT(30)
  <2> QED
    BY <2>3, <2>6
<1>20. ASSUME NEW g \in guards, Unpin(g) PROVE (RequestsOK /\ OneRequest)'
  BY <1>0, <1>20 DEF Unpin, Idle
<1>21. ASSUME NEW g \in guards, NEW v \in Value, Modify(g, v)
      PROVE  (RequestsOK /\ OneRequest)'
  <2>1. \A i \in DOMAIN queue : queue[i].op # "delete" => call[mutex].frame # g.frame
    BY <1>0, UnpinnedMeansNoGuard DEF FrameInHand
  <2> QED
    BY <1>0, <1>21, <2>1 DEF Modify, OneRequest
<1>22. CASE Worker
  <2>1. CASE Disk!ServeRead \/ Disk!ServeWrite \/ Disk!ServeError
    <3>1. queue # <<>> /\ queue' = Tail(queue) /\ Head(queue).op # "delete"
      BY <2>1 DEF Disk!ServeRead, Disk!ServeWrite, Disk!ServeError, Disk!NextIs
    <3>2. OneRequest' /\ OnlyDeletes' /\ \A i \in DOMAIN queue' :
            i + 1 \in DOMAIN queue /\ queue'[i] = queue[i + 1]
      BY <1>0, <3>1, ServeFirst
    <3> QED
      BY <1>0, <1>22, <3>2 DEF Worker, OnlyDeletes
  <2>2. CASE Disk!ServeDelete
    <3>1. queue # <<>> /\ queue' = Tail(queue) /\ reply' = reply
      BY <2>2 DEF Disk!ServeDelete, Disk!NextIs
    <3>2. OneRequest' /\ \A i \in DOMAIN queue' :
            i + 1 \in DOMAIN queue /\ queue'[i] = queue[i + 1]
      BY <1>0, <3>1, ServeFirst
    <3> QED
      BY <1>0, <1>22, <3>1, <3>2 DEF Worker
  <2> QED
    BY <1>22, <2>1, <2>2 DEF Worker, Disk!Serve
<1>23. CASE UNCHANGED vars
  BY <1>0, <1>23 DEF vars
<1> QED
  BY <1>1, <1>2, <1>3, <1>4, <1>5, <1>6, <1>7, <1>8, <1>9, <1>10, <1>11, <1>12,
     <1>13, <1>14, <1>15, <1>16, <1>17, <1>18, <1>19, <1>20, <1>21, <1>22, <1>23
     DEF Next, Call, Locked, Free, Close, GuardsOf

\* What the worker does to a page and to the client that waits for it.
DeleteServed ==
  /\ reply' = reply
  /\ \E p \in retired \cap Page : stored' = [stored EXCEPT ![p] = Unallocated]

Asked(pc) == mutex \in Thread /\ At(mutex, pc) /\ reply[mutex] = NoReply

ReadServed ==
  /\ Asked("load")
  /\ \E p \in Page, v \in Value :
       /\ p = call[mutex].page
       /\ v = stored[p] \/ stored[p] = Unallocated
       /\ stored' = [stored EXCEPT ![p] = v]
       /\ reply' = [reply EXCEPT ![mutex] = v]

ReadRefused ==
  /\ Asked("load")
  /\ stored' = stored
  /\ reply' = [reply EXCEPT ![mutex] = Failed]

WriteServed ==
  /\ Asked("flush")
  /\ PageIn(call[mutex].frame) \in Page
  /\ stored' = [stored EXCEPT ![PageIn(call[mutex].frame)] = data[call[mutex].frame]]
  /\ reply' = [reply EXCEPT ![mutex] = Done]

WriteRefused ==
  /\ Asked("flush")
  /\ PageIn(call[mutex].frame) \in Page
  /\ \/ stored' = stored
     \/ \E v \in Value : stored' = [stored EXCEPT ![PageIn(call[mutex].frame)] = v]
  /\ reply' = [reply EXCEPT ![mutex] = Failed]

\* The worker serves the thread in the mutex, or deletes a page.
LEMMA ServeEffect ==
  ASSUME IInv, StoreInv, Disk!Serve
  PROVE  DeleteServed \/ ReadServed \/ ReadRefused \/ WriteServed \/ WriteRefused
<1> DEFINE r == queue[1]
<1>1. /\ Head(queue) = r /\ r \in Disk!Requests /\ 1 \in DOMAIN queue
  <2>1. queue # <<>> /\ queue \in Seq(Disk!Requests) /\ OneRequest
    BY DEF Disk!Serve, Disk!ServeRead, Disk!ServeWrite, Disk!ServeDelete, Disk!ServeError,
           Disk!NextIs, IInv, TypeOK, StoreInv
  <2> QED
    BY <2>1
<1>2. r.page \in Page
  BY <1>1 DEF Disk!Requests
<1>3. ASSUME r.op # "delete"
      PROVE  r.client = mutex /\ mutex \in Thread /\ reply[mutex] = NoReply
  BY <1>1, <1>3, RequestsOfMutex
<1>4. /\ r.op = "delete" => r.page \in retired
      /\ r.op = "read" => At(r.client, "load") /\ r.page = call[r.client].page
      /\ r.op = "write" => /\ At(r.client, "flush")
                           /\ r.page = PageIn(call[r.client].frame)
                           /\ r.data = data[call[r.client].frame] /\ r.data \in Value
  BY <1>1 DEF StoreInv, RequestsOK, Disk!Requests
<1>5. stored \in [Page -> Value \cup {Unallocated}]
  BY DEF IInv, TypeOK
<1> HIDE DEF r
<1>6. CASE Disk!ServeRead
  <2>1. r.op = "read"
    BY <1>1, <1>6 DEF Disk!ServeRead, Disk!NextIs
  <2>2. PICK v \in Value : /\ v = stored[r.page] \/ stored[r.page] = Unallocated
                           /\ stored' = [stored EXCEPT ![r.page] = v]
                           /\ reply' = [reply EXCEPT ![r.client] = v]
    BY <1>1, <1>2, <1>5, <1>6 DEF Disk!ServeRead
  <2> QED
    BY <1>2, <1>3, <1>4, <2>1, <2>2 DEF ReadServed, Asked
<1>7. CASE Disk!ServeWrite
  <2>1. r.op = "write" /\ stored' = [stored EXCEPT ![r.page] = r.data]
        /\ reply' = [reply EXCEPT ![r.client] = Done]
    BY <1>1, <1>7 DEF Disk!ServeWrite, Disk!NextIs
  <2> QED
    BY <1>2, <1>3, <1>4, <2>1 DEF WriteServed, Asked
<1>8. CASE Disk!ServeDelete
  BY <1>1, <1>2, <1>4, <1>8 DEF Disk!ServeDelete, Disk!NextIs, DeleteServed
<1>9. CASE Disk!ServeError
  <2>1. /\ r.op \in {"read", "write"} /\ reply' = [reply EXCEPT ![r.client] = Failed]
        /\ \/ stored' = stored
           \/ r.op = "write" /\ \E v \in Value : stored' = [stored EXCEPT ![r.page] = v]
    BY <1>1, <1>9 DEF Disk!ServeError, Disk!NextIs
  <2> QED
    BY <1>2, <1>3, <1>4, <2>1 DEF ReadRefused, WriteRefused, Asked
<1> QED
  BY <1>6, <1>7, <1>8, <1>9 DEF Disk!Serve

\* What a thread is answered stays true until it collects the answer: it has the mutex.
LEMMA RepliesStep == IInv /\ StoreInv /\ [Next]_vars => RepliesOK'
<1> SUFFICES ASSUME IInv, StoreInv, [Next]_vars PROVE RepliesOK'
  OBVIOUS
<1> USE NullAssumption DEF HoldsMutex, At, MayAsk, MayDelete, MutexFree, poolVars,
                           diskVars
<1>0. /\ TypeOK /\ CallTypeOK /\ CallsOK /\ FrameInHand /\ RepliesOK
      /\ \A g \in guards : g.owner \in Thread /\ g.frame \in Frame
  BY DEF IInv, TypeOK, CallTypeOK, StoreInv, Guard
<1> USE DEF TypeOK, CallTypeOK, CallsOK, RepliesOK, PageIn
<1>1. ASSUME NEW t \in Thread, new_page(t) PROVE RepliesOK'
  BY <1>0, <1>1 DEF new_page
<1>2. ASSUME NEW t \in Thread, NEW p \in Page, NEW mode \in Mode,
             PinLoaded(t, p, mode)
      PROVE  RepliesOK'
  BY <1>0, <1>2 DEF PinLoaded
<1>3. ASSUME NEW t \in Thread, OpenGuard(t) PROVE RepliesOK'
  BY <1>0, <1>3 DEF OpenGuard, Return, Idle
<1>4. ASSUME NEW t \in Thread, NEW p \in Page, NEW mode \in Mode,
             TakeFreeFrame(t, p, mode)
      PROVE  RepliesOK'
  BY <1>0, <1>4 DEF TakeFreeFrame, Missing
<1>5. ASSUME NEW t \in Thread, NEW p \in Page, NEW mode \in Mode,
             TakeVictim(t, p, mode)
      PROVE  RepliesOK'
  BY <1>0, <1>5 DEF TakeVictim, Missing
<1>6. ASSUME NEW t \in Thread, NEW p \in Page, NEW mode \in Mode,
             NoAvailableFrame(t, p, mode)
      PROVE  RepliesOK'
  BY <1>0, <1>6 DEF NoAvailableFrame, Missing, Fail, Idle
<1>7. ASSUME NEW t \in Thread, NEW p \in Page, PagePinned(t, p) PROVE RepliesOK'
  BY <1>0, <1>7 DEF PagePinned, Fail, Idle
<1>8. ASSUME NEW t \in Thread, NEW p \in Page, DeleteLoaded(t, p) PROVE RepliesOK'
  BY <1>0, <1>8 DEF DeleteLoaded, Idle
<1>9. ASSUME NEW t \in Thread, NEW p \in Page, DeleteUnloaded(t, p) PROVE RepliesOK'
  BY <1>0, <1>9 DEF DeleteUnloaded, Idle
<1>10. ASSUME NEW t \in Thread, LatchFreeFrame(t) PROVE RepliesOK'
  BY <1>0, <1>10 DEF LatchFreeFrame, Goto
<1>11. ASSUME NEW t \in Thread, LatchCleanVictim(t) PROVE RepliesOK'
  BY <1>0, <1>11 DEF LatchCleanVictim, Goto
<1>12. ASSUME NEW t \in Thread, LatchDirtyVictim(t) PROVE RepliesOK'
  BY <1>0, <1>12 DEF LatchDirtyVictim, Goto
<1>13. ASSUME NEW t \in Thread, Flushed(t) PROVE RepliesOK'
  BY <1>0, <1>13 DEF Flushed, Goto
<1>14. ASSUME NEW t \in Thread, FlushFailed(t) PROVE RepliesOK'
  BY <1>0, <1>14 DEF FlushFailed, Fail, Idle
<1>15. ASSUME NEW t \in Thread, Loaded(t) PROVE RepliesOK'
  BY <1>0, <1>15 DEF Loaded, Return, Idle
<1>16. ASSUME NEW t \in Thread, LoadFailed(t) PROVE RepliesOK'
  BY <1>0, <1>16 DEF LoadFailed, Fail, Idle
<1>17. ASSUME NEW t \in Thread, ReturnError(t) PROVE RepliesOK'
  BY <1>0, <1>17 DEF ReturnError, Return, Idle
<1>18. ASSUME NEW t \in Thread, Unlatch(t) PROVE RepliesOK'
  BY <1>0, <1>18 DEF Unlatch, Return, Idle
<1>19. ASSUME NEW t \in Thread, SendDelete(t) PROVE RepliesOK'
  BY <1>0, <1>19 DEF SendDelete, Return, Idle
<1>20. ASSUME NEW g \in guards, Unpin(g) PROVE RepliesOK'
  BY <1>0, <1>20 DEF Unpin, Idle
<1>21. ASSUME NEW g \in guards, NEW v \in Value, Modify(g, v) PROVE RepliesOK'
  <2>1. \A u \in Thread : HoldsMutex(u) => call[u].frame # g.frame
    BY <1>0, UnpinnedMeansNoGuard DEF FrameInHand
  <2> QED
    BY <1>0, <1>21, <2>1 DEF Modify
<1>22. CASE Worker
  <2>1. \A u \in Thread : reply[u] # NoReply => u = mutex
    BY <1>0
  <2>2. UNCHANGED <<retired, call, frame_metas, data>>
    BY <1>22 DEF Worker
  <2>3. CASE DeleteServed
    BY <1>0, <2>2, <2>3 DEF DeleteServed
  <2>4. CASE ReadServed
    BY <1>0, <2>1, <2>2, <2>4, ReplyAssumption DEF ReadServed, Asked
  <2>5. CASE ReadRefused
    BY <1>0, <2>1, <2>2, <2>5, ReplyAssumption DEF ReadRefused, Asked
  <2>6. CASE WriteServed
    BY <1>0, <2>1, <2>2, <2>6, ReplyAssumption DEF WriteServed, Asked
  <2>7. CASE WriteRefused
    BY <1>0, <2>1, <2>2, <2>7, ReplyAssumption DEF WriteRefused, Asked
  <2> QED
    BY <1>22, <2>3, <2>4, <2>5, <2>6, <2>7, ServeEffect DEF Worker
<1>23. CASE UNCHANGED vars
  BY <1>0, <1>23 DEF vars
<1> QED
  BY <1>1, <1>2, <1>3, <1>4, <1>5, <1>6, <1>7, <1>8, <1>9, <1>10, <1>11, <1>12,
     <1>13, <1>14, <1>15, <1>16, <1>17, <1>18, <1>19, <1>20, <1>21, <1>22, <1>23
     DEF Next, Call, Locked, Free, Close, GuardsOf

\* Whoever changes a frame marks it dirty when the guard goes, and a flush or a load
\* leaves disk and frame with the same bytes.
LEMMA SavedStep == IInv /\ StoreInv /\ [Next]_vars => CleanSaved'
<1> SUFFICES ASSUME IInv, StoreInv, [Next]_vars PROVE CleanSaved'
  OBVIOUS
<1> USE NullAssumption DEF HoldsMutex, At, poolVars, diskVars
<1>0. /\ TypeOK /\ CallsOK /\ FrameInHand /\ RepliesOK /\ CallsMeanIt /\ CleanSaved
      /\ PageTableMatchesMetas /\ WaitingCalls
      /\ \A g \in guards : /\ g.owner \in Thread /\ g.frame \in Frame /\ g.mode \in Mode
  BY DEF IInv, TypeOK, StoreInv, Guard
<1> USE DEF TypeOK, CallsOK, CleanSaved, PageIn, NoWriter
<1>1. ASSUME NEW t \in Thread, new_page(t) PROVE CleanSaved'
  BY <1>0, <1>1 DEF new_page
<1>2. ASSUME NEW t \in Thread, NEW p \in Page, NEW mode \in Mode,
             PinLoaded(t, p, mode)
      PROVE  CleanSaved'
  <2>1. \A g \in guards : g \in guards'
    BY <1>2 DEF PinLoaded
  <2>2. \A f \in Frame : frame_metas'[f].page_id = frame_metas[f].page_id
                         /\ frame_metas'[f].is_dirty = frame_metas[f].is_dirty
    BY <1>0, <1>2 DEF PinLoaded
  <2> QED
    BY <1>0, <1>2, <2>1, <2>2, ZenonT(30) DEF PinLoaded
<1>3. ASSUME NEW t \in Thread, OpenGuard(t) PROVE CleanSaved'
  <2> DEFINE o == GuardFor(t, call[t].page, call[t].frame, call[t].mode, FALSE)
  <2>1. ~o.open /\ guards \ {o} \subseteq guards'
    BY <1>3 DEF OpenGuard, GuardFor
  <2> HIDE DEF o
  <2> QED
    BY <1>0, <1>3, <2>1 DEF OpenGuard
<1>4. ASSUME NEW t \in Thread, NEW p \in Page, NEW mode \in Mode,
             TakeFreeFrame(t, p, mode)
      PROVE  CleanSaved'
  BY <1>0, <1>4 DEF TakeFreeFrame
<1>5. ASSUME NEW t \in Thread, NEW p \in Page, NEW mode \in Mode,
             TakeVictim(t, p, mode)
      PROVE  CleanSaved'
  BY <1>0, <1>5 DEF TakeVictim
<1>6. ASSUME NEW t \in Thread, NEW p \in Page, NEW mode \in Mode,
             NoAvailableFrame(t, p, mode)
      PROVE  CleanSaved'
  BY <1>0, <1>6 DEF NoAvailableFrame
<1>7. ASSUME NEW t \in Thread, NEW p \in Page, PagePinned(t, p) PROVE CleanSaved'
  BY <1>0, <1>7 DEF PagePinned
<1>8. ASSUME NEW t \in Thread, NEW p \in Page, DeleteLoaded(t, p) PROVE CleanSaved'
  BY <1>0, <1>8 DEF DeleteLoaded, Unload, Reset
<1>9. ASSUME NEW t \in Thread, NEW p \in Page, DeleteUnloaded(t, p) PROVE CleanSaved'
  BY <1>0, <1>9 DEF DeleteUnloaded
<1>10. ASSUME NEW t \in Thread, LatchFreeFrame(t) PROVE CleanSaved'
  BY <1>0, <1>10 DEF LatchFreeFrame
<1>11. ASSUME NEW t \in Thread, LatchCleanVictim(t) PROVE CleanSaved'
  BY <1>0, <1>11 DEF LatchCleanVictim, Unload, Reset
<1>12. ASSUME NEW t \in Thread, LatchDirtyVictim(t) PROVE CleanSaved'
  BY <1>0, <1>12 DEF LatchDirtyVictim
<1>13. ASSUME NEW t \in Thread, Flushed(t) PROVE CleanSaved'
  BY <1>0, <1>13 DEF Flushed, Unload, Reset
<1>14. ASSUME NEW t \in Thread, FlushFailed(t) PROVE CleanSaved'
  BY <1>0, <1>14 DEF FlushFailed
<1>15. ASSUME NEW t \in Thread, Loaded(t) PROVE CleanSaved'
  <2> DEFINE c == call[t]
  <2>1. /\ c.frame \in Frame /\ c.page \in Page
        /\ c.page \notin retired => stored[c.page] = reply[t]
    BY <1>0, <1>15, ReplyAssumption DEF Loaded, RepliesOK
  <2>2. /\ guards \subseteq guards' /\ stored' = stored /\ retired' = retired
        /\ data' = [data EXCEPT ![c.frame] = reply[t]]
        /\ frame_metas' = [frame_metas EXCEPT ![c.frame] = Published(c.page)]
    BY <1>15 DEF Loaded
  <2> HIDE DEF c
  <2> QED
    BY <1>0, <2>1, <2>2 DEF Published
<1>16. ASSUME NEW t \in Thread, LoadFailed(t) PROVE CleanSaved'
  BY <1>0, <1>16 DEF LoadFailed
<1>17. ASSUME NEW t \in Thread, ReturnError(t) PROVE CleanSaved'
  BY <1>0, <1>17 DEF ReturnError
<1>18. ASSUME NEW t \in Thread, Unlatch(t) PROVE CleanSaved'
  BY <1>0, <1>18 DEF Unlatch
<1>19. ASSUME NEW t \in Thread, SendDelete(t) PROVE CleanSaved'
  BY <1>0, <1>19 DEF SendDelete
<1>20. ASSUME NEW g \in guards, Unpin(g) PROVE CleanSaved'
  <2>1. frame_metas[g.frame] \in FrameMeta
    BY <1>0
  <2>2. /\ frame_metas'[g.frame] = Dropped(frame_metas[g.frame], g.mode)
        /\ \A f \in Frame : f # g.frame => frame_metas'[f] = frame_metas[f]
    BY <1>0, <1>20 DEF Unpin
  <2>3. /\ Dropped(frame_metas[g.frame], g.mode).page_id = frame_metas[g.frame].page_id
        /\ Dropped(frame_metas[g.frame], g.mode).is_dirty
             = (frame_metas[g.frame].is_dirty \/ g.mode = "write")
    BY <2>1 DEF Dropped, FrameMeta
  <2>4. \A f \in Frame : /\ frame_metas'[f].page_id = frame_metas[f].page_id
                         /\ frame_metas[f].is_dirty => frame_metas'[f].is_dirty
                         /\ f = g.frame /\ g.mode = "write" => frame_metas'[f].is_dirty
    <3> SUFFICES ASSUME NEW f \in Frame
                 PROVE  /\ frame_metas'[f].page_id = frame_metas[f].page_id
                        /\ frame_metas[f].is_dirty => frame_metas'[f].is_dirty
                        /\ f = g.frame /\ g.mode = "write" => frame_metas'[f].is_dirty
      OBVIOUS
    <3>1. CASE f = g.frame
      BY <2>2, <2>3, <3>1
    <3>2. CASE f # g.frame
      BY <1>0, <2>2, <3>2
    <3> QED
      BY <3>1, <3>2
  <2>5. guards' = guards \ {g} /\ UNCHANGED <<data, stored, retired>>
    BY <1>20 DEF Unpin
  <2> QED
    BY <1>0, <2>4, <2>5
<1>21. ASSUME NEW g \in guards, NEW v \in Value, Modify(g, v) PROVE CleanSaved'
  BY <1>0, <1>21 DEF Modify
<1>22. CASE Worker
  <2>1. UNCHANGED <<retired, frame_metas, data, guards>>
    BY <1>22 DEF Worker
  <2>2. \A p \in Page \ retired, f \in Frame :
          PageIn(f) = p /\ ~frame_metas[f].is_dirty => stored'[p] = stored[p]
    <3> SUFFICES ASSUME NEW p \in Page \ retired, NEW f \in Frame,
                        PageIn(f) = p, ~frame_metas[f].is_dirty
                 PROVE  stored'[p] = stored[p]
      OBVIOUS
    <3>1. page_table[p] = f /\ f # NoFrame
      BY <1>0 DEF PageTableMatchesMetas
    <3>2. ASSUME At(mutex, "load"), mutex \in Thread PROVE p # call[mutex].page
      BY <1>0, <3>1, <3>2 DEF FrameInHand
    <3>3. ASSUME At(mutex, "flush"), mutex \in Thread
          PROVE  p # PageIn(call[mutex].frame)
      <4>1. call[mutex].frame \in Frame /\ frame_metas[call[mutex].frame].is_dirty
        BY <1>0, <3>3 DEF CallsMeanIt
      <4> QED
        BY <1>0, <3>1, <4>1 DEF PageTableMatchesMetas
    <3> QED
      BY <1>0, <1>22, <3>2, <3>3, ServeEffect
         DEF Worker, DeleteServed, ReadServed, ReadRefused, WriteServed, WriteRefused,
             Asked
  <2> QED
    BY <1>0, <2>1, <2>2
<1>23. CASE UNCHANGED vars
  BY <1>0, <1>23 DEF vars
<1> QED
  BY <1>1, <1>2, <1>3, <1>4, <1>5, <1>6, <1>7, <1>8, <1>9, <1>10, <1>11, <1>12,
     <1>13, <1>14, <1>15, <1>16, <1>17, <1>18, <1>19, <1>20, <1>21, <1>22, <1>23
     DEF Next, Call, Locked, Free, Close, GuardsOf
LEMMA StoreInductive == IInv /\ StoreInv /\ [Next]_vars => StoreInv'
  BY WritesLiveStep, LatchesStep, CallsMeanItStep, RequestsStep, RepliesStep, SavedStep
     DEF StoreInv

\* The bytes are where StoreInv says at every moment.
THEOREM StoreInvariance == Spec => []StoreInv
  BY InitStoreInv, StoreInductive, Invariance, PTL DEF Spec

-----------------------------------------------------------------------------
(* Every step of the pool is a step of PageStore, or none.                 *)

Contents == [p \in Page |-> ContentOf(p)]

OpenGuards == {g \in guards : g.open}

Handle(g) == [owner |-> g.owner, page |-> g.page, mode |-> g.mode]

Handles == {Handle(g) : g \in OpenGuards}

\* The two facts by which a step of the pool is shown to be none of PageStore.
LEMMA Stutters ==
  ASSUME \A p \in Page : ContentOf(p)' = ContentOf(p),
         OpenGuards' = OpenGuards,
         retired' = retired
  PROVE  [Store!Next]_Store!storeVars
<1>1. Contents' = Contents /\ Handles' = Handles
  BY DEF Contents, Handles, Handle
<1> QED
  BY <1>1 DEF Store!storeVars, Contents, Handles, Handle, OpenGuards

\* Steps that only move bookkeeping.
LEMMA BookkeepingStutters ==
  ASSUME UNCHANGED <<page_table, data, stored, guards, retired>>
  PROVE  [Store!Next]_Store!storeVars
  BY Stutters DEF ContentOf, OpenGuards

\* What a guard that opens needs: nobody has the page open in a conflicting mode.
LEMMA OpensHandle ==
  ASSUME NEW t \in Thread, NEW p \in Page, NEW mode \in Mode,
         \A q \in Page : ContentOf(q)' = ContentOf(q),
         p \notin retired => ContentOf(p) # Unallocated,
         \A g \in OpenGuards : g.page = p =>
           mode = "read" /\ g.mode = "read" /\ g.owner # t,
         Handles' = Handles \cup {[owner |-> t, page |-> p, mode |-> mode]},
         retired' = retired
  PROVE  Store!Open(t, p, mode)
<1>1. Contents' = Contents
  BY DEF Contents
<1>2. p \notin retired => Contents[p] # Unallocated
  BY DEF Contents
<1>3. \A o \in Handles : o.page = p => mode = "read" /\ o.mode = "read" /\ o.owner # t
  BY DEF Handles, Handle
<1> QED
  BY <1>1, <1>2, <1>3 DEF Store!Open, Store!OpenOf, Contents, Handles, Handle, OpenGuards

\* A step of a thread that opens or drops a guard.
LEMMA StepIsNext ==
  ASSUME \/ \E t \in Thread, p \in Page, mode \in Mode : Store!Open(t, p, mode)
         \/ \E t \in Thread, p \in Page, v \in Value : Store!Write(t, p, v)
         \/ \E p \in Page : Store!Delete(p)
         \/ \E p \in Page, v \in Value : Store!Create(p, v)
         \/ \E o \in Handles : Store!Close(o)
  PROVE  [Store!Next]_Store!storeVars
  BY DEF Store!Next, Mode, Handles, Handle, OpenGuards

\* A waiting guard opens.
LEMMA OpenGuardRefines ==
  ASSUME IInv, StoreInv, NEW t \in Thread, OpenGuard(t)
  PROVE  [Store!Next]_Store!storeVars
<1>0. PICK p \in Page, f \in Frame, mode \in Mode :
        p = call[t].page /\ f = call[t].frame /\ mode = call[t].mode
  BY DEF IInv, TypeOK, CallsOK, OpenGuard, At
<1> DEFINE o == GuardFor(t, p, f, mode, FALSE)
           n == GuardFor(t, p, f, mode, TRUE)
<1>1. o \in guards /\ ~o.open /\ n.open /\ page_table[p] = f
  BY <1>0
     DEF IInv, TypeOK, CallsOK, OpenGuard, At, WaitingCalls, GuardKeepsItsFrame,
         GuardFor
<1>2. /\ CanLatch(f, mode)
      /\ guards' = (guards \ {o}) \cup {n}
      /\ UNCHANGED <<page_table, data, stored, retired>>
  BY <1>0 DEF OpenGuard, poolVars, diskVars
<1>3. p \notin retired => ContentOf(p) # Unallocated
  BY <1>1, NullAssumption, ReplyAssumption DEF ContentOf, IInv, TypeOK
<1>4. ASSUME NEW g \in OpenGuards, g.page = p
      PROVE  mode = "read" /\ g.mode = "read" /\ g.owner # t
  <2>1. g \in guards /\ g.open /\ g.frame = f /\ g.mode \in Mode /\ g.owner \in Thread
    BY <1>1, <1>4 DEF OpenGuards, IInv, TypeOK, Guard, GuardKeepsItsFrame
  <2>2. g.owner # t
    BY <1>1, <1>4, <2>1 DEF IInv, OneGuardPerPage, GuardFor
  <2>3. IF g.mode = "write" THEN latch[f].writer = g.owner
                            ELSE g.owner \in latch[f].readers
    BY <2>1 DEF StoreInv, LatchesHeld
  <2> QED
    BY <1>1, <1>2, <2>1, <2>2, <2>3, NullAssumption DEF CanLatch, Unlatched, Mode
<1>5. \A q \in Page : ContentOf(q)' = ContentOf(q)
  BY <1>2 DEF ContentOf
<1>6. Handles' = Handles \cup {[owner |-> t, page |-> p, mode |-> mode]}
  <2>1. OpenGuards' = OpenGuards \cup {n}
    BY <1>1, <1>2 DEF OpenGuards
  <2>2. Handle(n) = [owner |-> t, page |-> p, mode |-> mode]
    BY DEF Handle, GuardFor
  <2> HIDE DEF n
  <2> QED
    BY <2>1, <2>2 DEF Handles
<1>7. Store!Open(t, p, mode)
  BY <1>2, <1>3, <1>4, <1>5, <1>6, OpensHandle
<1> QED
  BY <1>7, StepIsNext

\* A page that was not loaded is, and its guard is open at once.
LEMMA LoadedRefines ==
  ASSUME IInv, StoreInv, NEW t \in Thread, Loaded(t)
  PROVE  [Store!Next]_Store!storeVars
<1>0. PICK p \in Page, f \in Frame, mode \in Mode :
        p = call[t].page /\ f = call[t].frame /\ mode = call[t].mode
  BY DEF IInv, TypeOK, CallsOK, Loaded, At, HoldsMutex
<1> DEFINE n == GuardFor(t, p, f, mode, TRUE)
<1>1. /\ page_table[p] = NoFrame
      /\ \A q \in Page : page_table[q] # f
      /\ reply[t] \in Value
  BY <1>0, NullAssumption, SMTT(30) DEF IInv, TypeOK, CallsOK, Loaded, At, HoldsMutex, FrameInHand,
                        PageTableMatchesMetas
<1>2. p \notin retired => stored[p] = reply[t]
  BY <1>0, <1>1, ReplyAssumption DEF StoreInv, RepliesOK
<1>3. /\ data' = [data EXCEPT ![f] = reply[t]]
      /\ page_table' = [page_table EXCEPT ![p] = f]
      /\ guards' = guards \cup {n}
      /\ UNCHANGED <<stored, retired>>
  BY <1>0 DEF Loaded
<1>4. data \in [Frame -> Value] /\ page_table \in [Page -> Frame \cup {NoFrame}]
  BY DEF IInv, TypeOK
<1>5. \A g \in guards : g.page # p
  BY <1>1, NullAssumption DEF IInv, TypeOK, Guard, GuardKeepsItsFrame
<1>6. p \notin retired => ContentOf(p) # Unallocated
  BY <1>1, <1>2, ReplyAssumption DEF ContentOf
<1>7. Handles' = Handles \cup {[owner |-> t, page |-> p, mode |-> mode]}
  <2>1. OpenGuards' = OpenGuards \cup {n}
    BY <1>3 DEF OpenGuards, GuardFor
  <2>2. Handle(n) = [owner |-> t, page |-> p, mode |-> mode]
    BY DEF Handle, GuardFor
  <2> HIDE DEF n
  <2> QED
    BY <2>1, <2>2 DEF Handles
<1>8. ASSUME NEW q \in Page PROVE ContentOf(q)' = ContentOf(q)
  <2>1. CASE q = p
    BY <1>1, <1>2, <1>3, <1>4, <2>1, NullAssumption DEF ContentOf
  <2>2. CASE q # p
    BY <1>1, <1>3, <1>4, <2>2 DEF ContentOf
  <2> QED
    BY <2>1, <2>2
<1>9. Store!Open(t, p, mode)
  BY <1>1, <1>3, <1>5, <1>6, <1>7, <1>8, OpensHandle DEF OpenGuards
<1> QED
  BY <1>9, StepIsNext

\* An owner drops its guard: no other guard has the same handle.
LEMMA UnpinRefines ==
  ASSUME IInv, StoreInv, NEW g \in guards, Unpin(g)
  PROVE  [Store!Next]_Store!storeVars
<1>1. /\ g.open /\ guards' = guards \ {g}
      /\ UNCHANGED <<page_table, data, stored, retired>>
  BY DEF Unpin, diskVars
<1>2. \A h \in OpenGuards : Handle(h) = Handle(g) => h = g
  BY DEF IInv, OneGuardPerPage, Handle, OpenGuards
<1>3. OpenGuards' = OpenGuards \ {g} /\ g \in OpenGuards
  BY <1>1 DEF OpenGuards
<1>4. Handles' = Handles \ {Handle(g)} /\ Handle(g) \in Handles
  BY <1>2, <1>3 DEF Handles
<1>5. Contents' = Contents
  BY <1>1 DEF Contents, ContentOf
<1>6. Store!Close(Handle(g))
  BY <1>1, <1>4, <1>5 DEF Store!Close, Contents, Handles, Handle, OpenGuards
<1> QED
  BY <1>4, <1>6, StepIsNext

\* A page is written through its guard, and no other page shares the frame.
LEMMA ModifyRefines ==
  ASSUME IInv, StoreInv, NEW g \in guards, NEW v \in Value, Modify(g, v)
  PROVE  [Store!Next]_Store!storeVars
<1>1. /\ g.open /\ g.mode = "write" /\ g.owner \in Thread /\ g.page \in Page
      /\ g.frame \in Frame /\ page_table[g.page] = g.frame /\ g.page \notin retired
  BY DEF Modify, IInv, TypeOK, Guard, GuardKeepsItsFrame, StoreInv, WritesLive
<1>2. /\ data' = [data EXCEPT ![g.frame] = v]
      /\ UNCHANGED <<page_table, stored, retired, guards>>
  BY DEF Modify, poolVars, diskVars
<1>3. \A q \in Page : page_table[q] = g.frame => q = g.page
  BY <1>1 DEF IInv, PageTableMatchesMetas
<1>4. data \in [Frame -> Value] /\ page_table \in [Page -> Frame \cup {NoFrame}]
  BY DEF IInv, TypeOK
<1>5. Contents' = [Contents EXCEPT ![g.page] = v]
  <2>1. ASSUME NEW q \in Page
        PROVE  ContentOf(q)' = IF q = g.page THEN v ELSE ContentOf(q)
    BY <1>1, <1>2, <1>3, <1>4, NullAssumption DEF ContentOf
  <2> QED
    BY <2>1 DEF Contents
<1>6. Handle(g) \in Handles /\ Handles' = Handles
  BY <1>1, <1>2 DEF Handles, OpenGuards, Handle
<1>7. Handle(g) = [owner |-> g.owner, page |-> g.page, mode |-> "write"]
  BY <1>1 DEF Handle
<1>8. Store!Write(g.owner, g.page, v)
  BY <1>2, <1>5, <1>6, <1>7 DEF Store!Write, Contents, Handles, Handle, OpenGuards
<1> QED
  BY <1>1, <1>8, StepIsNext

\* A page nobody has a guard of is deleted.
LEMMA DeleteRefines ==
  ASSUME IInv, StoreInv, NEW t \in Thread, NEW p \in Page,
         DeleteLoaded(t, p) \/ DeleteUnloaded(t, p)
  PROVE  [Store!Next]_Store!storeVars
<1>1. /\ p \notin retired /\ retired' = retired \cup {p}
      /\ UNCHANGED <<guards, data, stored>>
  BY DEF DeleteLoaded, DeleteUnloaded, MayDelete, poolVars, diskVars
<1>2. \A g \in guards : g.page # p
  <2>1. CASE DeleteLoaded(t, p)
    <3>1. page_table[p] \in Frame /\ frame_metas[page_table[p]].pin_count = 0
      BY <2>1 DEF DeleteLoaded, Deletable, IInv, TypeOK
    <3> QED
      BY <3>1, UnpinnedMeansNoGuard DEF IInv, GuardKeepsItsFrame
  <2>2. CASE DeleteUnloaded(t, p)
    BY <2>2, NullAssumption DEF DeleteUnloaded, IInv, TypeOK, Guard, GuardKeepsItsFrame
  <2> QED
    BY <2>1, <2>2
<1>3. \A q \in Page : q # p => page_table'[q] = page_table[q]
  <2>1. CASE DeleteLoaded(t, p)
    <3>1. page_table[p] \in Frame
          /\ page_table' =
               [page_table EXCEPT ![frame_metas[page_table[p]].page_id] = NoFrame]
      BY <2>1 DEF DeleteLoaded, Unload, IInv, TypeOK
    <3>2. frame_metas[page_table[p]].page_id = p
      BY <3>1 DEF IInv, PageTableMatchesMetas
    <3> QED
      BY <3>1, <3>2 DEF IInv, TypeOK
  <2>2. CASE DeleteUnloaded(t, p)
    BY <2>2 DEF DeleteUnloaded, poolVars
  <2> QED
    BY <2>1, <2>2
<1>4. Contents' = [Contents EXCEPT ![p] = Unallocated]
  <2>1. ASSUME NEW q \in Page
        PROVE  ContentOf(q)' = IF q = p THEN Unallocated ELSE ContentOf(q)
    BY <1>1, <1>3 DEF ContentOf
  <2> QED
    BY <2>1 DEF Contents
<1>5. Handles' = Handles /\ \A o \in Handles : o.page # p
  BY <1>1, <1>2 DEF Handles, OpenGuards, Handle
<1>6. Store!Delete(p)
  BY <1>1, <1>4, <1>5
     DEF Store!Delete, Store!OpenOf, Contents, Handles, Handle, OpenGuards
<1> QED
  BY <1>6, StepIsNext

\* The victim of an eviction is on disk as it was in its frame.
LEMMA EvictionRefines ==
  ASSUME IInv, StoreInv, NEW t \in Thread, LatchCleanVictim(t) \/ Flushed(t)
  PROVE  [Store!Next]_Store!storeVars
<1> DEFINE f == call[t].frame
           p == PageIn(f)
<1>1. /\ f \in Frame /\ p \in Page /\ page_table[p] = f
  <2>1. call[t].pc \in {"victim_latch", "flush"}
    BY DEF LatchCleanVictim, Flushed, At
  <2>2. f \in Frame /\ p # NoPage
    BY <2>1 DEF IInv, CallsOK, FrameInHand, HoldsMutex, PageIn
  <2> QED
    BY <2>2 DEF IInv, TypeOK, FrameMeta, PageTableMatchesMetas, PageIn
<1>2. /\ page_table' = [page_table EXCEPT ![p] = NoFrame]
      /\ UNCHANGED <<data, stored, guards, retired>>
  BY DEF LatchCleanVictim, Flushed, Unload, PageIn
<1>3. p \notin retired => stored[p] = data[f]
  <2>1. CASE LatchCleanVictim(t)
    <3>1. \A g \in guards : g.frame # f
      BY <1>1, <2>1, UnpinnedMeansNoGuard
         DEF LatchCleanVictim, At, IInv, FrameInHand, HoldsMutex
    <3> QED
      BY <1>1, <2>1, <3>1 DEF LatchCleanVictim, StoreInv, CleanSaved, NoWriter
  <2>2. CASE Flushed(t)
    BY <2>2, ReplyAssumption DEF Flushed, StoreInv, RepliesOK
  <2> QED
    BY <2>1, <2>2
<1>4. page_table \in [Page -> Frame \cup {NoFrame}]
  BY DEF IInv, TypeOK
<1> HIDE DEF p, f
<1>5. ASSUME NEW q \in Page PROVE ContentOf(q)' = ContentOf(q)
  BY <1>1, <1>2, <1>3, <1>4, NullAssumption DEF ContentOf
<1> QED
  BY <1>2, <1>5, Stutters DEF OpenGuards

\* The disk changes a page nobody has loaded only by giving it its first content.
LEMMA WorkerRefines ==
  ASSUME IInv, StoreInv, Worker
  PROVE  [Store!Next]_Store!storeVars
<1>1. UNCHANGED <<page_table, data, guards, retired>>
  BY DEF Worker, poolVars
<1>2. /\ stored \in [Page -> Value \cup {Unallocated}]
      /\ page_table \in [Page -> Frame \cup {NoFrame}]
  BY DEF IInv, TypeOK
<1>3. OpenGuards' = OpenGuards
  BY <1>1 DEF OpenGuards
<1>4. CASE DeleteServed
  <2>1. ASSUME NEW q \in Page PROVE ContentOf(q)' = ContentOf(q)
    BY <1>1, <1>2, <1>4 DEF DeleteServed, ContentOf
  <2> QED
    BY <1>1, <1>3, <2>1, Stutters
<1>5. CASE WriteServed \/ WriteRefused
  <2> DEFINE p == PageIn(call[mutex].frame)
  <2>1. /\ p \in Page
        /\ stored' = stored \/ \E w : stored' = [stored EXCEPT ![p] = w]
    BY <1>5 DEF WriteServed, WriteRefused
  <2>2. page_table[p] # NoFrame
    <3>1. call[mutex].frame \in Frame
      BY <1>5 DEF WriteServed, WriteRefused, Asked, At, IInv, CallsOK, HoldsMutex
    <3> QED
      BY <2>1, <3>1, NullAssumption DEF IInv, PageTableMatchesMetas, PageIn
  <2> HIDE DEF p
  <2>3. ASSUME NEW q \in Page PROVE ContentOf(q)' = ContentOf(q)
    BY <1>1, <1>2, <2>1, <2>2 DEF ContentOf
  <2> QED
    BY <1>1, <1>3, <2>3, Stutters
<1>6. CASE ReadRefused
  <2>1. ASSUME NEW q \in Page PROVE ContentOf(q)' = ContentOf(q)
    BY <1>1, <1>6 DEF ReadRefused, ContentOf
  <2> QED
    BY <1>1, <1>3, <2>1, Stutters
<1>7. CASE ReadServed
  <2>1. PICK p \in Page, v \in Value :
          /\ p = call[mutex].page
          /\ v = stored[p] \/ stored[p] = Unallocated
          /\ stored' = [stored EXCEPT ![p] = v]
    BY <1>7 DEF ReadServed
  <2>2. page_table[p] = NoFrame
    BY <1>7, <2>1 DEF ReadServed, Asked, At, IInv, FrameInHand, HoldsMutex
  <2>3. CASE p \notin retired /\ stored[p] = Unallocated
    <3>1. Contents' = [Contents EXCEPT ![p] = v] /\ Contents[p] = Unallocated
      <4>1. ASSUME NEW q \in Page
            PROVE  ContentOf(q)' = IF q = p THEN v ELSE ContentOf(q)
        BY <1>1, <1>2, <2>1, <2>2, <2>3 DEF ContentOf
      <4> QED
        BY <2>2, <2>3, <4>1 DEF Contents, ContentOf
    <3>2. Handles' = Handles
      BY <1>3 DEF Handles, Handle
    <3>3. Store!Create(p, v)
      BY <1>1, <2>3, <3>1, <3>2
         DEF Store!Create, Contents, Handles, Handle, OpenGuards
    <3> QED
      BY <3>3, StepIsNext
  <2>4. CASE p \in retired \/ stored[p] # Unallocated
    <3>1. ASSUME NEW q \in Page PROVE ContentOf(q)' = ContentOf(q)
      BY <1>1, <1>2, <2>1, <2>4 DEF ContentOf
    <3> QED
      BY <1>1, <1>3, <3>1, Stutters
  <2> QED
    BY <2>3, <2>4
<1> QED
  BY <1>4, <1>5, <1>6, <1>7, ServeEffect DEF Worker

\* One step of the pool is one step of PageStore at most.
LEMMA StepRefines ==
  ASSUME IInv, StoreInv, [Next]_vars
  PROVE  [Store!Next]_Store!storeVars
<1> USE DEF poolVars, diskVars
<1>1. ASSUME NEW t \in Thread, new_page(t) PROVE [Store!Next]_Store!storeVars
  BY <1>1, BookkeepingStutters DEF new_page
<1>2. ASSUME NEW t \in Thread, NEW p \in Page, NEW mode \in Mode,
             PinLoaded(t, p, mode)
      PROVE  [Store!Next]_Store!storeVars
  <2>1. OpenGuards' = OpenGuards /\ UNCHANGED <<page_table, data, stored, retired>>
    BY <1>2 DEF PinLoaded, GuardFor, OpenGuards
  <2> QED
    BY <2>1, Stutters DEF ContentOf
<1>3. ASSUME NEW t \in Thread, NEW p \in Page, NEW mode \in Mode,
             \/ TakeFreeFrame(t, p, mode) \/ TakeVictim(t, p, mode)
             \/ NoAvailableFrame(t, p, mode) \/ PagePinned(t, p)
      PROVE  [Store!Next]_Store!storeVars
  BY <1>3, BookkeepingStutters
     DEF TakeFreeFrame, TakeVictim, NoAvailableFrame, PagePinned
<1>4. ASSUME NEW t \in Thread,
             \/ LatchFreeFrame(t) \/ LatchDirtyVictim(t) \/ FlushFailed(t)
             \/ LoadFailed(t) \/ Free(t)
      PROVE  [Store!Next]_Store!storeVars
  BY <1>4, BookkeepingStutters
     DEF LatchFreeFrame, LatchDirtyVictim, FlushFailed, LoadFailed, Free, ReturnError,
         Unlatch, SendDelete
<1>5. CASE UNCHANGED vars
  BY <1>5, BookkeepingStutters DEF vars
<1>6. \A t \in Thread, p \in Page : PagePinned(t, p) => [Store!Next]_Store!storeVars
  BY BookkeepingStutters DEF PagePinned
<1> QED
  BY <1>1, <1>2, <1>3, <1>4, <1>5, <1>6, OpenGuardRefines, LoadedRefines, UnpinRefines,
     ModifyRefines, DeleteRefines, EvictionRefines, WorkerRefines
     DEF Next, Call, Locked, Close, GuardsOf

\* A new pool is a store in which no page was used yet.
LEMMA InitRefines == Init => Store!Init
  BY DEF Init, Disk!ServiceInit, Store!Init, ContentOf

\* No written content is lost or seen by the wrong guard, through any sequence of loads,
\* evictions, failed flushes and deletes: ImplementsPageStore.
THEOREM Refinement == Spec => ImplementsPageStore
  BY InitRefines, StepRefines, Invariance, StoreInvariance, PTL
     DEF Spec, ImplementsPageStore, Store!Spec
=============================================================================
