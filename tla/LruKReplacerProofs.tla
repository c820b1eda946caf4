------------------------- MODULE LruKReplacerProofs -------------------------
(***************************************************************************)
(* Proofs about LruKReplacer, for any frames and any k.                    *)
(*                                                                         *)
(* The policy is stated on the whole access log and decided on truncated   *)
(* histories, so that the invariant ties the two: the history of a frame   *)
(* is the end of its log (HistoryEndsLog).  That the victim is unique      *)
(* needs the clock: no two accesses happen at the same time (LogsDistinct).*)
(***************************************************************************)
EXTENDS LruKReplacer, FiniteSetTheorems, TLAPS

\* h is the last k entries of the log a, or all of it.
EndOf(h, a) ==
  /\ Len(h) = IF Len(a) < k THEN Len(a) ELSE k
  /\ \A i \in 1 .. Len(h) : h[i] = a[Len(a) - Len(h) + i]

Past(a, time) == \A i \in 1 .. Len(a) : a[i] <= time

Apart(a, b) == \A i \in 1 .. Len(a), j \in 1 .. Len(b) : a[i] # b[j]

HistoryEndsLog ==
  /\ DOMAIN accesses = DOMAIN nodes
  /\ \A f \in DOMAIN nodes :
       accesses[f] \in Seq(Nat) /\ EndOf(nodes[f].history, accesses[f])

LogsPast == \A f \in DOMAIN nodes : Past(accesses[f], current_timestamp)

LogsDistinct ==
  \A f, g \in DOMAIN nodes : f # g => Apart(accesses[f], accesses[g])

IInv ==
  /\ TypeOK
  /\ CurrSizeCountsEvictable
  /\ HistoryEndsLog
  /\ LogsPast
  /\ LogsDistinct

-----------------------------------------------------------------------------
\* What record_access does to a history: VecDeque's pop_front and push_back.
LEMMA PushHistory ==
  ASSUME NEW h \in Seq(Nat \ {0}), Len(h) <= k, NEW t \in Nat \ {0}
  PROVE  /\ Push(h, t) \in Seq(Nat \ {0})
         /\ Len(Push(h, t)) = IF Len(h) < k THEN Len(h) + 1 ELSE k
         /\ Push(h, t)[Len(Push(h, t))] = t
         /\ \A i \in 1 .. Len(Push(h, t)) - 1 :
              Push(h, t)[i] = IF Len(h) < k THEN h[i] ELSE h[i + 1]
<1>1. k \in Nat \ {0} /\ Len(h) \in Nat
  BY KAssumption
<1>2. CASE Len(h) + 1 > k
  <2>1. Len(h) = k /\ h # <<>> /\ Push(h, t) = Append(Tail(h), t)
    BY <1>1, <1>2 DEF Push
  <2>2. /\ Tail(h) \in Seq(Nat \ {0}) /\ Len(Tail(h)) = k - 1
        /\ \A i \in 1 .. k - 1 : Tail(h)[i] = h[i + 1]
    BY <1>1, <2>1
  <2> QED
    BY <1>1, <2>1, <2>2
<1>3. CASE Len(h) + 1 <= k
  <2>1. Push(h, t) = Append(h, t)
    BY <1>1, <1>3 DEF Push
  <2> QED
    BY <1>1, <1>3, <2>1
<1> QED
  BY <1>1, <1>2, <1>3

\* The truncated history keeps up with the log.
LEMMA PushEndOf ==
  ASSUME NEW h \in Seq(Nat \ {0}), NEW a \in Seq(Nat), EndOf(h, a), NEW t \in Nat \ {0}
  PROVE  /\ Push(h, t) \in Seq(Nat \ {0}) /\ Len(Push(h, t)) \in 1 .. k
         /\ EndOf(Push(h, t), Append(a, t))
<1> DEFINE p == Push(h, t)
           b == Append(a, t)
<1>1. /\ k \in Nat \ {0} /\ Len(h) \in Nat /\ Len(a) \in Nat
      /\ Len(h) = IF Len(a) < k THEN Len(a) ELSE k
      /\ \A i \in 1 .. Len(h) : h[i] = a[Len(a) - Len(h) + i]
  <2>1. k \in Nat \ {0} /\ Len(h) \in Nat /\ Len(a) \in Nat
    BY KAssumption
  <2> QED
    BY <2>1 DEF EndOf
<1>2. /\ p \in Seq(Nat \ {0})
      /\ Len(p) = IF Len(h) < k THEN Len(h) + 1 ELSE k
      /\ p[Len(p)] = t
      /\ \A i \in 1 .. Len(p) - 1 : p[i] = IF Len(h) < k THEN h[i] ELSE h[i + 1]
  BY <1>1, PushHistory
<1>3. Len(b) = Len(a) + 1 /\ b[Len(a) + 1] = t /\ \A i \in 1 .. Len(a) : b[i] = a[i]
  OBVIOUS
<1> HIDE DEF p, b
<1>4. Len(p) = IF Len(b) < k THEN Len(b) ELSE k
  BY <1>1, <1>2, <1>3
<1>5. ASSUME NEW i \in 1 .. Len(p) PROVE p[i] = b[Len(b) - Len(p) + i]
  <2>1. CASE i = Len(p)
    BY <1>1, <1>2, <1>3, <2>1
  <2>2. CASE i # Len(p) /\ Len(h) < k
    <3>1. i \in 1 .. Len(h) /\ i \in 1 .. Len(p) - 1 /\ Len(h) = Len(a) /\ Len(p) = Len(b)
      BY <1>1, <1>2, <1>3, <2>2
    <3>2. p[i] = h[i] /\ h[i] = a[Len(a) - Len(h) + i]
      BY <1>1, <1>2, <2>2, <3>1
    <3> QED
      BY <1>1, <1>3, <3>1, <3>2
  <2>3. CASE i # Len(p) /\ Len(h) >= k
    <3>1. Len(h) = k /\ Len(p) = k /\ Len(a) \in Nat /\ Len(a) >= k /\ Len(b) = Len(a) + 1
      BY <1>1, <1>2, <1>3, <2>3
    <3>2. /\ i + 1 \in 1 .. Len(h) /\ i \in 1 .. Len(p) - 1
          /\ Len(b) - Len(p) + i = Len(a) - Len(h) + (i + 1)
          /\ Len(a) - Len(h) + (i + 1) \in 1 .. Len(a)
      <4>1. i \in 1 .. k /\ i # k /\ k \in Nat
        BY <1>1, <2>3, <3>1
      <4> QED
        BY <3>1, <4>1
    <3>3. p[i] = h[i + 1]
      BY <1>1, <1>2, <3>1, <3>2
    <3>4. h[i + 1] = a[Len(a) - Len(h) + (i + 1)]
      BY <1>1, <3>2
    <3> QED
      BY <1>3, <3>2, <3>3, <3>4
  <2> QED
    BY <1>1, <2>1, <2>2, <2>3
<1>6. Len(p) \in 1 .. k
  BY <1>1, <1>2
<1>7. p \in Seq(Nat \ {0}) /\ Len(p) \in 1 .. k /\ EndOf(p, b)
  BY <1>2, <1>4, <1>5, <1>6 DEF EndOf
<1> QED
  BY <1>7 DEF p, b

\* A new access is later than every logged one.
LEMMA AppendNow ==
  ASSUME NEW a \in Seq(Nat), NEW b \in Seq(Nat), NEW time \in Nat,
         Past(a, time), Past(b, time), Apart(a, b)
  PROVE  /\ Append(a, time + 1) \in Seq(Nat)
         /\ Past(Append(a, time + 1), time + 1) /\ Past(b, time + 1)
         /\ Apart(Append(a, time + 1), b) /\ Apart(b, Append(a, time + 1))
<1> DEFINE c == Append(a, time + 1)
<1>1. /\ c \in Seq(Nat) /\ Len(c) = Len(a) + 1 /\ c[Len(a) + 1] = time + 1
      /\ \A i \in 1 .. Len(a) : c[i] = a[i]
  OBVIOUS
<1>2. /\ \A i \in 1 .. Len(a) : a[i] \in Nat /\ a[i] <= time
      /\ \A i \in 1 .. Len(b) : b[i] \in Nat /\ b[i] <= time
      /\ Len(a) \in Nat /\ Len(b) \in Nat
  BY DEF Past
<1> HIDE DEF c
<1>3. /\ \A i \in 1 .. Len(c) : c[i] <= time + 1
      /\ \A i \in 1 .. Len(b) : b[i] <= time + 1
  <2>1. ASSUME NEW i \in 1 .. Len(c) PROVE c[i] <= time + 1
    <3>1. CASE i \in 1 .. Len(a)
      <4>1. c[i] = a[i] /\ a[i] \in Nat /\ a[i] <= time
        BY <1>1, <1>2, <3>1
      <4> QED
        BY <4>1
    <3>2. CASE i = Len(a) + 1
      BY <1>1, <3>2
    <3> QED
      BY <1>1, <1>2, <3>1, <3>2
  <2> QED
    BY <1>2, <2>1
<1>4. ASSUME NEW i \in 1 .. Len(c), NEW j \in 1 .. Len(b) PROVE c[i] # b[j]
  <2>1. CASE i \in 1 .. Len(a)
    BY <1>1, <2>1 DEF Apart
  <2>2. CASE i = Len(a) + 1
    BY <1>1, <1>2, <2>2
  <2> QED
    BY <1>1, <1>2, <2>1, <2>2
<1>5. c \in Seq(Nat) /\ Past(c, time + 1) /\ Past(b, time + 1) /\ Apart(c, b) /\ Apart(b, c)
  BY <1>1, <1>3, <1>4 DEF Past, Apart
<1> QED
  BY <1>5 DEF c

\* The evictable frames are finitely many.
LEMMA EvictableFinite ==
  ASSUME TypeOK
  PROVE  /\ IsFiniteSet(EvictableNodes)
         /\ Cardinality(EvictableNodes) \in Nat
         /\ \A f \in EvictableNodes : Cardinality(EvictableNodes) > 0
<1>1. EvictableNodes \subseteq Frame
  BY DEF TypeOK, EvictableNodes
<1>2. IsFiniteSet(EvictableNodes)
  BY <1>1, FrameAssumption, FS_Subset
<1> QED
  BY <1>2, FS_CardinalityType, FS_EmptySet

LEMMA InitIInv == Init => IInv
<1> SUFFICES ASSUME Init PROVE IInv
  OBVIOUS
<1>1. DOMAIN nodes = {} /\ DOMAIN accesses = {} /\ EvictableNodes = {}
  BY DEF Init, EvictableNodes
<1> QED
  BY <1>1, FS_EmptySet
     DEF Init, IInv, TypeOK, CurrSizeCountsEvictable, HistoryEndsLog, LogsPast, LogsDistinct

-----------------------------------------------------------------------------
(* record_access                                                           *)

LEMMA RecordAccessStep ==
  ASSUME IInv, NEW f \in Frame, record_access(f)
  PROVE  IInv'
<1> DEFINE h == NodeOf(f).history
           a == IF f \in DOMAIN accesses THEN accesses[f] ELSE <<>>
           t == current_timestamp + 1
<1>1. /\ k \in Nat \ {0} /\ current_timestamp \in Nat /\ t \in Nat \ {0}
      /\ current_timestamp' = t /\ DOMAIN accesses = DOMAIN nodes
  BY KAssumption DEF IInv, TypeOK, record_access, HistoryEndsLog
<1>2. /\ NodeOf(f) \in Node /\ h \in Seq(Nat \ {0}) /\ a \in Seq(Nat)
      /\ EndOf(h, a) /\ Past(a, current_timestamp)
      /\ \A g \in DOMAIN nodes : g # f => Apart(a, accesses[g])
  <2>1. CASE f \in DOMAIN nodes
    BY <1>1, <2>1 DEF IInv, TypeOK, Node, NodeOf, HistoryEndsLog, LogsPast, LogsDistinct
  <2>2. CASE f \notin DOMAIN nodes
    <3>1. /\ h = <<>> /\ a = <<>> /\ NodeOf(f) \in Node
          /\ <<>> \in Seq(Nat \ {0}) /\ <<>> \in Seq(Nat)
      BY <1>1, <2>2 DEF NodeOf, Node
    <3>2. EndOf(<<>>, <<>>) /\ Past(<<>>, current_timestamp)
      BY <1>1 DEF EndOf, Past
    <3>3. \A b : Apart(<<>>, b)
      BY DEF Apart
    <3> QED
      BY <3>1, <3>2, <3>3
  <2> QED
    BY <2>1, <2>2
<1>3. /\ DOMAIN nodes' = DOMAIN nodes \cup {f}
      /\ \A g \in DOMAIN nodes : g # f => nodes'[g] = nodes[g]
      /\ nodes'[f] = [NodeOf(f) EXCEPT !.history = Push(h, t)]
  BY <1>1 DEF record_access, Put
<1>4. /\ DOMAIN accesses' = DOMAIN nodes \cup {f}
      /\ \A g \in DOMAIN nodes : g # f => accesses'[g] = accesses[g]
      /\ accesses'[f] = Append(a, t)
  BY <1>1 DEF record_access, Put
<1>5. /\ Push(h, t) \in Seq(Nat \ {0}) /\ Len(Push(h, t)) \in 1 .. k
      /\ EndOf(Push(h, t), Append(a, t))
  BY <1>1, <1>2, PushEndOf
<1>6. /\ nodes'[f] \in Node /\ nodes'[f].history = Push(h, t)
      /\ nodes'[f].is_evictable = NodeOf(f).is_evictable
  BY <1>2, <1>3, <1>5 DEF Node
<1>7. /\ Append(a, t) \in Seq(Nat) /\ Past(Append(a, t), t)
      /\ \A g \in DOMAIN nodes : g # f =>
           /\ Past(accesses[g], t)
           /\ Apart(Append(a, t), accesses[g]) /\ Apart(accesses[g], Append(a, t))
  <2>1. ASSUME NEW b \in Seq(Nat), Past(b, current_timestamp), Apart(a, b)
        PROVE  /\ Append(a, t) \in Seq(Nat) /\ Past(Append(a, t), t) /\ Past(b, t)
               /\ Apart(Append(a, t), b) /\ Apart(b, Append(a, t))
    BY <1>1, <1>2, <2>1, AppendNow
  <2>2. <<>> \in Seq(Nat) /\ Past(<<>>, current_timestamp) /\ Apart(a, <<>>)
    BY DEF Past, Apart
  <2>3. \A g \in DOMAIN nodes : g # f =>
          /\ accesses[g] \in Seq(Nat) /\ Past(accesses[g], current_timestamp)
          /\ Apart(a, accesses[g])
    BY <1>2 DEF IInv, HistoryEndsLog, LogsPast
  <2> HIDE DEF a, t
  <2> QED
    BY <2>1, <2>2, <2>3
<1> HIDE DEF h, a, t
<1>8. TypeOK'
  BY <1>1, <1>3, <1>5, <1>6 DEF IInv, TypeOK, record_access
<1>9. CurrSizeCountsEvictable'
  <2>1. CASE f \in DOMAIN nodes
    BY <1>3, <1>6, <2>1, ZenonT(30) DEF IInv, CurrSizeCountsEvictable, EvictableNodes, NodeOf, record_access
  <2>2. CASE f \notin DOMAIN nodes
    <3>1. EvictableNodes' = EvictableNodes
      BY <1>3, <1>6, <2>2 DEF EvictableNodes, NodeOf
    <3> QED
      BY <3>1 DEF IInv, CurrSizeCountsEvictable, record_access
  <2> QED
    BY <2>1, <2>2
<1>10. HistoryEndsLog'
  BY <1>3, <1>4, <1>5, <1>6, <1>7 DEF IInv, HistoryEndsLog
<1>11. LogsPast' /\ LogsDistinct'
  BY <1>1, <1>3, <1>4, <1>7 DEF IInv, LogsPast, LogsDistinct
<1> QED
  BY <1>8, <1>9, <1>10, <1>11 DEF IInv

-----------------------------------------------------------------------------
(* set_evictable, evict and remove                                         *)

LEMMA SetEvictableStep ==
  ASSUME IInv, NEW f \in Frame, NEW evictable \in BOOLEAN, set_evictable(f, evictable)
  PROVE  IInv'
<1>1. CASE nodes[f].is_evictable = evictable
  BY <1>1 DEF set_evictable, IInv, TypeOK, CurrSizeCountsEvictable, EvictableNodes,
              HistoryEndsLog, LogsPast, LogsDistinct
<1>2. CASE nodes[f].is_evictable # evictable
  <2>1. /\ f \in DOMAIN nodes /\ DOMAIN nodes' = DOMAIN nodes
        /\ nodes' = [nodes EXCEPT ![f].is_evictable = evictable]
        /\ curr_size' = IF evictable THEN curr_size + 1 ELSE curr_size - 1
        /\ UNCHANGED <<current_timestamp, accesses>>
    BY <1>2 DEF set_evictable
  <2>2. \A g \in DOMAIN nodes :
          nodes'[g] \in Node /\ nodes'[g].history = nodes[g].history
    BY <2>1 DEF IInv, TypeOK, Node
  <2>3. EvictableNodes' = IF evictable THEN EvictableNodes \cup {f} ELSE EvictableNodes \ {f}
    BY <2>1 DEF IInv, TypeOK, Node, EvictableNodes
  <2>4. f \in EvictableNodes <=> ~evictable
    BY <1>2, <2>1 DEF IInv, TypeOK, Node, EvictableNodes
  <2>5. /\ IsFiniteSet(EvictableNodes) /\ Cardinality(EvictableNodes) \in Nat
        /\ f \in EvictableNodes => Cardinality(EvictableNodes) > 0
        /\ curr_size = Cardinality(EvictableNodes)
    BY EvictableFinite DEF IInv, CurrSizeCountsEvictable
  <2>6. curr_size' = Cardinality(EvictableNodes') /\ curr_size' \in Nat
    <3>0. curr_size' = IF evictable THEN curr_size + 1 ELSE curr_size - 1
      BY <2>1
    <3>1. CASE evictable
      BY <3>0, <2>3, <2>4, <2>5, <3>1, FS_AddElement
    <3>2. CASE ~evictable
      BY <3>0, <2>3, <2>4, <2>5, <3>2, FS_RemoveElement, SMTT(20)
    <3> QED
      BY <3>1, <3>2
  <2>7. TypeOK' /\ CurrSizeCountsEvictable'
    BY <2>1, <2>2, <2>6 DEF IInv, TypeOK, CurrSizeCountsEvictable
  <2>8. HistoryEndsLog' /\ LogsPast' /\ LogsDistinct'
    BY <2>1, <2>2 DEF IInv, HistoryEndsLog, LogsPast, LogsDistinct
  <2> QED
    BY <2>7, <2>8 DEF IInv
<1> QED
  BY <1>1, <1>2

LEMMA ForgetStep ==
  ASSUME IInv, NEW f \in EvictableNodes, Forget(f)
  PROVE  IInv'
<1>1. /\ DOMAIN nodes' = DOMAIN nodes \ {f} /\ \A g \in DOMAIN nodes' : nodes'[g] = nodes[g]
      /\ DOMAIN accesses' = DOMAIN accesses \ {f}
      /\ \A g \in DOMAIN accesses' : accesses'[g] = accesses[g]
      /\ curr_size' = curr_size - 1 /\ current_timestamp' = current_timestamp
  BY DEF Forget, Drop
<1>2. EvictableNodes' = EvictableNodes \ {f}
  BY <1>1 DEF EvictableNodes
<1>3. /\ IsFiniteSet(EvictableNodes) /\ Cardinality(EvictableNodes) \in Nat
      /\ Cardinality(EvictableNodes) > 0 /\ curr_size = Cardinality(EvictableNodes)
  BY EvictableFinite DEF IInv, CurrSizeCountsEvictable
<1>4. curr_size' = Cardinality(EvictableNodes') /\ curr_size' \in Nat
  BY <1>1, <1>2, <1>3, FS_RemoveElement
<1>5. TypeOK' /\ CurrSizeCountsEvictable'
  BY <1>1, <1>4 DEF IInv, TypeOK, CurrSizeCountsEvictable
<1>6. HistoryEndsLog' /\ LogsPast' /\ LogsDistinct'
  BY <1>1 DEF IInv, HistoryEndsLog, LogsPast, LogsDistinct
<1> QED
  BY <1>5, <1>6 DEF IInv

LEMMA Inductive == IInv /\ [Next]_vars => IInv'
<1> SUFFICES ASSUME IInv, [Next]_vars PROVE IInv'
  OBVIOUS
<1>1. CASE evict
  BY <1>1, ForgetStep DEF evict, Victims
<1>2. ASSUME NEW f \in Frame, remove(f) PROVE IInv'
  BY <1>2, ForgetStep DEF remove
<1>3. CASE UNCHANGED vars
  BY <1>3 DEF vars, IInv, TypeOK, CurrSizeCountsEvictable, EvictableNodes, HistoryEndsLog,
              LogsPast, LogsDistinct
<1> QED
  BY <1>1, <1>2, <1>3, RecordAccessStep, SetEvictableStep DEF Next

-----------------------------------------------------------------------------
(* The victim.                                                             *)

Short(f) == Len(nodes[f].history) < k

\* The access time min_by_key compares.
Stamp(f) == IF Short(f) THEN nodes[f].history[Len(nodes[f].history)]
                        ELSE nodes[f].history[1]

\* The truncated history has what the policy needs of the log.
LEMMA HistorySuffices ==
  ASSUME IInv, NEW f \in DOMAIN nodes
  PROVE  /\ Short(f) <=> InfiniteDistance(f)
         /\ Stamp(f) \in Nat
         /\ Short(f) => Stamp(f) = LastAccess(f)
         /\ ~Short(f) => Stamp(f) = KthLast(f)
         /\ \E i \in 1 .. Len(accesses[f]) : Stamp(f) = accesses[f][i]
<1> DEFINE h == nodes[f].history
           a == accesses[f]
<1>1. /\ h \in Seq(Nat \ {0}) /\ Len(h) \in 1 .. k /\ a \in Seq(Nat) /\ k \in Nat \ {0}
      /\ Len(h) = IF Len(a) < k THEN Len(a) ELSE k
      /\ \A i \in 1 .. Len(h) : h[i] = a[Len(a) - Len(h) + i]
  BY KAssumption DEF IInv, TypeOK, Node, HistoryEndsLog, EndOf
<1> HIDE DEF h, a
<1>0. ASSUME NEW i \in 1 .. Len(h) PROVE h[i] = a[Len(a) - Len(h) + i] /\ h[i] \in Nat
  <2>1. h[i] = a[Len(a) - Len(h) + i]
    BY <1>1, Zenon
  <2>2. h \in Seq(Nat \ {0})
    BY <1>1, Zenon
  <2>3. h[i] \in Nat
    BY <2>2
  <2> QED
    BY <2>1, <2>3
<1>2. /\ Len(a) \in Nat /\ Len(h) \in Nat /\ Len(h) >= 1 /\ Len(a) >= 1 /\ k \in Nat /\ k >= 1
      /\ Len(h) < k <=> Len(a) < k
      /\ Len(h) < k => Len(h) = Len(a)
      /\ Len(h) >= k => Len(h) = k /\ Len(a) >= k
  <2>1. Len(a) \in Nat /\ Len(h) \in Nat /\ Len(h) >= 1 /\ k \in Nat /\ k >= 1
    BY <1>1
  <2>2. Len(h) = IF Len(a) < k THEN Len(a) ELSE k
    BY <1>1
  <2> QED
    BY <2>1, <2>2
<1>3. h[Len(h)] = a[Len(a)] /\ h[Len(h)] \in Nat /\ Len(a) \in 1 .. Len(a)
  <2>1. Len(h) \in 1 .. Len(h) /\ Len(a) - Len(h) + Len(h) = Len(a)
    BY <1>2
  <2>2. h[Len(h)] = a[Len(a) - Len(h) + Len(h)] /\ h[Len(h)] \in Nat
    BY <1>0, <2>1
  <2> QED
    BY <1>2, <2>1, <2>2
<1>4. CASE Len(h) >= k
  <2>1. 1 \in 1 .. Len(h) /\ Len(a) - Len(h) + 1 = Len(a) - k + 1
        /\ Len(a) - k + 1 \in 1 .. Len(a)
    BY <1>2, <1>4
  <2>2. h[1] = a[Len(a) - Len(h) + 1] /\ h[1] \in Nat
    BY <1>0, <2>1
  <2>3. ~Short(f) /\ ~InfiniteDistance(f)
    BY <1>2, <1>4 DEF Short, InfiniteDistance, h, a
  <2>4. Stamp(f) = h[1] /\ KthLast(f) = a[Len(a) - k + 1]
    BY <2>3 DEF Stamp, KthLast, h, a
  <2> QED
    BY <2>1, <2>2, <2>3, <2>4 DEF a
<1>5. CASE Len(h) < k
  <2>1. Short(f) /\ InfiniteDistance(f)
    BY <1>2, <1>5 DEF Short, InfiniteDistance, h, a
  <2>2. Stamp(f) = h[Len(h)] /\ LastAccess(f) = a[Len(a)]
    BY <2>1 DEF Stamp, LastAccess, h, a
  <2> QED
    BY <1>3, <2>1, <2>2 DEF a
<1> QED
  BY <1>2, <1>4, <1>5

LEMMA SortsBeforeByStamp ==
  ASSUME NEW f, NEW g
  PROVE  SortsBefore(f, g) <=> \/ Short(f) /\ ~Short(g)
                               \/ (Short(f) <=> Short(g)) /\ Stamp(f) <= Stamp(g)
BY DEF SortsBefore, Short, Stamp

\* Every non-empty set of frames has one with the smallest stamp.
LEMMA SmallestStamp ==
  ASSUME NEW F, F # {}, \A f \in F : Stamp(f) \in Nat
  PROVE  \E f \in F : \A g \in F : Stamp(f) <= Stamp(g)
<1> DEFINE R == OpToRel(<, Nat)
           T == {Stamp(f) : f \in F}
<1>1. \E x \in T : \A y \in T : ~(<<y, x>> \in R)
  <2>1. T \subseteq Nat /\ T # {}
    OBVIOUS
  <2> HIDE DEF T
  <2> QED
    BY <2>1, NatLessThanWellFounded, WFMin
<1>2. \A x, y \in Nat : <<y, x>> \in R <=> y < x
  BY DEF OpToRel
<1> HIDE DEF R
<1>3. PICK f \in F : \A g \in F : ~(<<Stamp(g), Stamp(f)>> \in R)
  BY <1>1
<1>4. \A g \in F : ~(Stamp(g) < Stamp(f))
  BY <1>2, <1>3
<1> QED
  BY <1>3, <1>4

\* evict's choice is the documented one.
LEMMA VictimByDistance ==
  ASSUME IInv
  PROVE  VictimHasLargestKDistance
<1> SUFFICES ASSUME NEW v \in Victims, NEW g \in EvictableNodes
             PROVE  IF InfiniteDistance(g)
                    THEN InfiniteDistance(v) /\ LastAccess(v) <= LastAccess(g)
                    ELSE InfiniteDistance(v) \/ KDistance(v) >= KDistance(g)
  BY DEF VictimHasLargestKDistance
<1>1. v \in DOMAIN nodes /\ g \in DOMAIN nodes /\ SortsBefore(v, g)
  BY DEF Victims, EvictableNodes
<1>2. \/ Short(v) /\ ~Short(g)
      \/ (Short(v) <=> Short(g)) /\ Stamp(v) <= Stamp(g)
  BY <1>1, SortsBeforeByStamp
<1>3. current_timestamp \in Nat
  BY DEF IInv, TypeOK
<1> QED
  BY <1>1, <1>2, <1>3, HistorySuffices DEF KDistance

LEMMA OneVictim ==
  ASSUME IInv
  PROVE  VictimIsUnique
<1>1. IsFiniteSet(EvictableNodes) /\ curr_size = Cardinality(EvictableNodes)
  BY EvictableFinite DEF IInv, CurrSizeCountsEvictable
<1>2. EvictableNodes \subseteq DOMAIN nodes /\ Victims \subseteq EvictableNodes
  BY DEF EvictableNodes, Victims
<1>3. \A v, w \in Victims : v = w
  <2> SUFFICES ASSUME NEW v \in Victims, NEW w \in Victims, v # w PROVE FALSE
    OBVIOUS
  <2>1. SortsBefore(v, w) /\ SortsBefore(w, v) /\ v \in DOMAIN nodes /\ w \in DOMAIN nodes
    BY <1>2 DEF Victims
  <2>2. Stamp(v) = Stamp(w)
    BY <2>1, SortsBeforeByStamp, HistorySuffices
  <2> QED
    BY <2>1, <2>2, HistorySuffices DEF IInv, LogsDistinct, Apart
<1>4. ASSUME EvictableNodes # {} PROVE Victims # {}
  <2> DEFINE F == {f \in EvictableNodes : Short(f)}
  <2>1. \A f \in EvictableNodes : Stamp(f) \in Nat
    BY <1>2, HistorySuffices
  <2>2. CASE F # {}
    <3>1. PICK f \in F : \A g \in F : Stamp(f) <= Stamp(g)
      BY <2>1, <2>2, SmallestStamp
    <3>2. \A g \in EvictableNodes : SortsBefore(f, g)
      BY <3>1, SortsBeforeByStamp
    <3> QED
      BY <3>1, <3>2 DEF Victims
  <2>3. CASE F = {}
    <3>1. PICK f \in EvictableNodes : \A g \in EvictableNodes : Stamp(f) <= Stamp(g)
      BY <1>4, <2>1, SmallestStamp
    <3>2. \A g \in EvictableNodes : SortsBefore(f, g)
      BY <2>3, <3>1, SortsBeforeByStamp
    <3> QED
      BY <3>2 DEF Victims
  <2> QED
    BY <2>2, <2>3
<1>5. CASE EvictableNodes = {}
  <2>1. curr_size = 0 /\ Victims = {}
    BY <1>1, <1>2, <1>5, FS_EmptySet
  <2> QED
    BY <2>1, FS_EmptySet DEF VictimIsUnique
<1>6. CASE EvictableNodes # {}
  <2>1. curr_size # 0
    BY <1>1, <1>6, FS_EmptySet
  <2>2. PICK v \in Victims : Victims = {v}
    BY <1>3, <1>4, <1>6
  <2>3. Cardinality({v}) = 1
    BY FS_Singleton
  <2> QED
    BY <2>1, <2>2, <2>3 DEF VictimIsUnique
<1> QED
  BY <1>5, <1>6

-----------------------------------------------------------------------------
(* The theorems.                                                           *)

\* Every reachable state satisfies the inductive invariant.
THEOREM Invariance == Spec => []IInv
BY InitIInv, Inductive, PTL DEF Spec

\* The types; every tracked frame has an access time, so that evict never unwraps None.
THEOREM TypeCorrect == Spec => []TypeOK
<1>1. IInv => TypeOK
  BY DEF IInv
<1> QED
  BY Invariance, <1>1, PTL

\* size() is the number of evictable frames, whatever the order of the calls.
THEOREM SizeCorrect == Spec => []CurrSizeCountsEvictable
<1>1. IInv => CurrSizeCountsEvictable
  BY DEF IInv
<1> QED
  BY Invariance, <1>1, PTL

\* evict follows the LRU-K policy as the header comment of the module states it.
THEOREM PolicyCorrect == Spec => []VictimHasLargestKDistance
BY Invariance, VictimByDistance, PTL

\* evict returns a frame exactly when size() is positive, and there is only one it
\* can return.
THEOREM VictimDetermined == Spec => []VictimIsUnique
BY Invariance, OneVictim, PTL

\* LruKReplacer implements the contract of trait Replacer.
THEOREM Refinement == Spec => ImplementsReplacer
<1>1. Init => Contract!Init
  BY DEF Init, EvictableNodes, Contract!Init, Contract!Empty
<1>2. ASSUME IInv, [Next]_vars
      PROVE  [Contract!Next]_[tracked |-> DOMAIN nodes, evictable |-> EvictableNodes]
  <2> DEFINE r == [tracked |-> DOMAIN nodes, evictable |-> EvictableNodes]
  <2>1. ASSUME NEW f \in Frame, record_access(f) PROVE Contract!RecordAccess(f)
    <3>1. DOMAIN nodes' = DOMAIN nodes \cup {f}
      BY <2>1 DEF record_access, Put
    <3>2. EvictableNodes' = EvictableNodes
      BY <2>1 DEF record_access, Put, EvictableNodes, NodeOf
    <3> QED
      BY <3>1, <3>2 DEF Contract!RecordAccess, Contract!record_access
  <2>2. ASSUME NEW f \in EvictableNodes, Forget(f)
        PROVE  r' = Contract!forget(r, f)
    BY <2>2 DEF Forget, Drop, EvictableNodes, Contract!forget
  <2>3. ASSUME NEW f \in Frame, remove(f) PROVE Contract!Remove(f)
    BY <2>2, <2>3 DEF remove, Contract!Remove
  <2>4. CASE evict
    <3>1. PICK f \in EvictableNodes : Forget(f)
      BY <2>4 DEF evict, Victims
    <3>2. r' = Contract!forget(r, f)
      BY <2>2, <3>1
    <3>3. r.evictable = EvictableNodes
      OBVIOUS
    <3>4. Contract!Evict
      BY <3>1, <3>2, <3>3, Zenon DEF Contract!Evict
    <3> QED
      BY <3>4 DEF Contract!Next
  <2>5. ASSUME NEW f \in Frame, NEW evictable \in BOOLEAN, set_evictable(f, evictable)
        PROVE  Contract!SetEvictable(f, evictable)
    <3>1. f \in DOMAIN nodes /\ DOMAIN nodes' = DOMAIN nodes
      BY <2>5 DEF set_evictable
    <3>2. EvictableNodes' = IF evictable THEN EvictableNodes \cup {f}
                                         ELSE EvictableNodes \ {f}
      BY <1>2, <2>5 DEF set_evictable, EvictableNodes, IInv, TypeOK, Node
    <3> QED
      BY <3>1, <3>2 DEF Contract!SetEvictable, Contract!set_evictable
  <2>6. CASE UNCHANGED vars
    BY <2>6 DEF vars, EvictableNodes
  <2> QED
    BY <1>2, <2>1, <2>3, <2>4, <2>5, <2>6 DEF Next, Contract!Next
<1> QED
  BY Invariance, <1>1, <1>2, PTL DEF Spec, ImplementsReplacer, Contract!Spec
=============================================================================
