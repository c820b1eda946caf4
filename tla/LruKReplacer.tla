---------------------------- MODULE LruKReplacer ----------------------------
(***************************************************************************)
(* The LRU-K replacement policy of buffer/replacer/lru_k_replacer.rs.      *)
(*                                                                         *)
(* nodes is a partial function from the tracked frames to their last k     *)
(* access times.  accesses is a history variable: every access time of a   *)
(* tracked frame since it was last forgotten.  The policy is stated on     *)
(* accesses, as the module's header comment states it, and the code works  *)
(* on the truncated histories.                                             *)
(***************************************************************************)
EXTENDS Integers, Sequences, FiniteSets

CONSTANTS Frame,            \* frame ids below replacer_size
          k,                \* length of the histories
          MaxTime           \* bound on current_timestamp (usize in the code)

ASSUME KAssumption == k \in Nat \ {0}
ASSUME FrameAssumption == IsFiniteSet(Frame)

VARIABLES nodes, current_timestamp, curr_size, accesses

vars == <<nodes, current_timestamp, curr_size, accesses>>

Node == [history : Seq(Nat \ {0}), is_evictable : BOOLEAN]

\* f with x mapped to y, whether x was in its domain or not
Put(f, x, y) == [z \in DOMAIN f \cup {x} |-> IF z = x THEN y ELSE f[z]]
Drop(f, x) == [z \in DOMAIN f \ {x} |-> f[z]]

Init ==
  /\ nodes = [f \in {} |-> [history |-> <<>>, is_evictable |-> FALSE]]
  /\ current_timestamp = 0
  /\ curr_size = 0
  /\ accesses = [f \in {} |-> <<>>]

\* The node a frame has, or the one record_access creates for it.
NodeOf(f) == IF f \in DOMAIN nodes
             THEN nodes[f]
             ELSE [history |-> <<>>, is_evictable |-> FALSE]

\* A history at its capacity loses its oldest entry.
Push(history, t) ==
  Append(IF Len(history) + 1 > k THEN Tail(history) ELSE history, t)

record_access(f) ==
  /\ current_timestamp < MaxTime
  /\ current_timestamp' = current_timestamp + 1
  /\ nodes' = Put(nodes, f, [NodeOf(f) EXCEPT
                               !.history = Push(@, current_timestamp')])
  /\ accesses' = Put(accesses, f,
                     Append(IF f \in DOMAIN accesses THEN accesses[f] ELSE <<>>,
                            current_timestamp'))
  /\ UNCHANGED curr_size

\* Variant that forgets to compare with the old flag: a repeated call counts twice.
set_evictable_uncompared(f, evictable) ==
  /\ f \in DOMAIN nodes
  /\ nodes' = [nodes EXCEPT ![f].is_evictable = evictable]
  /\ curr_size' = IF evictable THEN curr_size + 1 ELSE curr_size - 1
  /\ UNCHANGED <<current_timestamp, accesses>>

\* Panics on an untracked frame, so that callers never name one.
set_evictable(f, evictable) ==
  /\ f \in DOMAIN nodes
  /\ IF nodes[f].is_evictable # evictable
     THEN /\ nodes' = [nodes EXCEPT ![f].is_evictable = evictable]
          /\ curr_size' = IF evictable THEN curr_size + 1 ELSE curr_size - 1
     ELSE UNCHANGED <<nodes, curr_size>>
  /\ UNCHANGED <<current_timestamp, accesses>>

EvictableNodes == {f \in DOMAIN nodes : nodes[f].is_evictable}

\* Variant that is plain LRU: the latest access decides for every frame.
SortsBeforeLru(f, g) ==
  nodes[f].history[Len(nodes[f].history)] <= nodes[g].history[Len(nodes[g].history)]

\* The order of min_by_key: frames with a short history first, by their last
\* access, then the others by their k-th last access.
SortsBefore(f, g) ==
  LET short(h) == Len(nodes[h].history) < k
      stamp(h) == IF short(h)
                  THEN nodes[h].history[Len(nodes[h].history)]
                  ELSE nodes[h].history[1]
  IN  \/ short(f) /\ ~short(g)
      \/ (short(f) <=> short(g)) /\ stamp(f) <= stamp(g)

Victims == {f \in EvictableNodes : \A g \in EvictableNodes : SortsBefore(f, g)}

Forget(f) ==
  /\ nodes' = Drop(nodes, f)
  /\ accesses' = Drop(accesses, f)
  /\ curr_size' = curr_size - 1
  /\ UNCHANGED current_timestamp

evict == \E f \in Victims : Forget(f)

\* Variant without the is_evictable check.
remove_unchecked(f) ==
  /\ f \in DOMAIN nodes
  /\ Forget(f)

\* Panics on a frame that is untracked or not evictable.
remove(f) ==
  /\ f \in EvictableNodes
  /\ Forget(f)

Next ==
  \/ \E f \in Frame : record_access(f) \/ remove(f)
  \/ \E f \in Frame, evictable \in BOOLEAN : set_evictable(f, evictable)
  \/ evict

Spec == Init /\ [][Next]_vars

-----------------------------------------------------------------------------
(***************************************************************************)
(* Properties                                                              *)
(***************************************************************************)

\* Types.  A tracked frame has between one and k access times, so that evict's
\* history.last().unwrap() and history[0] are defined.
TypeOK ==
  /\ current_timestamp \in Nat
  /\ curr_size \in Nat
  /\ DOMAIN nodes \subseteq Frame
  /\ \A f \in DOMAIN nodes :
       /\ nodes[f] \in Node
       /\ Len(nodes[f].history) \in 1 .. k

\* size(), kept incrementally by set_evictable, evict and remove, is the number
\* of evictable frames, whatever the order of the calls.
CurrSizeCountsEvictable == curr_size = Cardinality(EvictableNodes)

\* Backward k-distance over the whole access log, infinite (TRUE) when the
\* frame has fewer than k accesses.
InfiniteDistance(f) == Len(accesses[f]) < k
KthLast(f) == accesses[f][Len(accesses[f]) - k + 1]
KDistance(f) == current_timestamp - KthLast(f)
LastAccess(f) == accesses[f][Len(accesses[f])]

\* The frame evict picks is the one the header comment of the module describes:
\* of all evictable frames it has the largest backward k-distance, and among
\* those at infinite distance it is the least recently used.
VictimHasLargestKDistance ==
  \A v \in Victims : \A g \in EvictableNodes :
    IF InfiniteDistance(g)
    THEN InfiniteDistance(v) /\ LastAccess(v) <= LastAccess(g)
    ELSE InfiniteDistance(v) \/ KDistance(v) >= KDistance(g)

\* evict returns a frame exactly when size() says one is evictable, and the
\* HashMap's iteration order never decides which.
VictimIsUnique == Cardinality(Victims) = IF curr_size = 0 THEN 0 ELSE 1

\* The policy implements the contract the buffer pool relies on.
Contract == INSTANCE Replacer WITH
  replacer <- [tracked |-> DOMAIN nodes, evictable |-> EvictableNodes]

ImplementsReplacer == Contract!Spec
=============================================================================
