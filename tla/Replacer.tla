------------------------------ MODULE Replacer ------------------------------
(***************************************************************************)
(* The contract of trait Replacer (buffer/replacer/replacer.rs): a set of  *)
(* tracked frames, some of them evictable.  The buffer pool is modelled    *)
(* against this contract; LruKReplacer is shown to implement it.           *)
(*                                                                         *)
(* A replacer is a value, and its methods are operators from a replacer    *)
(* to a replacer, so that a caller can make several calls in one step.     *)
(***************************************************************************)
EXTENDS FiniteSets

CONSTANT Frame              \* the frames 0 .. pool_size - 1

VARIABLE replacer           \* [tracked, evictable]

Replacers == {r \in [tracked : SUBSET Frame, evictable : SUBSET Frame] :
                r.evictable \subseteq r.tracked}

Empty == [tracked |-> {}, evictable |-> {}]

record_access(r, f) == [r EXCEPT !.tracked = @ \cup {f}]

\* Callers may only name a tracked frame: the code panics on any other.
set_evictable(r, f, evictable) ==
  [r EXCEPT !.evictable = IF evictable THEN @ \cup {f} ELSE @ \ {f}]

\* remove() and evict() forget the frame altogether.
forget(r, f) == [tracked |-> r.tracked \ {f}, evictable |-> r.evictable \ {f}]

size(r) == Cardinality(r.evictable)

-----------------------------------------------------------------------------
Init == replacer = Empty

RecordAccess(f) == replacer' = record_access(replacer, f)

SetEvictable(f, evictable) ==
  /\ f \in replacer.tracked
  /\ replacer' = set_evictable(replacer, f, evictable)

\* Which evictable frame is chosen is the policy's business.
Evict == \E f \in replacer.evictable : replacer' = forget(replacer, f)

Remove(f) ==
  /\ f \in replacer.evictable
  /\ replacer' = forget(replacer, f)

Next ==
  \/ \E f \in Frame : RecordAccess(f) \/ Remove(f)
  \/ \E f \in Frame, evictable \in BOOLEAN : SetEvictable(f, evictable)
  \/ Evict

Spec == Init /\ [][Next]_replacer
=============================================================================
