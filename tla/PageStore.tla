------------------------------ MODULE PageStore ------------------------------
(***************************************************************************)
(* What the buffer pool promises to its callers, without frames, pins,     *)
(* eviction or a disk: every page has one content, threads open pages for  *)
(* reading together or for writing alone, only the thread that has a page  *)
(* open for writing changes it, and nothing else ever does until the page  *)
(* is deleted.                                                             *)
(***************************************************************************)
CONSTANTS Thread, Page, Value,
          Undefined             \* content of a page nobody used yet, or deleted

VARIABLES content, open, retired

storeVars == <<content, open, retired>>

Init ==
  /\ content = [p \in Page |-> Undefined]
  /\ open = {}
  /\ retired = {}

\* The first use of a page fixes its content, to something.
Create(p, v) ==
  /\ content[p] = Undefined
  /\ p \notin retired
  /\ content' = [content EXCEPT ![p] = v]
  /\ UNCHANGED <<open, retired>>

OpenOf(p) == {o \in open : o.page = p}

Open(t, p, mode) ==
  /\ mode = "write" => OpenOf(p) = {}
  /\ \A o \in OpenOf(p) : o.mode = "read" /\ o.owner # t
  /\ p \notin retired => content[p] # Undefined
  /\ open' = open \cup {[owner |-> t, page |-> p, mode |-> mode]}
  /\ UNCHANGED <<content, retired>>

Write(t, p, v) ==
  /\ [owner |-> t, page |-> p, mode |-> "write"] \in open
  /\ content' = [content EXCEPT ![p] = v]
  /\ UNCHANGED <<open, retired>>

Close(o) ==
  /\ o \in open
  /\ open' = open \ {o}
  /\ UNCHANGED <<content, retired>>

Delete(p) ==
  /\ OpenOf(p) = {}
  /\ p \notin retired
  /\ content' = [content EXCEPT ![p] = Undefined]
  /\ retired' = retired \cup {p}
  /\ UNCHANGED open

Next ==
  \/ \E p \in Page :
       \/ Delete(p)
       \/ \E v \in Value : Create(p, v)
       \/ \E t \in Thread :
            \/ \E mode \in {"read", "write"} : Open(t, p, mode)
            \/ \E v \in Value : Write(t, p, v)
  \/ \E o \in open : Close(o)

Spec == Init /\ [][Next]_storeVars
=============================================================================
