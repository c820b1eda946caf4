----------------------------- MODULE DiskService -----------------------------
(***************************************************************************)
(* What the buffer pool relies on below it: requests are served one at a   *)
(* time in the order they were submitted, each page has one content, and   *)
(* a client that submitted a read or a write gets exactly one reply.       *)
(*                                                                         *)
(* DiskScheduler, with the real file below it, is shown to implement this. *)
(***************************************************************************)
EXTENDS Sequences

CONSTANTS Client,               \* threads that submit requests
          Page, Value,
          Unallocated,          \* content of a page that has no slot
          NoReply,              \* nothing in the client's response channel
          Done, Failed          \* replies without data

VARIABLES queue,                \* the mpsc channel
          stored,               \* content of every page on disk
          reply                 \* response channel of each client

serviceVars == <<queue, stored, reply>>

Requests == [op : {"read"}, client : Client, page : Page]
       \cup [op : {"write"}, client : Client, page : Page, data : Value]
       \cup [op : {"delete"}, page : Page]

ReadRequest(c, p) == [op |-> "read", client |-> c, page |-> p]
WriteRequest(c, p, v) == [op |-> "write", client |-> c, page |-> p, data |-> v]
DeleteRequest(p) == [op |-> "delete", page |-> p]

ServiceInit ==
  /\ queue = <<>>
  /\ stored = [p \in Page |-> Unallocated]
  /\ reply = [c \in Client |-> NoReply]

\* Reads and writes are submitted by a client that then blocks on its channel.
Awaiting(c) ==
  \/ reply[c] # NoReply
  \/ \E i \in DOMAIN queue : queue[i].op # "delete" /\ queue[i].client = c

Submit(r) ==
  /\ queue' = Append(queue, r)
  /\ UNCHANGED <<stored, reply>>

Collect(c) ==
  /\ reply[c] # NoReply
  /\ reply' = [reply EXCEPT ![c] = NoReply]
  /\ UNCHANGED <<queue, stored>>

NextIs(op) == queue # <<>> /\ Head(queue).op = op

\* Reading a page without a slot gives it one, whatever the slot held.
ServeRead ==
  /\ NextIs("read")
  /\ LET r == Head(queue) IN
     \E v \in IF stored[r.page] = Unallocated THEN Value ELSE {stored[r.page]} :
       /\ stored' = [stored EXCEPT ![r.page] = v]
       /\ reply' = [reply EXCEPT ![r.client] = v]
  /\ queue' = Tail(queue)

ServeWrite ==
  /\ NextIs("write")
  /\ LET r == Head(queue) IN
       /\ stored' = [stored EXCEPT ![r.page] = r.data]
       /\ reply' = [reply EXCEPT ![r.client] = Done]
  /\ queue' = Tail(queue)

\* A page that is not there is only logged.
ServeDelete ==
  /\ NextIs("delete")
  /\ stored' = [stored EXCEPT ![Head(queue).page] = Unallocated]
  /\ queue' = Tail(queue)
  /\ UNCHANGED reply

\* Variant that forgets to tell the client.
ServeErrorSilently ==
  /\ NextIs("read") \/ NextIs("write")
  /\ queue' = Tail(queue)
  /\ UNCHANGED <<stored, reply>>

\* A read or a write that meets an I/O error.  A write may have reached the
\* file in part, if the page has a slot.
ServeError ==
  /\ NextIs("read") \/ NextIs("write")
  /\ LET r == Head(queue) IN
       /\ reply' = [reply EXCEPT ![r.client] = Failed]
       /\ \/ UNCHANGED stored
          \/ /\ r.op = "write"
             /\ stored[r.page] # Unallocated
             /\ \E v \in Value : stored' = [stored EXCEPT ![r.page] = v]
  /\ queue' = Tail(queue)

Serve == ServeRead \/ ServeWrite \/ ServeDelete \/ ServeError

ServiceNext ==
  \/ \E c \in Client, p \in Page :
       /\ ~Awaiting(c)
       /\ \/ Submit(ReadRequest(c, p))
          \/ \E v \in Value : Submit(WriteRequest(c, p, v))
          \/ Submit(DeleteRequest(p))
  \/ \E c \in Client : Collect(c)
  \/ Serve

ServiceSpec == ServiceInit /\ [][ServiceNext]_serviceVars
=============================================================================
