---------------------------- MODULE DiskScheduler ----------------------------
(***************************************************************************)
(* storage/disk/disk_scheduler.rs: one worker thread that owns the disk    *)
(* manager and serves an mpsc channel.  Reads and writes wait for the      *)
(* answer on a channel of their own; deletes are fire-and-forget.          *)
(*                                                                         *)
(* Dropping the scheduler closes the channel and joins the worker, which   *)
(* first serves what is still in the channel.  The drop needs exclusive    *)
(* access, so no client is waiting for an answer then.                     *)
(***************************************************************************)
EXTENDS DiskManager

CONSTANTS Client, Unallocated, NoReply,
          Done, Failed,         \* replies without data
          MaxQueue              \* bound on the channel's length (unbounded in the code)

ASSUME ContentAssumption == Unallocated \notin Value
ASSUME AnswerAssumption == NoReply \notin Value \cup {Done, Failed}

VARIABLES queue, reply,
          sender,               \* "open", then "closed", then "joined"
          worker                \* "running", then "exited"

vars == <<diskVars, queue, reply, sender, worker>>

\* The content of every page, as the slots give it.
Contents == [p \in Page |-> IF p \in DOMAIN pages THEN file[pages[p] + 1]
                                                  ELSE Unallocated]

Service == INSTANCE DiskService WITH stored <- Contents

Init ==
  /\ DiskInit
  /\ queue = <<>>
  /\ reply = [c \in Client |-> NoReply]
  /\ sender = "open"
  /\ worker = "running"

-----------------------------------------------------------------------------
(* The clients.                                                            *)

\* Variant in which a request overtakes those that are still waiting.
SendUrgent(c, request) ==
  /\ sender = "open"
  /\ ~Service!Awaiting(c)
  /\ Len(queue) < MaxQueue
  /\ queue' = <<request>> \o queue
  /\ UNCHANGED <<diskVars, reply, sender, worker>>

Send(c, request) ==
  /\ sender = "open"
  /\ ~Service!Awaiting(c)
  /\ Len(queue) < MaxQueue
  /\ queue' = Append(queue, request)
  /\ UNCHANGED <<diskVars, reply, sender, worker>>

ReadPage(c, p) == Send(c, Service!ReadRequest(c, p))
WritePage(c, p, v) == Send(c, Service!WriteRequest(c, p, v))
DeletePage(c, p) == Send(c, Service!DeleteRequest(p))

\* resp_receiver.recv() returns.
Receive(c) ==
  /\ reply[c] # NoReply
  /\ reply' = [reply EXCEPT ![c] = NoReply]
  /\ UNCHANGED <<diskVars, queue, sender, worker>>

-----------------------------------------------------------------------------
(* The worker.                                                             *)

\* receiver.recv() yields the oldest request.
Take(op) ==
  /\ worker = "running"
  /\ queue # <<>>
  /\ Head(queue).op = op
  /\ queue' = Tail(queue)
  /\ UNCHANGED <<sender, worker>>

\* Variant that drops the response channel without using it.
RespondNever(answer) == UNCHANGED reply

Respond(answer) == reply' = [reply EXCEPT ![Head(queue).client] = answer]

\* The buffer sent back to the client of a read.
Answer(p) == ReadData(p)

WorkerRead ==
  /\ Take("read")
  /\ read_page(Head(queue).page)
  /\ Respond(Answer(Head(queue).page))

WorkerWrite ==
  /\ Take("write")
  /\ write_page(Head(queue).page, Head(queue).data)
  /\ Respond(Done)

\* A PageNotFound is only logged.
WorkerDelete ==
  /\ Take("delete")
  /\ delete_page(Head(queue).page)
  /\ UNCHANGED reply

\* A read or a write that fails is answered with the error.  The failures that lose
\* a deleted slot are left out here: DiskManager!FaultySpec has them.
WorkerReadError ==
  /\ Take("read")
  /\ HarmlessError(Head(queue).page)
  /\ read_error(Head(queue).page)
  /\ Respond(Failed)

WorkerWriteError ==
  /\ Take("write")
  /\ HarmlessError(Head(queue).page)
  /\ write_error(Head(queue).page)
  /\ Respond(Failed)

\* The file cannot be grown for a page without a slot.
WorkerGrowthError ==
  /\ Take("read") \/ Take("write")
  /\ set_len_error(Head(queue).page)
  /\ Respond(Failed)

\* Variant that leaves as soon as the channel is closed.
WorkerExitEarly ==
  /\ worker = "running"
  /\ sender = "closed"
  /\ worker' = "exited"
  /\ UNCHANGED <<diskVars, queue, reply, sender>>

\* Variant that waits for the drop it is joined by.
WorkerExitAfterJoin ==
  /\ worker = "running"
  /\ sender = "joined"
  /\ worker' = "exited"
  /\ UNCHANGED <<diskVars, queue, reply, sender>>

\* recv() fails only when the channel is closed and empty.
WorkerExit ==
  /\ worker = "running"
  /\ sender = "closed"
  /\ queue = <<>>
  /\ worker' = "exited"
  /\ UNCHANGED <<diskVars, queue, reply, sender>>

Worker ==
  \/ WorkerRead \/ WorkerWrite \/ WorkerDelete
  \/ WorkerReadError \/ WorkerWriteError \/ WorkerGrowthError
  \/ WorkerExit

-----------------------------------------------------------------------------
(* Drop for DiskScheduler.                                                 *)

CloseChannel ==
  /\ sender = "open"
  /\ \A c \in Client : ~Service!Awaiting(c)
  /\ sender' = "closed"
  /\ UNCHANGED <<diskVars, queue, reply, worker>>

Join ==
  /\ sender = "closed"
  /\ worker = "exited"
  /\ sender' = "joined"
  /\ UNCHANGED <<diskVars, queue, reply, worker>>

Next ==
  \/ \E c \in Client, p \in Page :
       \/ ReadPage(c, p)
       \/ \E v \in Value : WritePage(c, p, v)
       \/ DeletePage(c, p)
  \/ \E c \in Client : Receive(c)
  \/ Worker
  \/ CloseChannel
  \/ Join

\* The worker thread and a joining thread keep running; clients need not call.
Fairness == WF_vars(Worker) /\ WF_vars(Join)

Spec == Init /\ [][Next]_vars /\ Fairness

-----------------------------------------------------------------------------
(***************************************************************************)
(* Properties                                                              *)
(***************************************************************************)

TypeOK ==
  /\ DiskTypeOK
  /\ queue \in Seq(Service!Requests)
  /\ reply \in [Client -> Value \cup {NoReply, Done, Failed}]
  /\ sender \in {"open", "closed", "joined"}
  /\ worker \in {"running", "exited"}

\* The requests in front of position i that change page p.
ChangesBefore(p, i) ==
  {k \in 1 .. i - 1 : queue[k].page = p /\ queue[k].op # "read"}

\* The content of page p after the requests in front of position i: what the last
\* change among them leaves, or what is stored.
ContentBefore(p, i) ==
  LET last == queue[Max(ChangesBefore(p, i))] IN
  IF ChangesBefore(p, i) = {} THEN Contents[p]
  ELSE IF last.op = "write" THEN last.data ELSE Unallocated

\* The content a request at position i of the channel will find for its page.
ContentAt(i) == ContentBefore(queue[i].page, i)

\* A request fails in this step.
SomeError == \E c \in Client : reply[c] # Failed /\ reply'[c] = Failed

ReadOf(c) == {i \in DOMAIN queue : queue[i].op = "read" /\ queue[i].client = c}

\* A read is answered with the last write of its page submitted before it, no
\* matter what is submitted after it or which slots the requests move through:
\* what the read will find never changes while it waits, and is what it gets.
\* (A failed write leaves its page with any content.)
ReadsSeeEarlierWrites ==
  [][\A c \in Client : \A i \in ReadOf(c) :
       ~SomeError /\ ContentAt(i) # Unallocated =>
         IF ReadOf(c)' = {} THEN reply'[c] = ContentAt(i)
         ELSE \A j \in ReadOf(c)' : ContentAt(j)' = ContentAt(i)]_vars

\* Whoever joined the worker knows that every submitted delete was executed:
\* nothing is left in the channel.
JoinedMeansDrained == sender = "joined" => queue = <<>>

\* Every read and write that was submitted is answered.
EveryRequestAnswered ==
  \A c \in Client :
    (\E i \in DOMAIN queue : queue[i].op # "delete" /\ queue[i].client = c)
      ~> reply[c] # NoReply

\* Dropping the scheduler terminates.
DropTerminates == sender = "closed" ~> sender = "joined"

\* The scheduler over the real file behaves as the service the buffer pool uses.
ImplementsDiskService == Service!ServiceSpec
=============================================================================
