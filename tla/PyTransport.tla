----------------------------- MODULE PyTransport -----------------------------
(***************************************************************************)
(* The Python SDK's event path: HttpTransport in                           *)
(* sdk/python/resolvetrace/transport.py with ResolveTraceClient.flush() and *)
(* shutdown() in client.py.  There is no timer: events leave only when the *)
(* application awaits flush() or shutdown().  Any number of such calls run *)
(* as tasks of one event loop; an asyncio lock, first come first served,   *)
(* lets one at a time drain the queue.                                     *)
(*                                                                         *)
(* One action is what a task runs between two awaits.  The server is       *)
(* external: it answers with any outcome the code tells apart.             *)
(*                                                                         *)
(* Left out: the metrics and the error callback, which nothing reads back; *)
(* what session.shutdown() does (see PySession); cancelled tasks.          *)
(***************************************************************************)
EXTENDS Integers, Sequences

CONSTANTS
  MAX_BATCH_EVENTS,         \* 100 in the code
  MAX_BATCH_BYTES,          \* 512 KiB
  MAX_QUEUE_EVENTS,         \* 5000
  MAX_QUEUE_BYTES,          \* 20 MiB
  ResumeNum, ResumeDen,     \* RESUME_FRACTION = ResumeNum / ResumeDen
  MAX_RETRIES,              \* 5
  Size,                     \* sizes in bytes an encoded envelope may have
  Call,                     \* bound: flush() and shutdown() calls under way
  MaxAccepted               \* bound: number of events accepted

ASSUME PyTransportAssumption ==
  /\ MAX_BATCH_EVENTS \in Nat \ {0}
  /\ MAX_BATCH_BYTES \in Nat \ {0}
  /\ MAX_QUEUE_EVENTS \in Nat \ {0}
  /\ MAX_QUEUE_BYTES \in Nat \ {0}
  /\ ResumeNum \in Nat
  /\ ResumeDen \in Nat \ {0}
  /\ ResumeNum < ResumeDen
  /\ MAX_RETRIES \in Nat
  /\ Size \subseteq Nat \ {0}
  /\ MaxAccepted \in Nat

VARIABLES
  tr,                       \* the transport: queue, flags, lock, batch in flight
  calls,                    \* the flush() and shutdown() calls
  (* Observability *)
  accepted,                 \* number of events accepted
  posted,                   \* events 1..posted have been in a POST
  delivered, lost           \* events answered 2xx / given up

fates == <<delivered, lost>>
vars == <<tr, calls, accepted, posted, fates>>

-----------------------------------------------------------------------------
(* A slot's offset is the sum of the sizes of the events accepted before   *)
(* it, so that the sum of the sizes of a run of slots is a difference.     *)
Slot == [id : Nat \ {0}, offset : Nat, bytes : 1..MAX_BATCH_BYTES]

End(slot) == slot.offset + slot.bytes

BytesOf(slots) ==
  IF slots = <<>> THEN 0 ELSE End(slots[Len(slots)]) - slots[1].offset

IdsOf(slots) == {slots[i].id : i \in DOMAIN slots}

First(slots, n) == SubSeq(slots, 1, n)
Rest(slots, n) == SubSeq(slots, n + 1, Len(slots))

OverCaps(queue) ==
  \/ Len(queue) >= MAX_QUEUE_EVENTS
  \/ BytesOf(queue) >= MAX_QUEUE_BYTES

UnderResumeBand(queue) ==
  /\ Len(queue) * ResumeDen <= ResumeNum * MAX_QUEUE_EVENTS
  /\ BytesOf(queue) * ResumeDen <= ResumeNum * MAX_QUEUE_BYTES

(* _take_batch() and _drop_head_batch() pop the first n slots.             *)
Fits(slots, n) ==
  /\ n <= MAX_BATCH_EVENTS
  /\ BytesOf(First(slots, n)) <= MAX_BATCH_BYTES

BatchLength(slots, n) ==
  /\ n \in 1..Len(slots)
  /\ \A i \in 1..n : Fits(slots, i)
  /\ n < Len(slots) => ~Fits(slots, n + 1)

-----------------------------------------------------------------------------
(* `lock` is the queue of the calls that want the flush lock; the first one *)
(* holds it, and the batch in flight is its own.                           *)
Transport == [queue : Seq(Slot), paused : BOOLEAN, closed : BOOLEAN,
              lock : Seq(Call), batch : Seq(Slot)]

(* A call waits for the lock, for the answer to a batch, for a backoff, or *)
(* for the answer to the session-start of the recovery.  It is in the first *)
(* transport flush of client.flush(), in the one after the recovery, or in *)
(* the one made by the transport's own shutdown().                         *)
Activation == [pc : {"idle", "lock", "wire", "backoff", "start"},
               kind : {"flush", "shutdown"},
               stage : {"first", "retry", "last"},
               attempt : 0..MAX_RETRIES]

Idle == [pc |-> "idle", kind |-> "flush", stage |-> "first", attempt |-> 0]

NewCall(kind) == [Idle EXCEPT !.kind = kind]

(* Leaving `async with self._flush_lock`.                                  *)
Release(t) == [t EXCEPT !.lock = Tail(@), !.batch = <<>>]

SetCall(c, a) == calls' = [calls EXCEPT ![c] = a]

(* c, whose record is a, holds the lock of t and posts the next batch.     *)
PostBatch(c, a, t) ==
  \E n \in 1..Len(t.queue) :
    /\ BatchLength(t.queue, n)
    /\ tr' = [t EXCEPT !.queue = Rest(@, n), !.batch = First(t.queue, n)]
    /\ SetCall(c, [a EXCEPT !.pc = "wire", !.attempt = 0])
    /\ posted' = IF posted > t.queue[n].id THEN posted ELSE t.queue[n].id

Closes(c, t) ==
  /\ tr' = [t EXCEPT !.closed = TRUE]
  /\ SetCall(c, Idle)
  /\ UNCHANGED posted

(* client.shutdown() goes on to the transport's shutdown(), whose own flush *)
(* waits for the lock, finds nothing to send, or posts a batch.            *)
TransportShutdown(c, t) ==
  LET a == [NewCall("shutdown") EXCEPT !.stage = "last"]
  IN  \/ /\ t.closed
         /\ tr' = t
         /\ SetCall(c, Idle)
         /\ UNCHANGED posted
      \/ /\ ~t.closed
         /\ t.lock # <<>>
         /\ tr' = [t EXCEPT !.lock = Append(@, c)]
         /\ SetCall(c, [a EXCEPT !.pc = "lock"])
         /\ UNCHANGED posted
      \/ /\ ~t.closed
         /\ t.lock = <<>>
         /\ t.queue = <<>>
         /\ Closes(c, t)
      \/ /\ ~t.closed
         /\ t.lock = <<>>
         /\ t.queue # <<>>
         /\ PostBatch(c, a, [t EXCEPT !.lock = <<c>>])

(* Mutant of FlushEnds: shutdown() does not close in a finally block.       *)
FlushEndsWithoutFinally(c, a, t) ==
  \/ /\ a.kind = "flush" \/ a.stage = "last"
     /\ tr' = t
     /\ SetCall(c, Idle)
     /\ UNCHANGED posted
  \/ /\ a.kind = "shutdown"
     /\ a.stage # "last"
     /\ TransportShutdown(c, t)

(* The transport's flush() is over for call c, with or without an          *)
(* exception other than SessionUnknownError: client.flush() is over too,   *)
(* client.shutdown() swallows it and goes on, and the transport's          *)
(* shutdown() closes in its finally block.                                 *)
FlushEnds(c, a, t) ==
  \/ /\ a.kind = "flush"
     /\ tr' = t
     /\ SetCall(c, Idle)
     /\ UNCHANGED posted
  \/ /\ a.kind = "shutdown"
     /\ a.stage # "last"
     /\ TransportShutdown(c, t)
  \/ /\ a.stage = "last"
     /\ Closes(c, t)

(* One turn of the while loop of flush() by the holder of the lock.  A     *)
(* flush that waited for the lock while the transport was closed takes a   *)
(* batch and fails on the closed HTTP client.                              *)
FlushLoop(c, a, t) ==
  \/ /\ t.queue = <<>>
     /\ FlushEnds(c, a, Release(t))
     /\ UNCHANGED lost
  \/ /\ t.queue # <<>>
     /\ ~t.closed
     /\ PostBatch(c, a, t)
     /\ UNCHANGED lost
  \/ /\ t.closed
     /\ \E n \in 1..Len(t.queue) :
          /\ BatchLength(t.queue, n)
          /\ lost' = lost \cup IdsOf(First(t.queue, n))
          /\ FlushEnds(c, a, Release([t EXCEPT !.queue = Rest(@, n)]))

(* The transport's flush(), called by c.                                   *)
TransportFlush(c, a) ==
  \/ /\ tr.closed
     /\ FlushEnds(c, a, tr)
     /\ UNCHANGED lost
  \/ /\ ~tr.closed
     /\ tr.lock # <<>>
     /\ tr' = [tr EXCEPT !.lock = Append(@, c)]
     /\ SetCall(c, [a EXCEPT !.pc = "lock"])
     /\ UNCHANGED <<posted, lost>>
  \/ /\ ~tr.closed
     /\ tr.lock = <<>>
     /\ FlushLoop(c, a, [tr EXCEPT !.lock = <<c>>])

-----------------------------------------------------------------------------
Init ==
  /\ tr = [queue |-> <<>>, paused |-> FALSE, closed |-> FALSE,
           lock |-> <<>>, batch |-> <<>>]
  /\ calls = [c \in Call |-> Idle]
  /\ accepted = 0
  /\ posted = 0
  /\ delivered = {}
  /\ lost = {}

(* Mutant of Refuses: the caps are compared with a strict inequality.      *)
RefusesLate ==
  /\ \/ tr.paused
     \/ Len(tr.queue) > MAX_QUEUE_EVENTS
     \/ BytesOf(tr.queue) > MAX_QUEUE_BYTES
  /\ ~UnderResumeBand(tr.queue)

(* The caps are compared before the event is appended; a refusal latches   *)
(* `_paused`, and the next enqueue under the resume band lifts it.         *)
Refuses == (tr.paused \/ OverCaps(tr.queue)) /\ ~UnderResumeBand(tr.queue)

(* The offset of a new slot: the end of the last one accepted that is still *)
(* queued or in flight.                                                    *)
NextOffset ==
  LET kept == tr.batch \o tr.queue
  IN  IF kept = <<>> THEN 0 ELSE End(kept[Len(kept)])

(* enqueue(): it does nothing on a closed transport or for an event larger *)
(* than a batch.                                                           *)
Enqueue(bytes) ==
  /\ ~tr.closed
  /\ bytes <= MAX_BATCH_BYTES
  /\ \/ /\ Refuses
        /\ tr' = [tr EXCEPT !.paused = TRUE]
        /\ UNCHANGED accepted
     \/ /\ ~Refuses
        /\ accepted < MaxAccepted
        /\ tr' = [tr EXCEPT
                    !.paused = FALSE,
                    !.queue = Append(@, [id |-> accepted + 1,
                                         offset |-> NextOffset,
                                         bytes |-> bytes])]
        /\ accepted' = accepted + 1
  /\ UNCHANGED <<calls, posted, fates>>

(* client.flush() and client.shutdown() begin alike.                       *)
CallFlush(c, kind) ==
  /\ calls[c].pc = "idle"
  /\ TransportFlush(c, NewCall(kind))
  /\ UNCHANGED <<accepted, delivered>>

(* The lock is handed to the call that has waited longest.                 *)
LockAcquired(c) ==
  /\ calls[c].pc = "lock"
  /\ Head(tr.lock) = c
  /\ FlushLoop(c, calls[c], tr)
  /\ UNCHANGED <<accepted, delivered>>

(* A batch was answered below 300: intake resumes if it may, and the loop  *)
(* goes on.                                                                *)
AnswerAccepted(c) ==
  /\ calls[c].pc = "wire"
  /\ delivered' = delivered \cup IdsOf(tr.batch)
  /\ FlushLoop(c, calls[c],
               [tr EXCEPT !.batch = <<>>,
                          !.paused = @ /\ ~UnderResumeBand(tr.queue)])
  /\ UNCHANGED accepted

RetriesLeft(c) == calls[c].attempt < MAX_RETRIES

(* Mutant of AnswerRetryable: failures are not counted. *)
AnswerRetryableForever(c) ==
  /\ calls[c].pc = "wire"
  /\ SetCall(c, [calls[c] EXCEPT !.pc = "backoff"])
  /\ UNCHANGED <<tr, accepted, posted, fates>>

(* A retryable status or a network error with a retry left.                *)
AnswerRetryable(c) ==
  /\ calls[c].pc = "wire"
  /\ RetriesLeft(c)
  /\ SetCall(c, [calls[c] EXCEPT !.pc = "backoff", !.attempt = @ + 1])
  /\ UNCHANGED <<tr, accepted, posted, fates>>

BackoffElapses(c) ==
  /\ calls[c].pc = "backoff"
  /\ SetCall(c, [calls[c] EXCEPT !.pc = "wire"])
  /\ UNCHANGED <<tr, accepted, posted, fates>>

(* Retries exhausted, or any other status: TransportError, and the batch,  *)
(* already off the queue, is gone.                                         *)
AnswerTerminal(c) ==
  /\ calls[c].pc = "wire"
  /\ lost' = lost \cup IdsOf(tr.batch)
  /\ FlushEnds(c, calls[c], Release(tr))
  /\ UNCHANGED <<accepted, delivered>>

(* Mutant of Requeued: the rejected batch goes behind the events queued    *)
(* while it was in flight.                                                 *)
RequeuedBehind == Release([tr EXCEPT !.queue = @ \o tr.batch])

(* The rejected batch goes back to the head of the queue.                  *)
Requeued == Release([tr EXCEPT !.queue = tr.batch \o @])

(* client.flush() after a second session_unknown: _drop_head_batch() pops  *)
(* a batch's worth from the head of the queue as it is now.                *)
DropHeadBatch(c, t) ==
  \E n \in 1..Len(t.queue) :
    /\ BatchLength(t.queue, n)
    /\ lost' = lost \cup IdsOf(First(t.queue, n))
    /\ FlushEnds(c, calls[c], [t EXCEPT !.queue = Rest(@, n)])

(* 409 session_unknown: the first time client.flush() re-issues the session *)
(* start, if there is a session; the second time it drops.  In the          *)
(* transport's own shutdown() the error goes to the application.            *)
AnswerSessionUnknown(c) ==
  /\ calls[c].pc = "wire"
  /\ \/ /\ calls[c].stage = "first"
        /\ tr' = Requeued
        /\ SetCall(c, [calls[c] EXCEPT !.pc = "start"])
        /\ UNCHANGED <<posted, lost>>
     \/ /\ calls[c].stage # "retry"
        /\ FlushEnds(c, calls[c], Requeued)
        /\ UNCHANGED lost
     \/ /\ calls[c].stage = "retry"
        /\ DropHeadBatch(c, Requeued)
  /\ UNCHANGED <<accepted, delivered>>

(* The recovery's session-start was accepted: flush once more.             *)
StartAccepted(c) ==
  /\ calls[c].pc = "start"
  /\ ~tr.closed
  /\ TransportFlush(c, [calls[c] EXCEPT !.stage = "retry"])
  /\ UNCHANGED <<accepted, delivered>>

(* It was refused, or the HTTP client is closed: client.flush() raises.    *)
StartFails(c) ==
  /\ calls[c].pc = "start"
  /\ FlushEnds(c, calls[c], tr)
  /\ UNCHANGED <<accepted, fates>>

Answer(c) ==
  \/ AnswerAccepted(c)
  \/ AnswerRetryable(c)
  \/ AnswerTerminal(c)
  \/ AnswerSessionUnknown(c)

StartSettles(c) == StartAccepted(c) \/ StartFails(c)

Next ==
  \/ \E bytes \in Size : Enqueue(bytes)
  \/ \E c \in Call : \/ \E kind \in {"flush", "shutdown"} : CallFlush(c, kind)
                     \/ LockAcquired(c)
                     \/ Answer(c)
                     \/ BackoffElapses(c)
                     \/ StartSettles(c)

(* Every request is answered or times out (the HTTP client has a 30 s      *)
(* timeout), sleeps end, and the lock wakes its first waiter.              *)
Fairness ==
  \A c \in Call : /\ WF_vars(LockAcquired(c))
                  /\ WF_vars(Answer(c))
                  /\ WF_vars(BackoffElapses(c))
                  /\ WF_vars(StartSettles(c))

Spec == Init /\ [][Next]_vars

FairSpec == Spec /\ Fairness

-----------------------------------------------------------------------------
(* Properties                                                              *)

TypeOK ==
  /\ tr \in Transport
  /\ calls \in [Call -> Activation]
  /\ accepted \in Nat
  /\ posted \in Nat
  /\ delivered \in SUBSET (Nat \ {0})
  /\ lost \in SUBSET (Nat \ {0})

pipeline == tr.batch \o tr.queue
settled == accepted - Len(pipeline)

(* A rejected batch keeps its place: the batch in flight followed by the   *)
(* queue is always the run of the youngest accepted events, in order, and  *)
(* every older event has exactly one fate, however enqueue() and several   *)
(* flush() calls interleave with rejections (transport.py:147-184,         *)
(* 186-206, 235-246).                                                      *)
PipelineInOrder ==
  /\ settled >= 0
  /\ \A i \in 1..Len(pipeline) : pipeline[i].id = settled + i
  /\ delivered \cup lost = 1..settled
  /\ delivered \cap lost = {}

(* The ceiling is soft, and this is how soft: the caps are tested before   *)
(* an event is added, and a rejected batch is put back on top of a queue   *)
(* that has refilled (transport.py:134-140, 171-175).                      *)
QueueBounded ==
  /\ Len(pipeline) <= MAX_QUEUE_EVENTS + MAX_BATCH_EVENTS
  /\ BytesOf(pipeline) < MAX_QUEUE_BYTES + 2 * MAX_BATCH_BYTES

(* The flush lock is exclusive and never leaked: the calls that hold it or *)
(* wait for it are exactly those inside the transport's flush(), each once, *)
(* and only the holder has a batch on the wire, whichever exception ended  *)
(* the others (transport.py:157-184, client.py:195-232).                   *)
LockDiscipline ==
  /\ \A i, j \in 1..Len(tr.lock) : tr.lock[i] = tr.lock[j] => i = j
  /\ \A c \in Call : (\E i \in 1..Len(tr.lock) : tr.lock[i] = c)
                     <=> calls[c].pc \in {"lock", "wire", "backoff"}
  /\ \A i \in 1..Len(tr.lock) :
       calls[tr.lock[i]].pc \in {"wire", "backoff"} => i = 1 /\ tr.batch # <<>>

(* A shutdown() call that has returned leaves the transport closed, even   *)
(* when the last batch was rejected and the error goes to the application, *)
(* and even when another shutdown() overtook it (transport.py:208-217,     *)
(* client.py:225-232).                                                     *)
ShutdownCloses ==
  [][\A c \in Call :
        calls[c].kind = "shutdown" /\ calls[c].pc # "idle" /\ calls'[c].pc = "idle"
          => tr'.closed]_vars

(* Every flush() and shutdown() call returns, whatever the server answers  *)
(* and whoever holds the lock (transport.py:147-184, 248-331).             *)
CallsReturn == \A c \in Call : (calls[c].pc # "idle") ~> (calls[c].pc = "idle")

-----------------------------------------------------------------------------
(* What a docstring says, and the code does not do.                        *)

(* client.py:191-192: after a second 409 "the offending batch is dropped". *)
(* So, while the transport is open, no event is given up that no request   *)
(* ever carried.                                                           *)
OnlyPostedEventsAreDropped == ~tr.closed => \A e \in lost : e <= posted

=============================================================================
