------------------------------ MODULE Transport ------------------------------
(***************************************************************************)
(* The TypeScript SDK's event transport, src/sdk/typescript/src/           *)
(* transport.ts (class Transport): the bounded in-memory queue, size and   *)
(* interval flush triggers, the flush loops that chain behind one batch in *)
(* flight, retry with a bounded number of attempts, the one-shot           *)
(* `session_unknown` recovery, back-pressure with hysteresis, shutdown.    *)
(*                                                                         *)
(* JavaScript runs to completion: one action is what runs between two      *)
(* awaits.  The network and the session-start hook are external: they      *)
(* answer, with any outcome the code tells apart.                          *)
(*                                                                         *)
(* Left out: lastError and the onError/debug reporting, the FlushResult's  *)
(* sent/dropped totals, `keepalive`, and scrubOverflowCount.               *)
(***************************************************************************)
EXTENDS Integers, Sequences

CONSTANTS
  MAX_BATCH_EVENTS,         \* 100 in the code
  MAX_BATCH_BYTES,          \* 512 KiB
  MAX_SINGLE_EVENT_BYTES,   \* 256 KiB
  MaxQueueEvents,           \* 500 in a browser, 5000 in Node
  MaxQueueBytes,            \* 2 MiB, 20 MiB
  ResumeNum, ResumeDen,     \* QUEUE_RESUME_FRACTION = ResumeNum / ResumeDen
  RETRY_MAX_ATTEMPTS,       \* 5
  Size,                     \* sizes in bytes an envelope may have
  Call,                     \* bound: flush() activations alive at one time
  MaxCaptures               \* bound: number of enqueue() calls

ASSUME TransportAssumption ==
  /\ MAX_BATCH_EVENTS \in Nat \ {0}
  /\ MAX_BATCH_BYTES \in Nat
  /\ MAX_SINGLE_EVENT_BYTES \in 1..MAX_BATCH_BYTES
  /\ MaxQueueEvents \in Nat \ {0}
  /\ MaxQueueBytes \in Nat
  /\ MAX_BATCH_BYTES <= MaxQueueBytes
  /\ ResumeNum \in Nat
  /\ ResumeDen \in Nat \ {0}
  /\ RETRY_MAX_ATTEMPTS \in Nat
  /\ Size \subseteq Nat \ {0}
  /\ MaxCaptures \in Nat

VARIABLES
  buf,                      \* the queue and the fields that move with it
  shutdownRequested,
  counters,                 \* what getDiagnostics() reports
  post,                     \* the batch in flight (flushInFlight), or NoPost
  calls,                    \* the flush() activations
  (* Observability: what happened to each event. *)
  captured,                 \* number of enqueue() calls
  delivered, lost           \* events whose batch was acknowledged / given up

history == <<captured, delivered, lost>>
vars == <<buf, shutdownRequested, counters, post, calls, history>>

-----------------------------------------------------------------------------
(* Queue slots and batches.  A slot's offset is the sum of the sizes of the *)
(* slots queued before it since the queue was last empty, so that the sum   *)
(* of the sizes of a run of consecutive slots is a difference.              *)

Slot == [id : Nat \ {0}, offset : Nat, bytes : 1..MAX_SINGLE_EVENT_BYTES]

End(slot) == slot.offset + slot.bytes

BytesOf(slots) ==
  IF slots = <<>> THEN 0 ELSE End(slots[Len(slots)]) - slots[1].offset

IdsOf(slots) == {slots[i].id : i \in DOMAIN slots}

Buffer == [queue : Seq(Slot), queueBytes : Int, backpressured : BOOLEAN,
           oldestEventAt : BOOLEAN,     \* oldestEventAtMs is not null
           flushTimer : BOOLEAN]        \* the interval timer is armed

(* While the queue is back-pressured it resumes once both axes are at or   *)
(* below the resume fraction.                                              *)
UpdateHysteresis(b) ==
  IF /\ Len(b.queue) * ResumeDen <= ResumeNum * MaxQueueEvents
     /\ b.queueBytes * ResumeDen <= ResumeNum * MaxQueueBytes
  THEN [b EXCEPT !.backpressured = FALSE]
  ELSE b

(* Mutant of Fits: the count cap is off by one. *)
FitsOneMore(slots, n) ==
  /\ n <= MAX_BATCH_EVENTS + 1
  /\ n = 1 \/ BytesOf(SubSeq(slots, 1, n)) <= MAX_BATCH_BYTES

(* takeBatch() shifts events until the next one would make the batch too   *)
(* long or too large; the first event always goes.                         *)
Fits(slots, n) ==
  /\ n <= MAX_BATCH_EVENTS
  /\ n = 1 \/ BytesOf(SubSeq(slots, 1, n)) <= MAX_BATCH_BYTES

BatchLength(slots, n) ==
  /\ n \in 1..Len(slots)
  /\ \A i \in 1..n : Fits(slots, i)
  /\ n < Len(slots) => ~Fits(slots, n + 1)

(* Mutants of TakeBatch: oldestEventAtMs is not reset when the queue is    *)
(* emptied; back-pressure is not reconsidered.                             *)
TakeBatchKeepsOldest(b, n) ==
  LET rest == SubSeq(b.queue, n + 1, Len(b.queue))
  IN  UpdateHysteresis(
        [b EXCEPT !.queue = rest,
                  !.queueBytes = @ - BytesOf(SubSeq(b.queue, 1, n)),
                  !.flushTimer = @ /\ rest # <<>>])

TakeBatchKeepsBackpressure(b, n) ==
  LET rest == SubSeq(b.queue, n + 1, Len(b.queue))
  IN  [b EXCEPT !.queue = rest,
                !.queueBytes = @ - BytesOf(SubSeq(b.queue, 1, n)),
                !.oldestEventAt = @ /\ rest # <<>>,
                !.flushTimer = @ /\ rest # <<>>]

TakeBatch(b, n) ==
  LET rest == SubSeq(b.queue, n + 1, Len(b.queue))
  IN  UpdateHysteresis(
        [b EXCEPT !.queue = rest,
                  !.queueBytes = @ - BytesOf(SubSeq(b.queue, 1, n)),
                  !.oldestEventAt = @ /\ rest # <<>>,
                  !.flushTimer = @ /\ rest # <<>>])

-----------------------------------------------------------------------------
(* The batch in flight.  It is on the wire, waiting out a backoff, or      *)
(* waiting for the session-start hook.                                     *)

NoPost == [phase |-> "none", batch |-> <<>>, attempt |-> 0,
           recovered |-> FALSE, sends |-> 0]

Post == [phase : {"none", "wire", "backoff", "hook"}, batch : Seq(Slot),
         attempt : 0..RETRY_MAX_ATTEMPTS,   \* failed attempts of the running postWithRetry
         recovered : BOOLEAN,    \* the recovery hook has been used
         sends : Nat]            \* POSTs made for this batch (observability)

NewPost(batch) == [NoPost EXCEPT !.phase = "wire", !.batch = batch, !.sends = 1]

(* A flush() activation: not in use, waiting for the promise of the batch  *)
(* in flight, ready to go round its loop again, or returned and not yet    *)
(* seen by its caller.                                                     *)
Activation == [pc : {"idle", "awaiting", "ready", "returned"},
               timed : BOOLEAN, expired : BOOLEAN]

IdleCall == [pc |-> "idle", timed |-> FALSE, expired |-> FALSE]

NewCall(timed) == [pc |-> "ready", timed |-> timed, expired |-> FALSE]

Idle == {c \in Call : calls[c].pc = "idle"}

(* Mutant of FlushInFlight: a loop never chains behind another's batch. *)
FlushNeverInFlight == FALSE

FlushInFlight == post # NoPost

(* One turn of the while loop of flush() by activation c, whose record is  *)
(* a, on the buffer b.                                                     *)
FlushLoop(c, a, b) ==
  \/ /\ b.queue = <<>> \/ a.expired
     /\ calls' = [calls EXCEPT ![c] = [a EXCEPT !.pc = "returned"]]
     /\ buf' = b
     /\ UNCHANGED post
  \/ /\ b.queue # <<>>
     /\ ~a.expired
     /\ calls' = [calls EXCEPT ![c] = [a EXCEPT !.pc = "awaiting"]]
     /\ \/ /\ FlushInFlight
           /\ buf' = b
           /\ UNCHANGED post
        \/ /\ ~FlushInFlight
           /\ \E n \in 1..Len(b.queue) :
                /\ BatchLength(b.queue, n)
                /\ buf' = TakeBatch(b, n)
                /\ post' = NewPost(SubSeq(b.queue, 1, n))

-----------------------------------------------------------------------------
Init ==
  /\ buf = [queue |-> <<>>, queueBytes |-> 0, backpressured |-> FALSE,
            oldestEventAt |-> FALSE, flushTimer |-> FALSE]
  /\ shutdownRequested = FALSE
  /\ counters = [eventsAccepted |-> 0, backpressure |-> 0, payloadTooLarge |-> 0,
                 retriesExhausted |-> 0]
  /\ post = NoPost
  /\ calls = [c \in Call |-> IdleCall]
  /\ captured = 0
  /\ delivered = {}
  /\ lost = {}

(* enqueue(): the caps are compared before the push, and a refusal latches *)
(* back-pressure.                                                          *)
OverCap(bytes) ==
  \/ buf.backpressured
  \/ Len(buf.queue) >= MaxQueueEvents
  \/ buf.queueBytes + bytes > MaxQueueBytes

RefuseAfterShutdown ==
  /\ shutdownRequested
  /\ UNCHANGED <<buf, counters, post, calls>>

RefuseTooLarge(bytes) ==
  /\ ~shutdownRequested
  /\ bytes > MAX_SINGLE_EVENT_BYTES
  /\ counters' = [counters EXCEPT !.payloadTooLarge = @ + 1]
  /\ UNCHANGED <<buf, post, calls>>

RefuseBackpressure(bytes) ==
  /\ ~shutdownRequested
  /\ bytes <= MAX_SINGLE_EVENT_BYTES
  /\ OverCap(bytes)
  /\ buf' = [buf EXCEPT !.backpressured = TRUE]
  /\ counters' = [counters EXCEPT !.backpressure = @ + 1]
  /\ UNCHANGED <<post, calls>>

NewSlot(bytes) ==
  [id |-> counters.eventsAccepted + 1,
   offset |-> IF buf.queue = <<>> THEN 0 ELSE End(buf.queue[Len(buf.queue)]),
   bytes |-> bytes]

(* Mutant of Pushed: the first event queued does not arm the timer. *)
PushedUnarmed(bytes) ==
  [buf EXCEPT !.queue = Append(@, NewSlot(bytes)),
              !.queueBytes = @ + bytes,
              !.oldestEventAt = TRUE]

Pushed(bytes) ==
  [buf EXCEPT !.queue = Append(@, NewSlot(bytes)),
              !.queueBytes = @ + bytes,
              !.oldestEventAt = TRUE,
              !.flushTimer = @ \/ ~buf.oldestEventAt]

BatchReady(b) == Len(b.queue) >= MAX_BATCH_EVENTS \/ b.queueBytes >= MAX_BATCH_BYTES

Accept(bytes) ==
  /\ ~shutdownRequested
  /\ bytes <= MAX_SINGLE_EVENT_BYTES
  /\ ~OverCap(bytes)
  /\ counters' = [counters EXCEPT !.eventsAccepted = @ + 1]
  /\ LET b == Pushed(bytes)
     IN  \/ /\ ~BatchReady(b)
            /\ buf' = b
            /\ UNCHANGED <<post, calls>>
         \/ /\ BatchReady(b)
            /\ \E c \in Idle : FlushLoop(c, NewCall(FALSE), b)

Enqueue ==
  /\ captured < MaxCaptures
  /\ captured' = captured + 1
  /\ \E bytes \in Size :
       \/ RefuseAfterShutdown
       \/ RefuseTooLarge(bytes)
       \/ RefuseBackpressure(bytes)
       \/ Accept(bytes)
  /\ UNCHANGED <<shutdownRequested, delivered, lost>>

(* client.flush(): with or without a time budget. *)
Flush(c) ==
  /\ c \in Idle
  /\ \E timed \in BOOLEAN : FlushLoop(c, NewCall(timed), buf)
  /\ UNCHANGED <<shutdownRequested, counters, history>>

(* The interval timer armed by the first event queued. *)
FlushTimerFires ==
  /\ buf.flushTimer
  /\ \E c \in Idle : FlushLoop(c, NewCall(FALSE),
                               [buf EXCEPT !.flushTimer = FALSE])
  /\ UNCHANGED <<shutdownRequested, counters, history>>

(* shutdown(): refuse new events, drop the timer, flush within a budget. *)
Shutdown(c) ==
  /\ c \in Idle
  /\ shutdownRequested' = TRUE
  /\ FlushLoop(c, NewCall(TRUE),
               [buf EXCEPT !.flushTimer = FALSE])
  /\ UNCHANGED <<counters, history>>

(* The continuation of an activation whose awaited promise has settled. *)
FlushContinues(c) ==
  /\ calls[c].pc = "ready"
  /\ FlushLoop(c, calls[c], buf)
  /\ UNCHANGED <<shutdownRequested, counters, history>>

(* The promise of a flush() resolves: its caller, if any, goes on. *)
CallerResumes(c) ==
  /\ calls[c].pc = "returned"
  /\ calls' = [calls EXCEPT ![c] = IdleCall]
  /\ UNCHANGED <<buf, shutdownRequested, counters, post, history>>

(* The time budget of an activation runs out; flush() looks at it only at  *)
(* its loop head.                                                          *)
TimeoutElapses(c) ==
  /\ calls[c].pc \in {"awaiting", "ready"}
  /\ calls[c].timed
  /\ ~calls[c].expired
  /\ calls' = [calls EXCEPT ![c].expired = TRUE]
  /\ UNCHANGED <<buf, shutdownRequested, counters, post, history>>

-----------------------------------------------------------------------------
(* postBatchWithRecovery() and postWithRetry().                            *)

(* Mutant of Settle: the finally handler wakes nobody. *)
SettleSilently ==
  /\ post' = NoPost
  /\ buf' = UpdateHysteresis(buf)
  /\ UNCHANGED calls

(* The in-flight promise settles: the activation that owns it, and every   *)
(* one chained behind it, become ready.                                    *)
Settle ==
  /\ post' = NoPost
  /\ buf' = UpdateHysteresis(buf)
  /\ calls' = [c \in Call |-> IF calls[c].pc = "awaiting"
                              THEN [calls[c] EXCEPT !.pc = "ready"] ELSE calls[c]]

GiveUp ==
  /\ Settle
  /\ lost' = lost \cup IdsOf(post.batch)
  /\ UNCHANGED delivered

OnWire == post.phase = "wire"

AnswerAccepted ==
  /\ OnWire
  /\ Settle
  /\ delivered' = delivered \cup IdsOf(post.batch)
  /\ UNCHANGED <<shutdownRequested, counters, captured, lost>>

(* A terminal status: anything that is neither 2xx, nor retryable, nor the *)
(* typed 409.                                                              *)
AnswerTerminal ==
  /\ OnWire
  /\ GiveUp
  /\ UNCHANGED <<shutdownRequested, counters, captured>>

RetriesExhausted == post.attempt + 1 > RETRY_MAX_ATTEMPTS

(* A retryable status, or a failed fetch. *)
AnswerRetryable ==
  /\ OnWire
  /\ \/ /\ RetriesExhausted
        /\ GiveUp
        /\ counters' = [counters EXCEPT !.retriesExhausted = @ + 1]
     \/ /\ ~RetriesExhausted
        /\ post' = [post EXCEPT !.phase = "backoff", !.attempt = @ + 1]
        /\ UNCHANGED <<buf, calls, delivered, lost, counters>>
  /\ UNCHANGED <<shutdownRequested, captured>>

(* Mutant of AnswerSessionUnknown: the batch is recovered every time. *)
AnswerSessionUnknownAgain ==
  /\ OnWire
  /\ post' = [post EXCEPT !.phase = "hook", !.recovered = TRUE]
  /\ UNCHANGED <<buf, calls, delivered, lost>>
  /\ UNCHANGED <<shutdownRequested, counters, captured>>

(* 409 session_unknown: recover once, then drop the batch. *)
AnswerSessionUnknown ==
  /\ OnWire
  /\ \/ /\ post.recovered
        /\ GiveUp
     \/ /\ ~post.recovered
        /\ post' = [post EXCEPT !.phase = "hook", !.recovered = TRUE]
        /\ UNCHANGED <<buf, calls, delivered, lost>>
  /\ UNCHANGED <<shutdownRequested, counters, captured>>

BackoffElapses ==
  /\ post.phase = "backoff"
  /\ post' = [post EXCEPT !.phase = "wire", !.sends = @ + 1]
  /\ UNCHANGED <<buf, shutdownRequested, counters, calls, history>>

(* The recovery hook resolves or rejects; either way the batch is retried  *)
(* by a fresh postWithRetry().                                             *)
RecoveryHookSettles ==
  /\ post.phase = "hook"
  /\ post' = [post EXCEPT !.phase = "wire", !.attempt = 0, !.sends = @ + 1]
  /\ UNCHANGED <<buf, shutdownRequested, counters, calls, history>>

Answer == AnswerAccepted \/ AnswerTerminal \/ AnswerRetryable \/ AnswerSessionUnknown

Next ==
  \/ Enqueue
  \/ \E c \in Call : \/ Flush(c)
                      \/ Shutdown(c)
                      \/ FlushContinues(c)
                      \/ CallerResumes(c)
                      \/ TimeoutElapses(c)
  \/ FlushTimerFires
  \/ Answer
  \/ BackoffElapses
  \/ RecoveryHookSettles

(* Timers fire, settled promises resume their continuations and the session *)
(* hook (one HTTP attempt) settles.  The application is never obliged to    *)
(* capture, flush or shut down.                                             *)
SchedulerFairness ==
  /\ WF_vars(FlushTimerFires)
  /\ WF_vars(BackoffElapses)
  /\ WF_vars(RecoveryHookSettles)
  /\ \A c \in Call : /\ WF_vars(FlushContinues(c))
                      /\ WF_vars(CallerResumes(c))
                      /\ WF_vars(TimeoutElapses(c))

(* Every request is eventually answered or fails. *)
NetworkFairness == WF_vars(Answer)

Spec == Init /\ [][Next]_vars

FairSpec == Spec /\ SchedulerFairness /\ NetworkFairness

-----------------------------------------------------------------------------
(* Properties                                                              *)

TypeOK ==
  /\ buf \in Buffer
  /\ shutdownRequested \in BOOLEAN
  /\ counters \in [eventsAccepted : Nat, backpressure : Nat, payloadTooLarge : Nat,
                   retriesExhausted : Nat]
  /\ post \in Post
  /\ calls \in [Call -> Activation]
  /\ captured \in Nat
  /\ delivered \in SUBSET (Nat \ {0})
  /\ lost \in SUBSET (Nat \ {0})

accepted == counters.eventsAccepted
taken == accepted - Len(buf.queue)
settled == taken - Len(post.batch)

(* Every accepted event is in exactly one place, and the places are in     *)
(* acceptance order: settled events, then the batch in flight, then the    *)
(* queue.  So no flush loop skips, duplicates or reorders events however   *)
(* enqueue(), timers, flushes and shutdown interleave                      *)
(* (transport.ts:286-334, 368-404, 460-478).                               *)
PipelineOrder ==
  /\ settled >= 0
  /\ delivered \cup lost = 1..settled
  /\ delivered \cap lost = {}
  /\ \A i \in 1..Len(post.batch) : post.batch[i].id = settled + i
  /\ \A i \in 1..Len(buf.queue) : buf.queue[i].id = taken + i

(* A queued event always has somebody coming for it: while the transport   *)
(* is open, a non-empty queue has the interval timer armed or a flush loop *)
(* without time budget under way.  A timed flush that gives up, or a timer *)
(* disarmed by another loop, must not strand the rest of the queue         *)
(* (transport.ts:316-319, 373-376, 473-476, 480-489).                      *)
NoStrandedEvents ==
  buf.queue # <<>> /\ ~shutdownRequested =>
    \/ buf.flushTimer
    \/ \E c \in Call : calls[c].pc \in {"awaiting", "ready"} /\ ~calls[c].timed

(* The caps hold, and the running byte total is the sum of what is queued, *)
(* after any interleaving of pushes and partial batches                    *)
(* (transport.ts:303-313, 466-471).                                        *)
QueueWithinCaps ==
  /\ Len(buf.queue) <= MaxQueueEvents
  /\ buf.queueBytes = BytesOf(buf.queue)
  /\ buf.queueBytes <= MaxQueueBytes

(* A batch respects both the count and the byte cap of one request: the    *)
(* rule that the first event always goes cannot overshoot, because a single *)
(* event is capped below the batch (transport.ts:460-472).                 *)
BatchWithinCaps ==
  /\ Len(post.batch) <= MAX_BATCH_EVENTS
  /\ BytesOf(post.batch) <= MAX_BATCH_BYTES

(* Back-pressure is never latched on an empty queue, where no later batch  *)
(* would lift it: every drain that empties the queue resumes intake        *)
(* (transport.ts:303-311, 498-505).                                        *)
BackpressureHasADrain == buf.backpressured => buf.queue # <<>>

(* One batch costs the server a bounded number of POSTs: a full retry      *)
(* envelope, and one more after the single recovery                        *)
(* (transport.ts:412-447, 511-585).                                        *)
BoundedPosts ==
  post.sends <= (1 + RETRY_MAX_ATTEMPTS) * (IF post.recovered THEN 2 ELSE 1)

(* Shutdown is final: no event is accepted and no interval timer is armed  *)
(* once shutdown() has been called (transport.ts:287-290, 450-452).        *)
ClosedAfterShutdown ==
  [][shutdownRequested => accepted' = accepted /\ ~buf'.flushTimer]_vars

(* Every accepted event is eventually delivered or given up, unless the    *)
(* client is shut down first (timer, triggers and bounded retries).        *)
EventsSettle ==
  \A e \in 1..MaxCaptures :
    (e <= accepted) ~> (e \in delivered \cup lost \/ shutdownRequested)

(* Every flush() and shutdown() call eventually returns. *)
CallsReturn == \A c \in Call : (calls[c].pc # "idle") ~> (calls[c].pc = "idle")

(* The transport implements the abstract pipeline. *)
Pipeline == INSTANCE EventPipeline WITH MaxBatch <- MAX_BATCH_EVENTS
PipelineSpec == Pipeline!Spec

=============================================================================
