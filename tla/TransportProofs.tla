--------------------------- MODULE TransportProofs ---------------------------
(***************************************************************************)
(* Machine-checked proofs about Transport, for every queue and batch cap,  *)
(* every number of flush activations and every retry budget.               *)
(*                                                                         *)
(* The strengthening IInv has one part for the buffer (BufferInv), one for *)
(* the batch in flight (PostInv) and one for the activations, plus the two *)
(* properties that tie them together: PipelineOrder and NoStrandedEvents.  *)
(* flush() runs inside five of the actions, on a buffer the action may     *)
(* already have changed, so what it preserves is one lemma about FlushLoop *)
(* on an arbitrary buffer (FlushLoopPreserves).                            *)
(***************************************************************************)
EXTENDS Transport, SequenceTheorems, TLAPS

(* Offsets really are running sums: End(slot) is the next slot's offset. *)
Contiguous(slots) ==
  /\ \A i \in 1..Len(slots) - 1 : slots[i + 1].offset = End(slots[i])
  /\ \A i, j \in 1..Len(slots) : i < j => End(slots[i]) <= slots[j].offset

Numbered(slots, base) == \A i \in 1..Len(slots) : slots[i].id = base + i

BufferInv(b, total) ==
  /\ b \in Buffer
  /\ Numbered(b.queue, total - Len(b.queue))
  /\ Contiguous(b.queue)
  /\ b.queueBytes = BytesOf(b.queue)
  /\ b.queueBytes <= MaxQueueBytes
  /\ Len(b.queue) <= MaxQueueEvents
  /\ b.oldestEventAt <=> b.queue # <<>>
  /\ b.backpressured => b.queue # <<>>

(* A running postWithRetry() has made one POST per failed attempt, and one *)
(* more if it is on the wire; a recovery adds a full envelope before it.   *)
PostInv(p) ==
  /\ p \in Post
  /\ p.phase = "none" => p = NoPost
  /\ Len(p.batch) <= MAX_BATCH_EVENTS
  /\ BytesOf(p.batch) <= MAX_BATCH_BYTES
  /\ p.phase \in {"wire", "backoff"} =>
       p.sends <= p.attempt + (IF p.phase = "wire" THEN 1 ELSE 0)
                  + (IF p.recovered THEN 1 + RETRY_MAX_ATTEMPTS ELSE 0)
  /\ p.phase = "hook" => p.recovered /\ p.sends <= 1 + RETRY_MAX_ATTEMPTS

CallsInv(cs) ==
  /\ cs \in [Call -> Activation]
  /\ \A c \in Call : cs[c].expired => cs[c].timed

(* Somebody will come for what b still queues. *)
Served(b, cs) ==
  b.queue # <<>> =>
    \/ b.flushTimer
    \/ \E c \in Call : cs[c].pc \in {"awaiting", "ready"} /\ ~cs[c].timed

(* The part of PipelineOrder that is about the history variables. *)
VerdictInv ==
  /\ settled >= 0
  /\ delivered \cup lost = 1..settled
  /\ delivered \cap lost = {}

IInv ==
  /\ shutdownRequested \in BOOLEAN
  /\ counters \in [eventsAccepted : Nat, backpressure : Nat, payloadTooLarge : Nat,
                   retriesExhausted : Nat]
  /\ captured \in Nat
  /\ BufferInv(buf, accepted)
  /\ PostInv(post)
  /\ Numbered(post.batch, settled)
  /\ CallsInv(calls)
  /\ VerdictInv
  /\ ~shutdownRequested => Served(buf, calls)
  /\ shutdownRequested => ~buf.flushTimer

-----------------------------------------------------------------------------
(* The caps that ASSUME fixes, as plain facts. *)
LEMMA Caps ==
  /\ MAX_BATCH_EVENTS \in Nat /\ MAX_BATCH_EVENTS >= 1
  /\ MAX_BATCH_BYTES \in Nat
  /\ MAX_SINGLE_EVENT_BYTES \in Nat
  /\ MAX_SINGLE_EVENT_BYTES <= MAX_BATCH_BYTES
  /\ MaxQueueEvents \in Nat /\ MaxQueueEvents >= 1
  /\ MaxQueueBytes \in Nat /\ MAX_BATCH_BYTES <= MaxQueueBytes
  /\ ResumeNum \in Nat /\ ResumeDen \in Nat
  /\ RETRY_MAX_ATTEMPTS \in Nat
BY TransportAssumption

LEMMA SlotEnd ==
  ASSUME NEW x \in Slot
  PROVE  /\ x.offset \in Nat /\ End(x) \in Nat /\ End(x) > x.offset
         /\ End(x) <= x.offset + MAX_SINGLE_EVENT_BYTES
BY Caps DEF Slot, End

(* A run of consecutive slots keeps its numbering and its offsets, and its *)
(* size is what the end points say.                                        *)
LEMMA SubRun ==
  ASSUME NEW q \in Seq(Slot), Contiguous(q), NEW base \in Int,
         NEW m \in 1..Len(q) + 1, NEW n \in m - 1..Len(q)
  PROVE  LET s == SubSeq(q, m, n) IN
         /\ s \in Seq(Slot)
         /\ Len(s) = n - m + 1
         /\ \A i \in 1..Len(s) : s[i] = q[m + i - 1]
         /\ Numbered(q, base) => Numbered(s, base + m - 1)
         /\ Contiguous(s)
<1> DEFINE s == SubSeq(q, m, n)
<1>1. \A i \in m..n : q[i] \in Slot
  BY ElementOfSeq
<1>2. /\ s \in Seq(Slot)
      /\ Len(s) = n - m + 1
      /\ \A i \in 1..Len(s) : s[i] = q[m + i - 1]
  BY <1>1, SubSeqProperties
<1>3. Numbered(q, base) => Numbered(s, base + m - 1)
  BY <1>2 DEF Numbered
<1>4. ASSUME NEW i \in 1..Len(s) - 1
      PROVE  s[i + 1].offset = End(s[i])
  <2>1. s[i] = q[m + i - 1] /\ s[i + 1] = q[m + i]
    BY <1>2
  <2>2. m + i - 1 \in 1..Len(q) - 1 /\ (m + i - 1) + 1 = m + i
    BY <1>2
  <2> QED BY <2>1, <2>2 DEF Contiguous
<1>5. ASSUME NEW i \in 1..Len(s), NEW j \in 1..Len(s), i < j
      PROVE  End(s[i]) <= s[j].offset
  <2>1. s[i] = q[m + i - 1] /\ s[j] = q[m + j - 1]
    BY <1>2
  <2>2. m + i - 1 \in 1..Len(q) /\ m + j - 1 \in 1..Len(q) /\ m + i - 1 < m + j - 1
    BY <1>2, <1>5
  <2> QED BY <2>1, <2>2 DEF Contiguous
<1> QED BY <1>2, <1>3, <1>4, <1>5 DEF Contiguous

(* The size of a run is a natural number, zero only for the empty one, and *)
(* splits where the run splits.                                            *)
LEMMA BytesNat ==
  ASSUME NEW q \in Seq(Slot), Contiguous(q)
  PROVE  /\ BytesOf(q) \in Nat
         /\ q # <<>> => BytesOf(q) > 0
<1>1. CASE q = <<>>
  BY <1>1 DEF BytesOf
<1>2. CASE q # <<>>
  <2>1. Len(q) \in Nat /\ Len(q) >= 1
    BY <1>2, EmptySeq
  <2>2. q[1] \in Slot /\ q[Len(q)] \in Slot
    BY <2>1, ElementOfSeq
  <2>3. q[1].offset <= q[Len(q)].offset
    <3>1. CASE Len(q) = 1
      BY <3>1, <2>2 DEF Slot
    <3>2. CASE Len(q) > 1
      <4>1. End(q[1]) <= q[Len(q)].offset
        BY <3>2, <2>1 DEF Contiguous
      <4> QED BY <4>1, <2>2, Caps DEF End, Slot
    <3>3. Len(q) = 1 \/ Len(q) > 1
      BY <2>1
    <3> QED BY <3>1, <3>2, <3>3
  <2>4. BytesOf(q) = End(q[Len(q)]) - q[1].offset
    BY <1>2 DEF BytesOf
  <2>5. /\ q[1].offset \in Nat /\ q[Len(q)].offset \in Nat
        /\ End(q[Len(q)]) \in Nat /\ End(q[Len(q)]) > q[Len(q)].offset
    BY <2>2, SlotEnd DEF Slot
  <2> QED BY <2>3, <2>4, <2>5
<1> QED BY <1>1, <1>2

LEMMA RunBytes ==
  ASSUME NEW q \in Seq(Slot), Len(q) >= 1
  PROVE  q # <<>> /\ BytesOf(q) = End(q[Len(q)]) - q[1].offset
<1>1. q # <<>>
  BY EmptySeq
<1> QED BY <1>1 DEF BytesOf

LEMMA BytesSplit ==
  ASSUME NEW q \in Seq(Slot), Contiguous(q), NEW n \in 1..Len(q),
         NEW head \in Seq(Slot), Len(head) = n,
         \A i \in 1..n : head[i] = q[i],
         NEW rest \in Seq(Slot), Len(rest) = Len(q) - n,
         \A i \in 1..Len(rest) : rest[i] = q[n + i]
  PROVE  BytesOf(rest) = BytesOf(q) - BytesOf(head)
<1>0. Len(q) \in Nat /\ Len(q) >= 1 /\ n \in Nat
  BY LenProperties
<1>1. \A i \in 1..Len(q) : q[i] \in Slot
  BY ElementOfSeq
<1>2. BytesOf(q) = End(q[Len(q)]) - q[1].offset
  BY <1>0, RunBytes
<1>3. BytesOf(head) = End(q[n]) - q[1].offset
  <2>1. Len(head) >= 1
    BY <1>0
  <2>2. BytesOf(head) = End(head[Len(head)]) - head[1].offset
    BY <2>1, RunBytes
  <2>3. head[1] = q[1] /\ head[Len(head)] = q[n]
    BY <1>0
  <2> QED BY <2>2, <2>3
<1>4. CASE n = Len(q)
  <2>1. rest = <<>>
    BY <1>4, <1>0, EmptySeq
  <2>2. q[n] \in Slot /\ q[1] \in Slot
    BY <1>0, <1>1
  <2>3. BytesOf(rest) = 0
    BY <2>1 DEF BytesOf
  <2> QED BY <2>2, <2>3, <1>2, <1>3, <1>4, Caps, SMTT(20) DEF End, Slot
<1>5. CASE n < Len(q)
  <2>1. Len(rest) >= 1
    BY <1>5, <1>0
  <2>2. rest[1] = q[n + 1] /\ rest[Len(rest)] = q[Len(q)]
    <3>1. 1 \in 1..Len(rest) /\ Len(rest) \in 1..Len(rest) /\ n + Len(rest) = Len(q)
      BY <2>1, <1>0
    <3> QED BY <3>1
  <2>3. BytesOf(rest) = End(q[Len(q)]) - q[n + 1].offset
    BY <2>1, <2>2, RunBytes
  <2>4. q[n + 1].offset = End(q[n])
    BY <1>5, <1>0 DEF Contiguous
  <2>5. q[1] \in Slot /\ q[n] \in Slot /\ q[n + 1] \in Slot /\ q[Len(q)] \in Slot
    BY <1>1, <1>5, <1>0
  <2>6. /\ q[1].offset \in Nat /\ End(q[n]) \in Nat
        /\ End(q[Len(q)]) \in Nat
    BY <2>5, SlotEnd
  <2> QED BY <2>3, <2>4, <2>6, <1>2, <1>3
<1> QED BY <1>0, <1>4, <1>5

-----------------------------------------------------------------------------
(* What the buffer operations preserve.                                    *)

LEMMA HysteresisFacts ==
  ASSUME NEW b \in Buffer
  PROVE  LET h == UpdateHysteresis(b) IN
         /\ h \in Buffer
         /\ h.queue = b.queue /\ h.queueBytes = b.queueBytes
         /\ h.oldestEventAt = b.oldestEventAt /\ h.flushTimer = b.flushTimer
         /\ h.backpressured => b.backpressured
         /\ b.queue = <<>> /\ b.queueBytes = 0 => ~h.backpressured
<1>1. \A x, y \in Nat : 0 <= x * y
  OBVIOUS
<1>2. 0 <= ResumeNum * MaxQueueEvents /\ 0 <= ResumeNum * MaxQueueBytes
  BY <1>1, Caps
<1>3. 0 * ResumeDen = 0 /\ Len(<<>>) = 0
  BY Caps
<1> QED BY <1>2, <1>3 DEF UpdateHysteresis, Buffer

LEMMA TakeBatchPreserves ==
  ASSUME NEW b, NEW total \in Nat, BufferInv(b, total),
         NEW n \in 1..Len(b.queue), BatchLength(b.queue, n)
  PROVE  LET t == TakeBatch(b, n)
             s == SubSeq(b.queue, 1, n)
         IN  /\ BufferInv(t, total)
             /\ Len(t.queue) = Len(b.queue) - n
             /\ t.queue # <<>> => t.flushTimer = b.flushTimer
             /\ t.flushTimer => b.flushTimer
             /\ s \in Seq(Slot) /\ Len(s) = n /\ n <= MAX_BATCH_EVENTS
             /\ Numbered(s, total - Len(b.queue))
             /\ BytesOf(s) <= MAX_BATCH_BYTES
<1> DEFINE q == b.queue
           head == SubSeq(q, 1, n)
           rest == SubSeq(q, n + 1, Len(q))
           bytes == b.queueBytes - BytesOf(head)
           oldest == b.oldestEventAt /\ rest # <<>>
           timer == b.flushTimer /\ rest # <<>>
           raw == [b EXCEPT !.queue = rest, !.queueBytes = bytes,
                            !.oldestEventAt = oldest, !.flushTimer = timer]
           t == TakeBatch(b, n)
<1>1. /\ b \in Buffer /\ q \in Seq(Slot) /\ Contiguous(q)
      /\ Numbered(q, total - Len(q))
      /\ Len(q) \in Nat /\ n \in Nat /\ 1 <= n /\ n <= Len(q) /\ n \in 1..Len(q)
      /\ total - Len(q) \in Int
  BY LenProperties DEF BufferInv, Buffer
<1>2. /\ head \in Seq(Slot) /\ Len(head) = n
      /\ \A i \in 1..n : head[i] = q[i]
      /\ Numbered(head, total - Len(q))
      /\ Contiguous(head)
  <2>1. 1 \in 1..Len(q) + 1 /\ n \in 1 - 1..Len(q)
    BY <1>1
  <2>2. /\ head \in Seq(Slot) /\ Len(head) = n - 1 + 1
        /\ \A i \in 1..Len(head) : head[i] = q[1 + i - 1]
        /\ Numbered(head, total - Len(q) + 1 - 1)
        /\ Contiguous(head)
    BY <1>1, <2>1, SubRun
  <2>3. n - 1 + 1 = n /\ total - Len(q) + 1 - 1 = total - Len(q)
    BY <1>1
  <2> QED BY <2>2, <2>3
<1>3. /\ rest \in Seq(Slot) /\ Len(rest) = Len(q) - n
      /\ \A i \in 1..Len(rest) : rest[i] = q[n + i]
      /\ Numbered(rest, total - Len(rest))
      /\ Contiguous(rest)
  <2>1. n + 1 \in 1..Len(q) + 1 /\ Len(q) \in (n + 1) - 1..Len(q)
    BY <1>1
  <2>2. /\ rest \in Seq(Slot) /\ Len(rest) = Len(q) - (n + 1) + 1
        /\ \A i \in 1..Len(rest) : rest[i] = q[(n + 1) + i - 1]
        /\ Numbered(rest, (total - Len(q)) + (n + 1) - 1)
        /\ Contiguous(rest)
    BY <1>1, <2>1, SubRun
  <2>3. /\ Len(q) - (n + 1) + 1 = Len(q) - n
        /\ (total - Len(q)) + (n + 1) - 1 = total - (Len(q) - n)
        /\ \A i \in Nat : (n + 1) + i - 1 = n + i
    BY <1>1
  <2>4. \A i \in 1..Len(rest) : rest[i] = q[n + i]
    <3> HIDE DEF rest, q
    <3> QED BY <2>2, <2>3, <1>1
  <2> QED BY <2>2, <2>3, <2>4
<1>4. BytesOf(rest) = BytesOf(q) - BytesOf(head)
  <2> HIDE DEF q, head, rest
  <2> QED BY <1>1, <1>2, <1>3, BytesSplit
<1>5. BytesOf(q) \in Nat /\ BytesOf(head) \in Nat /\ BytesOf(rest) \in Nat
  BY <1>1, <1>2, <1>3, BytesNat
<1>6. bytes = BytesOf(rest) /\ bytes \in Nat /\ bytes <= b.queueBytes
  BY <1>4, <1>5 DEF BufferInv
<1>7. raw \in Buffer /\ raw.queue = rest /\ raw.queueBytes = bytes
      /\ raw.oldestEventAt = oldest /\ raw.flushTimer = timer
  <2>1. oldest \in BOOLEAN /\ timer \in BOOLEAN
    OBVIOUS
  <2>2. b \in Buffer /\ rest \in Seq(Slot) /\ bytes \in Int
    BY <1>1, <1>3, <1>6
  <2> HIDE DEF rest, bytes, oldest, timer
  <2> QED BY <2>1, <2>2 DEF Buffer
<1>8. t = UpdateHysteresis(raw)
  BY DEF TakeBatch
<1>9. /\ t \in Buffer /\ t.queue = rest /\ t.queueBytes = bytes
      /\ t.oldestEventAt = raw.oldestEventAt /\ t.flushTimer = raw.flushTimer
      /\ rest = <<>> => ~t.backpressured
  <2>1. rest = <<>> => bytes = 0
    BY <1>6 DEF BytesOf
  <2> HIDE DEF raw, t, rest, bytes
  <2> QED BY <2>1, <1>7, <1>8, HysteresisFacts
<1>10. q # <<>>
  BY <1>1, EmptySeq
<1>11. BufferInv(t, total)
  <2>1. (t.oldestEventAt <=> t.queue # <<>>) /\ (t.backpressured => t.queue # <<>>)
    BY <1>7, <1>9, <1>10 DEF BufferInv
  <2>2. t.queueBytes <= MaxQueueBytes
    <3>1. b.queueBytes <= MaxQueueBytes /\ b.queueBytes \in Int
      BY DEF BufferInv, Buffer
    <3> HIDE DEF bytes, t
    <3> QED BY <1>6, <1>9, <3>1, Caps
  <2>3. Len(t.queue) <= MaxQueueEvents
    <3>1. Len(q) <= MaxQueueEvents
      BY DEF BufferInv
    <3>2. Len(q) \in Nat /\ n \in Nat /\ Len(rest) = Len(q) - n
      BY <1>1, <1>3
    <3>3. Len(t.queue) = Len(q) - n
      BY <1>9, <3>2
    <3> HIDE DEF rest, q, t
    <3> QED BY <3>1, <3>2, <3>3, Caps
  <2> HIDE DEF rest, q, t, bytes
  <2> QED BY <1>3, <1>6, <1>9, <2>1, <2>2, <2>3 DEF BufferInv
<1>12. n <= MAX_BATCH_EVENTS /\ BytesOf(head) <= MAX_BATCH_BYTES
  <2>1. Fits(q, n)
    BY <1>1 DEF BatchLength
  <2>2. CASE n = 1
    <3>0. head \in Seq(Slot) /\ Len(head) = 1
      BY <1>2, <2>2
    <3> HIDE DEF head
    <3>1. BytesOf(head) = End(head[1]) - head[1].offset
      BY <3>0, RunBytes
    <3>2. head[1] \in Slot
      <4>1. 1 \in 1..Len(head)
        BY <3>0
      <4> QED BY <3>0, <4>1, ElementOfSeq
    <3>3. /\ End(head[1]) \in Nat /\ head[1].offset \in Nat
          /\ End(head[1]) <= head[1].offset + MAX_SINGLE_EVENT_BYTES
      BY <3>2, SlotEnd
    <3> QED BY <2>1, <2>2, <3>1, <3>3, Caps DEF Fits
  <2>3. CASE n # 1
    BY <2>1, <2>3 DEF Fits
  <2> QED BY <2>2, <2>3
<1> HIDE DEF rest, head, t, raw, bytes
<1>13. t.queue # <<>> => t.flushTimer = b.flushTimer
  BY <1>1, <1>7, <1>9 DEF Buffer
<1>14. t.flushTimer => b.flushTimer
  BY <1>7, <1>9
<1> QED BY <1>2, <1>3, <1>9, <1>11, <1>12, <1>13, <1>14 DEF head, t

(* Accepting an event within the caps keeps the buffer well formed, and a  *)
(* timer is armed whenever nothing was queued before.                      *)
LEMMA PushPreserves ==
  ASSUME NEW bytes \in Nat \ {0}, bytes <= MAX_SINGLE_EVENT_BYTES,
         counters.eventsAccepted \in Nat, BufferInv(buf, accepted), ~OverCap(bytes)
  PROVE  LET t == Pushed(bytes) IN
         /\ BufferInv(t, accepted + 1)
         /\ Len(t.queue) = Len(buf.queue) + 1
         /\ t.queue # <<>>
         /\ t.flushTimer <=> buf.flushTimer \/ buf.queue = <<>>
<1> DEFINE q == buf.queue
           new == NewSlot(bytes)
           slots == Append(q, new)
           total == buf.queueBytes + bytes
           timer == buf.flushTimer \/ ~buf.oldestEventAt
           t == Pushed(bytes)
<1>1. /\ buf \in Buffer /\ q \in Seq(Slot) /\ Contiguous(q) /\ Len(q) \in Nat
      /\ Numbered(q, accepted - Len(q)) /\ accepted \in Nat
      /\ buf.queueBytes = BytesOf(q) /\ (buf.oldestEventAt <=> q # <<>>)
      /\ buf.queueBytes \in Int
      /\ ~buf.backpressured
      /\ Len(q) < MaxQueueEvents
      /\ buf.queueBytes + bytes <= MaxQueueBytes
  BY Caps, LenProperties DEF BufferInv, Buffer, OverCap, accepted
<1>2. /\ q = <<>> => new.offset = 0
      /\ q # <<>> => /\ Len(q) \in 1..Len(q) /\ Len(q) >= 1 /\ q[Len(q)] \in Slot
                     /\ new.offset = End(q[Len(q)])
  <2>1. q # <<>> => Len(q) \in 1..Len(q) /\ Len(q) >= 1 /\ q[Len(q)] \in Slot
    BY <1>1, EmptySeq, ElementOfSeq
  <2> QED BY <2>1 DEF NewSlot
<1>3. /\ new \in Slot /\ new.id = accepted + 1 /\ new.bytes = bytes
      /\ End(new) = new.offset + bytes /\ new.offset \in Nat
  <2>1. new.offset \in Nat
    BY <1>2, SlotEnd
  <2>2. new = [id |-> accepted + 1, offset |-> new.offset, bytes |-> bytes]
    BY DEF NewSlot, accepted
  <2>3. bytes \in 1..MAX_SINGLE_EVENT_BYTES /\ accepted + 1 \in Nat \ {0}
    BY <1>1, Caps
  <2> HIDE DEF new
  <2> QED BY <2>1, <2>2, <2>3 DEF Slot, End
<1> HIDE DEF new
<1>4. /\ slots \in Seq(Slot) /\ Len(slots) = Len(q) + 1
      /\ \A i \in 1..Len(q) : slots[i] = q[i]
      /\ slots[Len(q) + 1] = new
  BY <1>1, <1>3, AppendProperties
<1> HIDE DEF slots
<1>5. slots # <<>>
  BY <1>1, <1>4, EmptySeq
<1>6. Numbered(slots, accepted + 1 - Len(slots))
  <2> SUFFICES ASSUME NEW i \in 1..Len(slots)
               PROVE  slots[i].id = accepted + 1 - Len(slots) + i
    BY DEF Numbered
  <2>1. CASE i \in 1..Len(q)
    <3>1. slots[i].id = accepted - Len(q) + i
      BY <2>1, <1>1, <1>4 DEF Numbered
    <3>2. accepted - Len(q) + i = accepted + 1 - Len(slots) + i
      BY <1>1, <1>4, <2>1
    <3> QED BY <3>1, <3>2
  <2>2. CASE i = Len(q) + 1
    BY <2>2, <1>1, <1>3, <1>4
  <2> QED BY <2>1, <2>2, <1>1, <1>4
<1>7. Contiguous(slots)
  <2>1. ASSUME NEW i \in 1..Len(slots) - 1
        PROVE  slots[i + 1].offset = End(slots[i])
    <3>1. CASE i \in 1..Len(q) - 1
      <4>1. slots[i + 1] = q[i + 1] /\ slots[i] = q[i]
        BY <3>1, <1>1, <1>4
      <4> QED BY <3>1, <4>1, <1>1 DEF Contiguous
    <3>2. CASE i = Len(q)
      <4>0. Len(q) >= 1 /\ i \in 1..Len(q)
        BY <3>2, <1>1, <1>4
      <4>1. q # <<>> /\ slots[i] = q[Len(q)] /\ slots[i + 1] = new
        BY <4>0, <3>2, <1>4, RunBytes, <1>1
      <4> QED BY <4>1, <1>2
    <3> QED BY <3>1, <3>2, <1>1, <1>4
  <2>2. ASSUME NEW i \in 1..Len(slots), NEW j \in 1..Len(slots), i < j
        PROVE  End(slots[i]) <= slots[j].offset
    <3>1. CASE j \in 1..Len(q)
      <4>1. i \in 1..Len(q) /\ slots[i] = q[i] /\ slots[j] = q[j]
        BY <3>1, <2>2, <1>1, <1>4
      <4> QED BY <3>1, <4>1, <2>2, <1>1 DEF Contiguous
    <3>2. CASE j = Len(q) + 1
      <4>1. i \in 1..Len(q) /\ slots[i] = q[i] /\ slots[j] = new /\ q # <<>>
        BY <3>2, <2>2, <1>1, <1>4, EmptySeq
      <4>2. q[i] \in Slot /\ q[Len(q)] \in Slot /\ Len(q) \in 1..Len(q)
        BY <4>1, <1>1, <1>2, ElementOfSeq
      <4>3. End(q[i]) <= End(q[Len(q)])
        <5>1. CASE i = Len(q)
          BY <5>1, <4>2, SlotEnd
        <5>2. CASE i < Len(q)
          <6>1. End(q[i]) <= q[Len(q)].offset
            BY <5>2, <4>1, <4>2, <1>1 DEF Contiguous
          <6>2. /\ End(q[i]) \in Nat /\ q[Len(q)].offset \in Nat
                /\ End(q[Len(q)]) \in Nat /\ q[Len(q)].offset < End(q[Len(q)])
            BY <4>2, SlotEnd
          <6> QED BY <6>1, <6>2
        <5> QED BY <5>1, <5>2, <4>1, <1>1
      <4> QED BY <4>1, <4>3, <1>2
    <3> QED BY <3>1, <3>2, <1>1, <1>4
  <2> QED BY <2>1, <2>2 DEF Contiguous
<1>8. BytesOf(slots) = total
  <2>1. BytesOf(slots) = End(new) - slots[1].offset
    <3>1. Len(slots) >= 1 /\ slots[Len(slots)] = new
      BY <1>1, <1>4
    <3> QED BY <3>1, <1>4, RunBytes
  <2>2. CASE q = <<>>
    <3>1. BytesOf(q) = 0 /\ slots[1] = new
      BY <2>2, <1>4 DEF BytesOf
    <3> QED BY <3>1, <2>1, <2>2, <1>1, <1>2, <1>3
  <2>3. CASE q # <<>>
    <3>0. Len(q) \in Nat /\ Len(q) >= 1
      BY <2>3, <1>1, EmptySeq
    <3>1. /\ BytesOf(q) = End(q[Len(q)]) - q[1].offset
      BY <3>0, <1>1, RunBytes
    <3>2. slots[1] = q[1]
      BY <3>0, <1>4
    <3>3. q[1] \in Slot
      BY <3>0, <1>1, ElementOfSeq
    <3>4. q[Len(q)] \in Slot
      BY <3>0, <1>1, ElementOfSeq
    <3>5. q[1].offset \in Nat /\ End(q[Len(q)]) \in Nat
      BY <3>3, <3>4, SlotEnd
    <3>6. new.offset = End(q[Len(q)])
      BY <2>3, <1>2
    <3>7. End(new) = End(q[Len(q)]) + bytes /\ total = BytesOf(q) + bytes
      BY <3>6, <1>1, <1>3
    <3> HIDE DEF total, new, slots
    <3> QED BY <3>1, <3>2, <3>5, <3>7, <2>1
  <2> QED BY <2>2, <2>3
<1>9. /\ t \in Buffer /\ t.queue = slots /\ t.queueBytes = total
      /\ t.oldestEventAt = TRUE /\ t.flushTimer = timer
      /\ t.backpressured = buf.backpressured
  <2>1. t = [buf EXCEPT !.queue = slots, !.queueBytes = total,
                        !.oldestEventAt = TRUE, !.flushTimer = timer]
    BY DEF Pushed, slots, new
  <2>2. timer \in BOOLEAN /\ total \in Int
    BY <1>1
  <2> HIDE DEF t, timer, total
  <2> QED BY <2>1, <2>2, <1>1, <1>4 DEF Buffer
<1>10. BufferInv(t, accepted + 1)
  <2>1. Len(slots) <= MaxQueueEvents /\ total <= MaxQueueBytes
    BY <1>1, <1>4, Caps
  <2> HIDE DEF t, total
  <2> QED BY <2>1, <1>1, <1>5, <1>6, <1>7, <1>8, <1>9 DEF BufferInv
<1>11. timer <=> buf.flushTimer \/ q = <<>>
  BY <1>1
<1> HIDE DEF t, timer
<1> QED BY <1>4, <1>5, <1>9, <1>10, <1>11 DEF t

-----------------------------------------------------------------------------
(* One turn of a flush loop by activation c on a buffer b: the events move *)
(* from the queue to the batch in flight in order, or nowhere, and what is *)
(* still queued stays served.                                              *)
LEMMA FlushLoopPreserves ==
  ASSUME NEW b, NEW total \in Nat, NEW c \in Call, NEW a,
         BufferInv(b, total), PostInv(post), CallsInv(calls),
         Numbered(post.batch, total - Len(b.queue) - Len(post.batch)),
         a \in Activation, a.pc = "ready", a.expired => a.timed,
         FlushLoop(c, a, b)
  PROVE  /\ BufferInv(buf', total)
         /\ PostInv(post')
         /\ CallsInv(calls')
         /\ total - Len(buf'.queue) - Len(post'.batch) = total - Len(b.queue) - Len(post.batch)
         /\ Numbered(post'.batch, total - Len(buf'.queue) - Len(post'.batch))
         /\ Served(b, [calls EXCEPT ![c] = a]) => Served(buf', calls')
         /\ buf'.flushTimer => b.flushTimer
<1>0. /\ b \in Buffer /\ b.queue \in Seq(Slot) /\ Len(b.queue) \in Nat
      /\ post \in Post /\ post.batch \in Seq(Slot) /\ Len(post.batch) \in Nat
  BY LenProperties DEF BufferInv, Buffer, PostInv, Post
<1>1. CASE b.queue = <<>> \/ a.expired
  <2>1. /\ calls' = [calls EXCEPT ![c] = [a EXCEPT !.pc = "returned"]]
        /\ buf' = b /\ post' = post
    BY <1>1 DEF FlushLoop
  <2>2. [a EXCEPT !.pc = "returned"] \in Activation
    BY DEF Activation
  <2>3. CallsInv(calls')
    BY <2>1, <2>2 DEF CallsInv, Activation
  <2>4. ASSUME Served(b, [calls EXCEPT ![c] = a])
        PROVE  Served(buf', calls')
    <3> SUFFICES ASSUME b.queue # <<>>, ~b.flushTimer
                 PROVE  \E d \in Call : calls'[d].pc \in {"awaiting", "ready"} /\ ~calls'[d].timed
      BY <2>1 DEF Served
    <3>1. a.timed
      BY <1>1
    <3>2. PICK d \in Call : /\ [calls EXCEPT ![c] = a][d].pc \in {"awaiting", "ready"}
                            /\ ~[calls EXCEPT ![c] = a][d].timed
      BY <2>4 DEF Served
    <3>3. d # c
      BY <3>1, <3>2 DEF CallsInv
    <3> QED BY <2>1, <3>2, <3>3 DEF CallsInv
  <2> QED BY <2>1, <2>3, <2>4
<1>2. CASE b.queue # <<>> /\ ~a.expired
  <2>1. calls' = [calls EXCEPT ![c] = [a EXCEPT !.pc = "awaiting"]]
    BY <1>2 DEF FlushLoop
  <2>2. [a EXCEPT !.pc = "awaiting"] \in Activation
    BY DEF Activation
  <2>3. CallsInv(calls')
    BY <2>1, <2>2 DEF CallsInv, Activation
  <2>4. ASSUME Served(b, [calls EXCEPT ![c] = a]),
               buf'.queue # <<>> => buf'.flushTimer = b.flushTimer
        PROVE  Served(buf', calls')
    <3> SUFFICES ASSUME buf'.queue # <<>>, ~b.flushTimer
                 PROVE  \E d \in Call : calls'[d].pc \in {"awaiting", "ready"} /\ ~calls'[d].timed
      BY <2>4 DEF Served
    <3>1. PICK d \in Call : /\ [calls EXCEPT ![c] = a][d].pc \in {"awaiting", "ready"}
                            /\ ~[calls EXCEPT ![c] = a][d].timed
      BY <1>2, <2>4 DEF Served
    <3>2. calls'[d].pc \in {"awaiting", "ready"} /\ ~calls'[d].timed
      <4>1. CASE d = c
        BY <4>1, <3>1, <2>1, <2>2 DEF CallsInv, Activation
      <4>2. CASE d # c
        BY <4>2, <3>1, <2>1 DEF CallsInv
      <4> QED BY <4>1, <4>2
    <3> QED BY <3>2
  <2>5. CASE FlushInFlight
    <3>1. buf' = b /\ post' = post
      BY <1>2, <2>5 DEF FlushLoop
    <3> QED BY <2>3, <2>4, <3>1
  <2>6. CASE ~FlushInFlight
    <3>1. post = NoPost
      BY <2>6 DEF FlushInFlight
    <3>2. PICK n \in 1..Len(b.queue) :
            /\ BatchLength(b.queue, n)
            /\ buf' = TakeBatch(b, n)
            /\ post' = NewPost(SubSeq(b.queue, 1, n))
      BY <1>2, <2>6 DEF FlushLoop
    <3> DEFINE s == SubSeq(b.queue, 1, n)
    <3>3. /\ BufferInv(buf', total)
          /\ Len(buf'.queue) = Len(b.queue) - n
          /\ buf'.queue # <<>> => buf'.flushTimer = b.flushTimer
          /\ buf'.flushTimer => b.flushTimer
          /\ s \in Seq(Slot) /\ Len(s) = n /\ n <= MAX_BATCH_EVENTS
          /\ Numbered(s, total - Len(b.queue))
          /\ BytesOf(s) <= MAX_BATCH_BYTES
      BY <3>2, TakeBatchPreserves
    <3> HIDE DEF s
    <3>4. /\ post' = [phase |-> "wire", batch |-> s, attempt |-> 0,
                      recovered |-> FALSE, sends |-> 1]
      BY <3>2 DEF NewPost, NoPost, s
    <3>5. PostInv(post')
      BY <3>3, <3>4, Caps DEF PostInv, Post
    <3>6. Len(post.batch) = 0
      BY <3>1 DEF NoPost
    <3>7. /\ total - Len(buf'.queue) - Len(s) = total - Len(b.queue) - Len(post.batch)
          /\ total - Len(buf'.queue) - Len(s) = total - Len(b.queue)
          /\ post'.batch = s
      <4>1. post'.batch = s
        BY <3>4
      <4>2. PICK rest \in Seq(Slot) : rest = buf'.queue /\ Len(rest) = Len(b.queue) - n
        BY <3>3 DEF BufferInv, Buffer
      <4>3. /\ total - Len(rest) - Len(s) = total - Len(b.queue) - Len(post.batch)
            /\ total - Len(rest) - Len(s) = total - Len(b.queue)
        BY <4>2, <3>3, <3>6, <1>0
      <4> HIDE DEF s
      <4> QED BY <4>1, <4>2, <4>3, Zenon
    <3> QED BY <2>3, <2>4, <3>3, <3>5, <3>7
  <2> QED BY <2>5, <2>6
<1> QED BY <1>1, <1>2

-----------------------------------------------------------------------------
(* The invariant is inductive.                                             *)

LEMMA InitInv == Init => IInv
<1> SUFFICES ASSUME Init PROVE IInv
  OBVIOUS
<1>1. buf.queue = <<>> /\ Len(buf.queue) = 0 /\ buf.queueBytes = 0 /\ ~buf.flushTimer
  BY DEF Init
<1>2. accepted = 0 /\ post = NoPost /\ post.batch = <<>> /\ Len(post.batch) = 0
  BY DEF Init, NoPost, accepted
<1>3. BufferInv(buf, accepted)
  <2>1. buf \in Buffer
    BY DEF Init, Buffer
  <2>2. Numbered(buf.queue, accepted - Len(buf.queue)) /\ Contiguous(buf.queue)
    BY <1>1 DEF Numbered, Contiguous
  <2>3. buf.queueBytes = BytesOf(buf.queue)
    BY <1>1 DEF BytesOf
  <2> QED BY <1>1, <2>1, <2>2, <2>3, Caps DEF BufferInv, Init
<1>4. PostInv(post)
  <2>1. post \in Post
    BY <1>2, Caps DEF NoPost, Post
  <2>2. BytesOf(post.batch) = 0
    BY <1>2 DEF BytesOf
  <2> QED BY <1>2, <2>1, <2>2, Caps DEF PostInv, NoPost
<1>5. Numbered(post.batch, settled)
  BY <1>2 DEF Numbered
<1>6. CallsInv(calls)
  BY DEF Init, CallsInv, Activation, IdleCall
<1>7. VerdictInv
  BY <1>1, <1>2 DEF VerdictInv, settled, taken, accepted, Init
<1> QED BY <1>1, <1>3, <1>4, <1>5, <1>6, <1>7 DEF IInv, Init, Served

(* The actions that run a flush loop on a buffer b, after accepting        *)
(* total - accepted events: everything but the counters follows from       *)
(* FlushLoopPreserves.                                                     *)
LEMMA FlushStepPreserves ==
  ASSUME IInv, NEW b, NEW total \in Nat, NEW c \in Call, NEW a,
         BufferInv(b, total), total - Len(b.queue) = taken,
         a \in Activation, a.pc = "ready", a.expired => a.timed,
         FlushLoop(c, a, b), accepted' = total,
         UNCHANGED <<delivered, lost>>
  PROVE  /\ BufferInv(buf', accepted') /\ PostInv(post') /\ CallsInv(calls')
         /\ Numbered(post'.batch, settled') /\ VerdictInv' /\ settled' = settled
         /\ Served(b, [calls EXCEPT ![c] = a]) => Served(buf', calls')
         /\ buf'.flushTimer => b.flushTimer
<1>1. total - Len(b.queue) - Len(post.batch) = settled
  BY DEF settled
<1>2. /\ BufferInv(buf', total) /\ PostInv(post') /\ CallsInv(calls')
      /\ total - Len(buf'.queue) - Len(post'.batch) = total - Len(b.queue) - Len(post.batch)
      /\ Numbered(post'.batch, total - Len(buf'.queue) - Len(post'.batch))
      /\ Served(b, [calls EXCEPT ![c] = a]) => Served(buf', calls')
      /\ buf'.flushTimer => b.flushTimer
  <2>1. /\ PostInv(post) /\ CallsInv(calls)
        /\ Numbered(post.batch, total - Len(b.queue) - Len(post.batch))
    BY <1>1 DEF IInv
  <2> QED BY <2>1, FlushLoopPreserves
<1>3. /\ Len(b.queue) \in Nat /\ Len(post.batch) \in Nat
      /\ Len(buf'.queue) \in Nat /\ Len(post'.batch) \in Nat
  BY <1>2, LenProperties DEF BufferInv, Buffer, PostInv, Post, IInv
<1>4. settled' = settled
  <2>1. settled' = total - Len(buf'.queue) - Len(post'.batch)
    BY DEF settled, taken
  <2>2. total - Len(buf'.queue) - Len(post'.batch) = total - Len(b.queue) - Len(post.batch)
    BY <1>2
  <2> QED BY <2>1, <2>2, <1>1
<1>5. Numbered(post'.batch, settled')
  BY <1>2 DEF settled, taken
<1>6. VerdictInv'
  BY <1>4 DEF VerdictInv, IInv
<1> QED BY <1>2, <1>4, <1>5, <1>6

(* The activations an action puts into the flush loop. *)
LEMMA NewCallFacts ==
  ASSUME NEW timed \in BOOLEAN
  PROVE  /\ NewCall(timed) \in Activation /\ NewCall(timed).pc = "ready"
         /\ NewCall(timed).expired = FALSE /\ NewCall(timed).timed = timed
BY DEF NewCall, Activation

LEMMA TypeFacts ==
  ASSUME IInv
  PROVE  /\ accepted \in Nat
         /\ buf \in Buffer /\ buf.queue \in Seq(Slot) /\ Len(buf.queue) \in Nat
         /\ post \in Post /\ post.batch \in Seq(Slot) /\ Len(post.batch) \in Nat
         /\ calls \in [Call -> Activation]
         /\ settled \in Nat /\ taken = settled + Len(post.batch)
         /\ accepted = taken + Len(buf.queue)
<1>1. /\ accepted \in Nat
      /\ buf \in Buffer /\ buf.queue \in Seq(Slot) /\ Len(buf.queue) \in Nat
      /\ post \in Post /\ post.batch \in Seq(Slot) /\ Len(post.batch) \in Nat
      /\ calls \in [Call -> Activation]
  BY LenProperties DEF IInv, BufferInv, Buffer, PostInv, Post, CallsInv, accepted
<1>2. settled >= 0
  BY DEF IInv, VerdictInv
<1>3. taken \in Int /\ accepted = taken + Len(buf.queue)
  BY <1>1 DEF taken
<1>4. settled \in Int /\ taken = settled + Len(post.batch)
  BY <1>1, <1>3 DEF settled
<1>5. settled \in Nat
  BY <1>2, <1>4
<1> QED BY <1>1, <1>3, <1>4, <1>5

(* A flush loop started by the timer, a capture or flush() does not take   *)
(* the service of the queue away: its own activation was not in use.       *)
LEMMA NewLoopServes ==
  ASSUME IInv, ~shutdownRequested, NEW c \in Idle, NEW timed \in BOOLEAN
  PROVE  Served(buf, [calls EXCEPT ![c] = NewCall(timed)])
<1>1. c \in Call /\ calls[c].pc = "idle" /\ calls \in [Call -> Activation]
  BY TypeFacts DEF Idle
<1>2. Served(buf, calls)
  BY DEF IInv
<1> SUFFICES ASSUME buf.queue # <<>>, ~buf.flushTimer
             PROVE  \E d \in Call :
                      /\ [calls EXCEPT ![c] = NewCall(timed)][d].pc \in {"awaiting", "ready"}
                      /\ ~[calls EXCEPT ![c] = NewCall(timed)][d].timed
  BY DEF Served
<1>3. PICK d \in Call : calls[d].pc \in {"awaiting", "ready"} /\ ~calls[d].timed
  BY <1>2 DEF Served
<1> QED BY <1>1, <1>3

(* Serving by an untimed loop, whatever the buffer. *)
LEMMA UntimedLoopServes ==
  ASSUME IInv, NEW b, NEW c \in Call
  PROVE  Served(b, [calls EXCEPT ![c] = NewCall(FALSE)])
BY TypeFacts, NewCallFacts DEF Served

(* A step that runs a flush loop, and leaves the rest as it says, keeps the *)
(* invariant.                                                              *)
LEMMA FlushStepInv ==
  ASSUME IInv, NEW b, NEW total \in Nat, NEW c \in Call, NEW a,
         BufferInv(b, total), total - Len(b.queue) = taken,
         a \in Activation, a.pc = "ready", a.expired => a.timed,
         FlushLoop(c, a, b), accepted' = total,
         UNCHANGED <<delivered, lost>>,
         captured' \in Nat, shutdownRequested' \in BOOLEAN,
         counters' \in [eventsAccepted : Nat, backpressure : Nat,
                        payloadTooLarge : Nat, retriesExhausted : Nat],
         ~shutdownRequested' => Served(b, [calls EXCEPT ![c] = a]),
         shutdownRequested' => ~b.flushTimer
  PROVE  IInv'
<1>1. /\ BufferInv(buf', accepted') /\ PostInv(post') /\ CallsInv(calls')
      /\ Numbered(post'.batch, settled') /\ VerdictInv'
      /\ Served(b, [calls EXCEPT ![c] = a]) => Served(buf', calls')
      /\ buf'.flushTimer => b.flushTimer
  BY FlushStepPreserves
<1> QED BY <1>1 DEF IInv

(* A step of the batch in flight that keeps the batch. *)
LEMMA PostStepInv ==
  ASSUME IInv, PostInv(post'), post'.batch = post.batch,
         UNCHANGED <<buf, shutdownRequested, counters, calls, history>>
  PROVE  IInv'
<1>1. accepted' = accepted /\ taken' = taken /\ settled' = settled
  BY DEF accepted, taken, settled
<1>2. VerdictInv'
  BY <1>1 DEF VerdictInv, IInv, history
<1>3. BufferInv(buf', accepted') /\ Numbered(post'.batch, settled')
  BY <1>1 DEF IInv
<1> QED BY <1>2, <1>3 DEF IInv, history

(* The batch in flight is what lies between the settled events and the     *)
(* queue.                                                                  *)
LEMMA BatchIds ==
  ASSUME IInv
  PROVE  /\ IdsOf(post.batch) = settled + 1 .. taken
         /\ settled <= taken
<1>1. /\ post.batch \in Seq(Slot) /\ Len(post.batch) \in Nat /\ settled \in Nat
      /\ taken = settled + Len(post.batch)
  BY TypeFacts
<1>2. DOMAIN post.batch = 1..Len(post.batch)
  BY <1>1, LenProperties
<1>3. \A i \in 1..Len(post.batch) : post.batch[i].id = settled + i
  BY DEF IInv, Numbered
<1>4. ASSUME NEW e \in settled + 1 .. taken
      PROVE  e \in IdsOf(post.batch)
  <2>1. e - settled \in 1..Len(post.batch) /\ settled + (e - settled) = e
    BY <1>1
  <2>2. post.batch[e - settled].id = e
    BY <2>1, <1>3
  <2> QED BY <2>1, <2>2, <1>2 DEF IdsOf
<1>5. ASSUME NEW e \in IdsOf(post.batch)
      PROVE  e \in settled + 1 .. taken
  <2>1. PICK i \in 1..Len(post.batch) : e = post.batch[i].id
    BY <1>2 DEF IdsOf
  <2> QED BY <2>1, <1>1, <1>3
<1>6. settled <= taken
  BY <1>1
<1>7. IdsOf(post.batch) = settled + 1 .. taken
  BY <1>4, <1>5, Zenon
<1> QED BY <1>6, <1>7

(* Settling: the batch becomes delivered or lost, and whoever awaited it   *)
(* goes on.                                                                *)
LEMMA SettleStepInv ==
  ASSUME IInv, OnWire, Settle,
         \/ delivered' = delivered \cup IdsOf(post.batch) /\ lost' = lost
         \/ lost' = lost \cup IdsOf(post.batch) /\ delivered' = delivered,
         UNCHANGED <<shutdownRequested, captured, accepted>>,
         counters' \in [eventsAccepted : Nat, backpressure : Nat,
                        payloadTooLarge : Nat, retriesExhausted : Nat]
  PROVE  IInv'
<1>0. /\ buf \in Buffer /\ calls \in [Call -> Activation] /\ settled \in Nat
      /\ accepted \in Nat /\ Len(buf.queue) \in Nat /\ taken \in Nat
      /\ BufferInv(buf, accepted)
  <2>1. BufferInv(buf, accepted)
    BY DEF IInv
  <2>2. taken \in Nat
    BY TypeFacts
  <2> QED BY <2>1, <2>2, TypeFacts
<1>1. /\ post' = NoPost /\ buf' = UpdateHysteresis(buf) /\ post'.batch = <<>>
      /\ Len(post'.batch) = 0
  BY DEF Settle, NoPost
<1>2. /\ buf' \in Buffer /\ buf'.queue = buf.queue /\ buf'.queueBytes = buf.queueBytes
      /\ buf'.oldestEventAt = buf.oldestEventAt /\ buf'.flushTimer = buf.flushTimer
      /\ buf'.backpressured => buf.backpressured
  BY <1>0, <1>1, HysteresisFacts
<1>3. BufferInv(buf', accepted')
  BY <1>0, <1>2 DEF BufferInv
<1>4. PostInv(post')
  <2>1. NoPost \in Post
    BY Caps DEF NoPost, Post
  <2>2. BytesOf(<<>>) = 0
    BY DEF BytesOf
  <2> QED BY <1>1, <2>1, <2>2, Caps DEF PostInv, NoPost
<1>5. Numbered(post'.batch, settled')
  BY <1>1 DEF Numbered
<1>6. \A d \in Call : /\ calls'[d] \in Activation
                      /\ calls'[d].timed = calls[d].timed
                      /\ calls'[d].expired = calls[d].expired
                      /\ calls[d].pc \in {"awaiting", "ready"} => calls'[d].pc = "ready"
  BY <1>0 DEF Settle, Activation
<1>7. CallsInv(calls')
  BY <1>0, <1>6 DEF IInv, CallsInv, Settle
<1>8. ~shutdownRequested' => Served(buf', calls')
  <2> SUFFICES ASSUME ~shutdownRequested, buf.queue # <<>>, ~buf.flushTimer
               PROVE  \E d \in Call : calls'[d].pc \in {"awaiting", "ready"} /\ ~calls'[d].timed
    BY <1>2 DEF Served
  <2>1. PICK d \in Call : calls[d].pc \in {"awaiting", "ready"} /\ ~calls[d].timed
    BY DEF IInv, Served
  <2> QED BY <2>1, <1>6
<1>9. settled' = taken
  <2>1. taken' = taken
    BY <1>2 DEF taken
  <2>2. settled' = taken' - Len(post'.batch)
    BY DEF settled
  <2>3. PICK k \in Nat : k = taken
    BY <1>0
  <2>4. k - 0 = k
    OBVIOUS
  <2> QED BY <2>1, <2>2, <2>3, <2>4, <1>1
<1>10. VerdictInv'
  <2>1. /\ IdsOf(post.batch) = settled + 1 .. taken /\ settled <= taken
    BY BatchIds
  <2>2. /\ delivered \cup lost = 1..settled /\ delivered \cap lost = {}
    BY DEF IInv, VerdictInv
  <2>3. 1..settled \cup (settled + 1 .. taken) = 1..taken
    BY <1>0, <2>1
  <2>4. (1..settled) \cap (settled + 1 .. taken) = {}
    BY <1>0
  <2>5. delivered' \cup lost' = 1..taken
    BY <2>1, <2>2, <2>3
  <2>6. delivered' \cap lost' = {}
    BY <2>1, <2>2, <2>4
  <2> QED BY <2>5, <2>6, <1>0, <1>9 DEF VerdictInv
<1>11. shutdownRequested' => ~buf'.flushTimer
  BY <1>2 DEF IInv
<1> QED BY <1>3, <1>4, <1>5, <1>7, <1>8, <1>10, <1>11 DEF IInv

LEMMA EnqueueInv ==
  ASSUME IInv, Enqueue
  PROVE  IInv'
<1>0. /\ buf \in Buffer /\ accepted \in Nat /\ settled \in Nat /\ captured \in Nat
      /\ shutdownRequested \in BOOLEAN
      /\ counters \in [eventsAccepted : Nat, backpressure : Nat,
                       payloadTooLarge : Nat, retriesExhausted : Nat]
      /\ Len(buf.queue) \in Nat /\ taken \in Nat /\ accepted = taken + Len(buf.queue)
  BY TypeFacts DEF IInv
<1>1. /\ captured' = captured + 1 /\ captured' \in Nat
      /\ UNCHANGED <<shutdownRequested, delivered, lost>>
  BY <1>0 DEF Enqueue
<1>2. PICK bytes \in Size : \/ RefuseAfterShutdown
                            \/ RefuseTooLarge(bytes)
                            \/ RefuseBackpressure(bytes)
                            \/ Accept(bytes)
  BY DEF Enqueue
<1>3. CASE /\ UNCHANGED <<buf, post, calls, accepted>>
           /\ counters' \in [eventsAccepted : Nat, backpressure : Nat,
                             payloadTooLarge : Nat, retriesExhausted : Nat]
  <2>1. settled' = settled
    BY <1>3 DEF settled, taken
  <2>2. VerdictInv'
    BY <1>1, <2>1 DEF VerdictInv, IInv
  <2>3. BufferInv(buf', accepted') /\ Numbered(post'.batch, settled')
    BY <1>3, <2>1 DEF IInv
  <2> QED BY <1>1, <1>3, <2>2, <2>3 DEF IInv
<1>4. CASE RefuseAfterShutdown
  <2>1. UNCHANGED <<buf, post, calls, counters>>
    BY <1>4 DEF RefuseAfterShutdown
  <2> QED BY <1>0, <1>3, <2>1 DEF accepted
<1>5. CASE RefuseTooLarge(bytes)
  <2>1. /\ UNCHANGED <<buf, post, calls>>
        /\ counters' = [counters EXCEPT !.payloadTooLarge = @ + 1]
    BY <1>5 DEF RefuseTooLarge
  <2>2. PICK n \in Nat : n = counters.payloadTooLarge + 1
    BY <1>0
  <2>3. counters' = [counters EXCEPT !.payloadTooLarge = n]
    BY <1>0, <2>1, <2>2
  <2>4. /\ counters' \in [eventsAccepted : Nat, backpressure : Nat,
                           payloadTooLarge : Nat, retriesExhausted : Nat]
        /\ counters'.eventsAccepted = counters.eventsAccepted
    BY <1>0, <2>3
  <2> QED BY <1>3, <2>1, <2>4 DEF accepted
<1>6. CASE RefuseBackpressure(bytes)
  <2>1. /\ counters' \in [eventsAccepted : Nat, backpressure : Nat,
                          payloadTooLarge : Nat, retriesExhausted : Nat]
        /\ accepted' = accepted /\ post' = post /\ calls' = calls
        /\ buf' = [buf EXCEPT !.backpressured = TRUE] /\ OverCap(bytes)
        /\ bytes <= MAX_SINGLE_EVENT_BYTES
    BY <1>0, <1>6 DEF RefuseBackpressure, accepted
  <2>2. /\ buf' \in Buffer /\ buf'.queue = buf.queue /\ buf'.queueBytes = buf.queueBytes
        /\ buf'.oldestEventAt = buf.oldestEventAt /\ buf'.flushTimer = buf.flushTimer
    BY <1>0, <2>1 DEF Buffer
  <2>3. buf.queue # <<>>
    <3> SUFFICES ASSUME buf.queue = <<>> PROVE FALSE
      OBVIOUS
    <3>1. ~buf.backpressured /\ buf.queueBytes = BytesOf(buf.queue)
      BY DEF IInv, BufferInv
    <3>2. buf.queueBytes = 0 /\ Len(buf.queue) = 0
      BY <3>1 DEF BytesOf
    <3>3. bytes \in Nat
      BY TransportAssumption
    <3> QED BY <2>1, <3>1, <3>2, <3>3, Caps DEF OverCap
  <2>4. BufferInv(buf', accepted')
    BY <2>1, <2>2, <2>3 DEF BufferInv, IInv
  <2>5. settled' = settled
    BY <2>1, <2>2 DEF settled, taken
  <2>6. VerdictInv' /\ Numbered(post'.batch, settled')
    BY <1>1, <2>1, <2>5 DEF VerdictInv, IInv
  <2>7. Served(buf, calls) => Served(buf', calls')
    BY <2>1, <2>2 DEF Served
  <2> QED BY <1>1, <2>1, <2>2, <2>4, <2>6, <2>7 DEF IInv
<1>7. CASE Accept(bytes)
  <2> DEFINE b == Pushed(bytes)
  <2>1. /\ ~shutdownRequested /\ bytes <= MAX_SINGLE_EVENT_BYTES /\ ~OverCap(bytes)
        /\ counters' = [counters EXCEPT !.eventsAccepted = @ + 1]
    BY <1>7 DEF Accept
  <2>2. bytes \in Nat \ {0}
    BY TransportAssumption
  <2>3. /\ BufferInv(b, accepted + 1) /\ Len(b.queue) = Len(buf.queue) + 1
        /\ b.queue # <<>> /\ (b.flushTimer <=> buf.flushTimer \/ buf.queue = <<>>)
    <3>1. counters.eventsAccepted \in Nat /\ BufferInv(buf, accepted)
      BY DEF IInv
    <3> QED BY <2>1, <2>2, <3>1, PushPreserves
  <2>4. /\ accepted' = accepted + 1 /\ accepted + 1 \in Nat
        /\ counters' \in [eventsAccepted : Nat, backpressure : Nat,
                          payloadTooLarge : Nat, retriesExhausted : Nat]
    <3> DEFINE n == counters.eventsAccepted
    <3>1. /\ n \in Nat
          /\ counters' = [counters EXCEPT !.eventsAccepted = n + 1]
      BY <1>0, <2>1
    <3>2. n + 1 \in Nat
      BY <3>1
    <3> HIDE DEF n
    <3>3. counters' \in [eventsAccepted : Nat, backpressure : Nat,
                         payloadTooLarge : Nat, retriesExhausted : Nat]
      BY <1>0, <3>1, <3>2
    <3>4. counters'.eventsAccepted = n + 1
      BY <1>0, <3>1
    <3> QED BY <3>2, <3>3, <3>4 DEF accepted, n
  <2>5. (accepted + 1) - Len(b.queue) = taken
    <3> HIDE DEF b
    <3>1. PICK i \in Nat, j \in Nat, k \in Nat :
            i = accepted /\ j = Len(buf.queue) /\ k = taken
      BY <1>0
    <3>2. i = k + j
      BY <3>1, <1>0
    <3>3. (i + 1) - (j + 1) = k
      BY <3>2
    <3> QED BY <3>1, <3>3, <2>3
  <2>6. CASE ~BatchReady(b) /\ buf' = b /\ UNCHANGED <<post, calls>>
    <3>1. settled' = settled
      <4>1. PICK k \in Nat : k = Len(b.queue)
        BY <1>0, <2>3
      <4>2. taken' = (accepted + 1) - k
        BY <2>4, <2>6, <4>1 DEF taken
      <4>3. taken' = taken
        BY <4>1, <4>2, <2>5
      <4> QED BY <4>3, <2>6 DEF settled
    <3>2. VerdictInv' /\ Numbered(post'.batch, settled')
      BY <1>1, <2>6, <3>1 DEF VerdictInv, IInv
    <3>3. Served(buf', calls')
      <4>1. Served(buf, calls)
        BY <2>1 DEF IInv
      <4> QED BY <4>1, <2>3, <2>6 DEF Served
    <3> QED BY <1>1, <2>1, <2>3, <2>4, <2>6, <3>2, <3>3 DEF IInv
  <2>7. CASE \E c \in Idle : FlushLoop(c, NewCall(FALSE), b)
    <3>1. PICK c \in Idle : FlushLoop(c, NewCall(FALSE), b)
      BY <2>7
    <3>2. c \in Call
      BY DEF Idle
    <3>3. Served(b, [calls EXCEPT ![c] = NewCall(FALSE)])
      BY <3>2, UntimedLoopServes
    <3> HIDE DEF b
    <3> QED BY <1>0, <1>1, <2>1, <2>3, <2>4, <2>5, <3>1, <3>2, <3>3, NewCallFacts, FlushStepInv
  <2> QED BY <1>7, <2>6, <2>7 DEF Accept
<1> QED BY <1>2, <1>4, <1>5, <1>6, <1>7

(* The four moves of a batch in flight that keep the batch. *)
Moved(p, phase, attempt, recovered, sends) ==
  [phase |-> phase, batch |-> p.batch, attempt |-> attempt,
   recovered |-> recovered, sends |-> sends]

LEMMA PostMoves ==
  ASSUME NEW p, PostInv(p)
  PROVE  /\ p.phase = "wire" /\ p.attempt + 1 <= RETRY_MAX_ATTEMPTS =>
              PostInv(Moved(p, "backoff", p.attempt + 1, p.recovered, p.sends))
         /\ p.phase = "wire" /\ ~p.recovered =>
              PostInv(Moved(p, "hook", p.attempt, TRUE, p.sends))
         /\ p.phase = "backoff" =>
              PostInv(Moved(p, "wire", p.attempt, p.recovered, p.sends + 1))
         /\ p.phase = "hook" =>
              PostInv(Moved(p, "wire", 0, p.recovered, p.sends + 1))
<1>1. /\ p \in Post /\ p.attempt \in Nat /\ p.attempt <= RETRY_MAX_ATTEMPTS
      /\ p.sends \in Nat /\ p.recovered \in BOOLEAN /\ p.batch \in Seq(Slot)
      /\ Len(p.batch) <= MAX_BATCH_EVENTS /\ BytesOf(p.batch) <= MAX_BATCH_BYTES
  BY Caps DEF PostInv, Post
<1>2. ASSUME NEW phase \in {"wire", "backoff", "hook"},
             NEW attempt \in 0..RETRY_MAX_ATTEMPTS, NEW recovered \in BOOLEAN,
             NEW sends \in Nat,
             phase \in {"wire", "backoff"} =>
               sends <= attempt + (IF phase = "wire" THEN 1 ELSE 0)
                        + (IF recovered THEN 1 + RETRY_MAX_ATTEMPTS ELSE 0),
             phase = "hook" => recovered /\ sends <= 1 + RETRY_MAX_ATTEMPTS
      PROVE  PostInv(Moved(p, phase, attempt, recovered, sends))
  <2> DEFINE m == Moved(p, phase, attempt, recovered, sends)
  <2>1. /\ m.phase = phase /\ m.batch = p.batch /\ m.attempt = attempt
        /\ m.recovered = recovered /\ m.sends = sends
    BY DEF Moved
  <2>2. m \in Post
    BY <1>1 DEF Moved, Post
  <2> HIDE DEF m
  <2>3. PostInv(m)
    BY <1>1, <1>2, <2>1, <2>2 DEF PostInv
  <2> QED BY <2>3 DEF m
<1>3. CASE p.phase = "wire"
  <2>1. p.sends <= p.attempt + 1 + (IF p.recovered THEN 1 + RETRY_MAX_ATTEMPTS ELSE 0)
    BY <1>3 DEF PostInv
  <2>2. p.attempt + 1 <= RETRY_MAX_ATTEMPTS =>
          PostInv(Moved(p, "backoff", p.attempt + 1, p.recovered, p.sends))
    BY <1>1, <1>2, <2>1, Caps
  <2>3. ~p.recovered => PostInv(Moved(p, "hook", p.attempt, TRUE, p.sends))
    <3> SUFFICES ASSUME ~p.recovered
                 PROVE  PostInv(Moved(p, "hook", p.attempt, TRUE, p.sends))
      OBVIOUS
    <3>1. p.sends <= 1 + RETRY_MAX_ATTEMPTS /\ p.attempt \in 0..RETRY_MAX_ATTEMPTS
      BY <1>1, <2>1, Caps
    <3>2. "hook" \in {"wire", "backoff", "hook"} /\ "hook" \notin {"wire", "backoff"}
      OBVIOUS
    <3> QED BY <1>1, <1>2, <3>1, <3>2
  <2> QED BY <1>3, <2>2, <2>3
<1>4. CASE p.phase = "backoff"
  <2>1. p.sends <= p.attempt + (IF p.recovered THEN 1 + RETRY_MAX_ATTEMPTS ELSE 0)
    BY <1>1, <1>4, Caps DEF PostInv
  <2>2. PostInv(Moved(p, "wire", p.attempt, p.recovered, p.sends + 1))
    BY <1>1, <1>2, <2>1, Caps
  <2> QED BY <1>4, <2>2
<1>5. CASE p.phase = "hook"
  <2>1. p.recovered /\ p.sends <= 1 + RETRY_MAX_ATTEMPTS
    BY <1>5 DEF PostInv
  <2>2. /\ p.sends + 1 <= 0 + 1 + (1 + RETRY_MAX_ATTEMPTS)
        /\ p.sends + 1 \in Nat /\ 0 \in 0..RETRY_MAX_ATTEMPTS
    BY <1>1, <2>1, Caps
  <2>3. "wire" \in {"wire", "backoff", "hook"} /\ "wire" # "hook"
    OBVIOUS
  <2>4. PostInv(Moved(p, "wire", 0, p.recovered, p.sends + 1))
    BY <1>1, <1>2, <2>1, <2>2, <2>3
  <2> QED BY <1>5, <2>4
<1> QED BY <1>3, <1>4, <1>5

(* An activation that moves on without touching queue or batch. *)
LEMMA CallStepInv ==
  ASSUME IInv, CallsInv(calls'),
         \A c \in Call : calls[c].pc \in {"awaiting", "ready"} /\ ~calls[c].timed =>
                           calls'[c] = calls[c],
         UNCHANGED <<buf, shutdownRequested, counters, post, history>>
  PROVE  IInv'
<1>1. accepted' = accepted /\ settled' = settled
  BY DEF accepted, taken, settled
<1>2. VerdictInv' /\ BufferInv(buf', accepted') /\ Numbered(post'.batch, settled')
  BY <1>1 DEF VerdictInv, IInv, history
<1>3. Served(buf, calls) => Served(buf', calls')
  BY DEF Served
<1> QED BY <1>2, <1>3 DEF IInv, history

LEMMA NextInv == IInv /\ [Next]_vars => IInv'
<1> SUFFICES ASSUME IInv, [Next]_vars PROVE IInv'
  OBVIOUS
<1>0. /\ buf \in Buffer /\ accepted \in Nat /\ captured \in Nat
      /\ post \in Post /\ PostInv(post)
      /\ calls \in [Call -> Activation]
      /\ shutdownRequested \in BOOLEAN
      /\ counters \in [eventsAccepted : Nat, backpressure : Nat,
                       payloadTooLarge : Nat, retriesExhausted : Nat]
      /\ BufferInv(buf, accepted) /\ accepted - Len(buf.queue) = taken
      /\ \A c \in Call : calls[c].expired => calls[c].timed
  BY TypeFacts DEF IInv, CallsInv, taken
<1> DEFINE quiet == [buf EXCEPT !.flushTimer = FALSE]
<1>1. /\ BufferInv(quiet, accepted) /\ accepted - Len(quiet.queue) = taken
      /\ quiet.queue = buf.queue /\ ~quiet.flushTimer
  <2>1. /\ quiet \in Buffer /\ quiet.queue = buf.queue /\ ~quiet.flushTimer
        /\ quiet.queueBytes = buf.queueBytes /\ quiet.oldestEventAt = buf.oldestEventAt
        /\ quiet.backpressured = buf.backpressured
    BY <1>0 DEF Buffer
  <2> HIDE DEF quiet
  <2> QED BY <2>1, <1>0 DEF BufferInv
<1> HIDE DEF quiet
<1>2. CASE Enqueue
  BY <1>2, EnqueueInv
<1>3. ASSUME NEW c \in Call, Flush(c)
      PROVE  IInv'
  <2>1. PICK timed \in BOOLEAN : FlushLoop(c, NewCall(timed), buf)
    BY <1>3 DEF Flush
  <2>2. /\ c \in Idle /\ UNCHANGED <<shutdownRequested, counters, captured, delivered, lost>>
    BY <1>3 DEF Flush, history
  <2>3. ~shutdownRequested => Served(buf, [calls EXCEPT ![c] = NewCall(timed)])
    BY <2>2, NewLoopServes
  <2>4. shutdownRequested => ~buf.flushTimer
    BY DEF IInv
  <2>5. accepted' = accepted
    BY <2>2 DEF accepted
  <2> QED BY <1>0, <2>1, <2>2, <2>3, <2>4, <2>5, NewCallFacts, FlushStepInv
<1>4. ASSUME NEW c \in Call, Shutdown(c)
      PROVE  IInv'
  <2>1. /\ FlushLoop(c, NewCall(TRUE), quiet) /\ shutdownRequested' = TRUE
        /\ UNCHANGED <<counters, captured, delivered, lost>>
    BY <1>4 DEF Shutdown, history, quiet
  <2>2. accepted' = accepted
    BY <2>1 DEF accepted
  <2> QED BY <1>0, <1>1, <2>1, <2>2, NewCallFacts, FlushStepInv
<1>5. ASSUME NEW c \in Call, FlushContinues(c)
      PROVE  IInv'
  <2>1. /\ FlushLoop(c, calls[c], buf) /\ calls[c].pc = "ready"
        /\ UNCHANGED <<shutdownRequested, counters, captured, delivered, lost>>
    BY <1>5 DEF FlushContinues, history
  <2>2. accepted' = accepted
    BY <2>1 DEF accepted
  <2>3. [calls EXCEPT ![c] = calls[c]] = calls /\ calls[c] \in Activation
    BY <1>0
  <2>4. ~shutdownRequested => Served(buf, [calls EXCEPT ![c] = calls[c]])
    BY <2>3 DEF IInv
  <2>5. shutdownRequested => ~buf.flushTimer
    BY DEF IInv
  <2> QED BY <1>0, <2>1, <2>2, <2>3, <2>4, <2>5, FlushStepInv
<1>6. ASSUME NEW c \in Call, CallerResumes(c)
      PROVE  IInv'
  <2>1. /\ calls[c].pc = "returned" /\ calls' = [calls EXCEPT ![c] = IdleCall]
        /\ UNCHANGED <<buf, shutdownRequested, counters, post, history>>
    BY <1>6 DEF CallerResumes
  <2>2. IdleCall \in Activation /\ ~IdleCall.expired
    BY DEF IdleCall, Activation
  <2>3. CallsInv(calls')
    BY <1>0, <2>1, <2>2 DEF CallsInv
  <2>4. \A d \in Call : calls[d].pc \in {"awaiting", "ready"} => calls'[d] = calls[d]
    BY <1>0, <2>1
  <2> QED BY <2>1, <2>3, <2>4, CallStepInv
<1>7. ASSUME NEW c \in Call, TimeoutElapses(c)
      PROVE  IInv'
  <2>1. /\ calls[c].timed /\ calls' = [calls EXCEPT ![c].expired = TRUE]
        /\ UNCHANGED <<buf, shutdownRequested, counters, post, history>>
    BY <1>7 DEF TimeoutElapses
  <2>2. CallsInv(calls')
    BY <1>0, <2>1 DEF CallsInv, Activation
  <2>3. \A d \in Call : ~calls[d].timed => calls'[d] = calls[d]
    BY <1>0, <2>1
  <2> QED BY <2>1, <2>2, <2>3, CallStepInv
<1>8. CASE FlushTimerFires
  <2>1. PICK c \in Idle : FlushLoop(c, NewCall(FALSE), quiet)
    BY <1>8 DEF FlushTimerFires, quiet
  <2>2. /\ c \in Call /\ UNCHANGED <<shutdownRequested, counters, captured, delivered, lost>>
    BY <1>8 DEF FlushTimerFires, history, Idle
  <2>3. Served(quiet, [calls EXCEPT ![c] = NewCall(FALSE)])
    BY <2>2, UntimedLoopServes
  <2>4. accepted' = accepted
    BY <2>2 DEF accepted
  <2> QED BY <1>0, <1>1, <2>1, <2>2, <2>3, <2>4, NewCallFacts, FlushStepInv
<1>9. CASE AnswerAccepted
  BY <1>0, <1>9, SettleStepInv DEF AnswerAccepted, accepted
<1>10. CASE AnswerTerminal
  BY <1>0, <1>10, SettleStepInv DEF AnswerTerminal, GiveUp, accepted
<1>11. CASE AnswerRetryable
  <2>1. CASE RetriesExhausted /\ GiveUp
    <3>1. /\ counters' \in [eventsAccepted : Nat, backpressure : Nat,
                            payloadTooLarge : Nat, retriesExhausted : Nat]
          /\ accepted' = accepted /\ UNCHANGED <<shutdownRequested, captured>>
      BY <1>0, <1>11 DEF AnswerRetryable, accepted
    <3> QED BY <1>11, <2>1, <3>1, SettleStepInv DEF AnswerRetryable, GiveUp
  <2>2. CASE ~RetriesExhausted
    <3>1. /\ OnWire /\ post' = [post EXCEPT !.phase = "backoff", !.attempt = @ + 1]
          /\ UNCHANGED <<buf, shutdownRequested, counters, calls, history>>
      BY <1>11, <2>2 DEF AnswerRetryable, history
    <3>2. /\ post' = Moved(post, "backoff", post.attempt + 1, post.recovered, post.sends)
          /\ post.attempt + 1 <= RETRY_MAX_ATTEMPTS
      <4>1. post' = Moved(post, "backoff", post.attempt + 1, post.recovered, post.sends)
        BY <1>0, <3>1 DEF Post, Moved
      <4>2. post.attempt \in Nat /\ ~(post.attempt + 1 > RETRY_MAX_ATTEMPTS)
        BY <1>0, <2>2, Caps DEF Post, RetriesExhausted
      <4>3. post.attempt + 1 <= RETRY_MAX_ATTEMPTS
        BY <4>2, Caps
      <4> QED BY <4>1, <4>3
    <3>3. PostInv(post') /\ post'.batch = post.batch
      BY <1>0, <3>1, <3>2, PostMoves DEF OnWire, Moved
    <3> QED BY <3>1, <3>3, PostStepInv
  <2> QED BY <1>11, <2>1, <2>2 DEF AnswerRetryable
<1>12. CASE AnswerSessionUnknown
  <2>1. CASE GiveUp
    BY <1>0, <1>12, <2>1, SettleStepInv DEF AnswerSessionUnknown, GiveUp, accepted
  <2>2. CASE ~post.recovered /\ ~GiveUp
    <3>1. /\ OnWire /\ post' = [post EXCEPT !.phase = "hook", !.recovered = TRUE]
          /\ UNCHANGED <<buf, shutdownRequested, counters, calls, history>>
      BY <1>12, <2>2 DEF AnswerSessionUnknown, history
    <3>2. post' = Moved(post, "hook", post.attempt, TRUE, post.sends)
      BY <1>0, <3>1 DEF Post, Moved
    <3>3. PostInv(post') /\ post'.batch = post.batch
      BY <1>0, <2>2, <3>1, <3>2, PostMoves DEF OnWire, Moved
    <3> QED BY <3>1, <3>3, PostStepInv
  <2> QED BY <1>12, <2>1, <2>2 DEF AnswerSessionUnknown
<1>13. CASE BackoffElapses
  <2>1. /\ post.phase = "backoff" /\ post' = [post EXCEPT !.phase = "wire", !.sends = @ + 1]
        /\ UNCHANGED <<buf, shutdownRequested, counters, calls, history>>
    BY <1>13 DEF BackoffElapses
  <2>2. post' = Moved(post, "wire", post.attempt, post.recovered, post.sends + 1)
    BY <1>0, <2>1 DEF Post, Moved
  <2>3. PostInv(post') /\ post'.batch = post.batch
    BY <1>0, <2>1, <2>2, PostMoves DEF Moved
  <2> QED BY <2>1, <2>3, PostStepInv
<1>14. CASE RecoveryHookSettles
  <2>1. /\ post.phase = "hook"
        /\ post' = [post EXCEPT !.phase = "wire", !.attempt = 0, !.sends = @ + 1]
        /\ UNCHANGED <<buf, shutdownRequested, counters, calls, history>>
    BY <1>14 DEF RecoveryHookSettles
  <2>2. post' = Moved(post, "wire", 0, post.recovered, post.sends + 1)
    BY <1>0, <2>1 DEF Post, Moved
  <2>3. PostInv(post') /\ post'.batch = post.batch
    BY <1>0, <2>1, <2>2, PostMoves DEF Moved
  <2> QED BY <2>1, <2>3, PostStepInv
<1>15. CASE UNCHANGED vars
  <2>1. /\ UNCHANGED <<buf, shutdownRequested, counters, post, history>> /\ calls' = calls
    BY <1>15 DEF vars
  <2>2. CallsInv(calls')
    BY <2>1 DEF IInv
  <2> QED BY <2>1, <2>2, CallStepInv
<1> QED BY <1>2, <1>3, <1>4, <1>5, <1>6, <1>7, <1>8, <1>9, <1>10, <1>11, <1>12,
           <1>13, <1>14, <1>15 DEF Next, Answer

LEMMA Invariance == Spec => []IInv
BY InitInv, NextInv, PTL DEF Spec

-----------------------------------------------------------------------------
(* The properties the runs check, for every value of the constants.        *)

(* Every variable has its type (the invariants read the code's fields      *)
(* through this).                                                          *)
THEOREM TypeCorrect == Spec => []TypeOK
<1>1. IInv => TypeOK
  <2> SUFFICES ASSUME IInv PROVE TypeOK
    OBVIOUS
  <2>1. settled \in Nat /\ delivered \cup lost = 1..settled
    BY TypeFacts DEF IInv, VerdictInv
  <2>2. 1..settled \subseteq Nat \ {0}
    BY <2>1
  <2>3. delivered \in SUBSET (Nat \ {0}) /\ lost \in SUBSET (Nat \ {0})
    BY <2>1, <2>2
  <2> QED BY <2>3, TypeFacts DEF TypeOK, IInv
<1> QED BY <1>1, Invariance, PTL

(* No interleaving of captures, timers, flush loops and shutdown skips,    *)
(* duplicates or reorders an event (transport.ts:286-334, 368-404,         *)
(* 460-478).                                                               *)
THEOREM PipelineOrderHolds == Spec => []PipelineOrder
<1>1. IInv => PipelineOrder
  <2> SUFFICES ASSUME IInv PROVE PipelineOrder
    OBVIOUS
  <2>1. Numbered(buf.queue, taken) /\ Numbered(post.batch, settled) /\ VerdictInv
    BY DEF IInv, BufferInv, taken
  <2> QED BY <2>1 DEF PipelineOrder, VerdictInv, Numbered
<1> QED BY <1>1, Invariance, PTL

(* While the transport is open, whatever is queued has the interval timer  *)
(* armed or an untimed flush loop under way (transport.ts:316-319,         *)
(* 373-376, 473-476, 480-489).                                             *)
THEOREM NoStrandedEventsHolds == Spec => []NoStrandedEvents
<1>1. IInv => NoStrandedEvents
  BY DEF IInv, Served, NoStrandedEvents
<1> QED BY <1>1, Invariance, PTL

(* The queue keeps its two caps and its byte total stays exact             *)
(* (transport.ts:303-313, 466-471).                                        *)
THEOREM QueueWithinCapsHolds == Spec => []QueueWithinCaps
<1>1. IInv => QueueWithinCaps
  BY DEF IInv, BufferInv, QueueWithinCaps
<1> QED BY <1>1, Invariance, PTL

(* Every request keeps the batch caps (transport.ts:460-472).              *)
THEOREM BatchWithinCapsHolds == Spec => []BatchWithinCaps
<1>1. IInv => BatchWithinCaps
  BY DEF IInv, PostInv, BatchWithinCaps
<1> QED BY <1>1, Invariance, PTL

(* Back-pressure never survives the batch that empties the queue           *)
(* (transport.ts:303-311, 498-505).                                        *)
THEOREM BackpressureHasADrainHolds == Spec => []BackpressureHasADrain
<1>1. IInv => BackpressureHasADrain
  BY DEF IInv, BufferInv, BackpressureHasADrain
<1> QED BY <1>1, Invariance, PTL

(* The number of POSTs per batch is bounded by two retry envelopes         *)
(* (transport.ts:412-447, 511-585).                                        *)
THEOREM BoundedPostsHolds == Spec => []BoundedPosts
<1>1. IInv => BoundedPosts
  <2> SUFFICES ASSUME IInv PROVE BoundedPosts
    OBVIOUS
  <2>1. PostInv(post) /\ post \in Post
    BY TypeFacts DEF IInv
  <2>2. post.phase = "none" => post.sends = 0 /\ ~post.recovered
    BY <2>1 DEF PostInv, NoPost
  <2> QED BY <2>1, <2>2, Caps DEF PostInv, Post, BoundedPosts
<1> QED BY <1>1, Invariance, PTL

(* Shutdown is final, whatever flushes and timers are under way            *)
(* (transport.ts:287-290, 450-452).                                        *)
THEOREM ClosedAfterShutdownHolds == Spec => ClosedAfterShutdown
<1>1. IInv /\ [Next]_vars =>
        [shutdownRequested => accepted' = accepted /\ ~buf'.flushTimer]_vars
  <2> SUFFICES ASSUME IInv, Next, shutdownRequested
               PROVE  accepted' = accepted /\ ~buf'.flushTimer
    OBVIOUS
  <2>1. IInv'
    BY NextInv
  <2>2. counters \in [eventsAccepted : Nat, backpressure : Nat, payloadTooLarge : Nat,
                      retriesExhausted : Nat]
    BY DEF IInv
  <2>3. shutdownRequested' = TRUE
    <3>1. CASE \E c \in Call : Shutdown(c)
      BY <3>1 DEF Shutdown
    <3>2. CASE ~\E c \in Call : Shutdown(c)
      BY <3>2 DEF IInv, Next, Enqueue, Flush, FlushContinues, CallerResumes, TimeoutElapses,
         FlushTimerFires, Answer, AnswerAccepted, AnswerTerminal, AnswerRetryable,
         AnswerSessionUnknown, BackoffElapses, RecoveryHookSettles
    <3> QED BY <3>1, <3>2
  <2>7. accepted' = accepted
    <3>1. CASE Enqueue
      BY <3>1 DEF Enqueue, RefuseAfterShutdown, RefuseTooLarge, RefuseBackpressure, Accept,
                  accepted
    <3>2. CASE AnswerRetryable
      BY <2>2, <3>2 DEF AnswerRetryable, accepted
    <3>3. CASE ~Enqueue /\ ~AnswerRetryable
      BY <3>3 DEF Next, Flush, Shutdown, FlushContinues, CallerResumes, TimeoutElapses,
         FlushTimerFires, Answer, AnswerAccepted, AnswerTerminal,
         AnswerSessionUnknown, BackoffElapses, RecoveryHookSettles, accepted
    <3> QED BY <3>1, <3>2, <3>3
  <2>8. ~buf'.flushTimer
    BY <2>1, <2>3 DEF IInv
  <2> QED BY <2>7, <2>8
<1> QED BY <1>1, Invariance, PTL DEF Spec, ClosedAfterShutdown

-----------------------------------------------------------------------------
(* The transport implements the abstract pipeline.                         *)

(* A flush loop on a buffer that holds what was taken up to `total` ships  *)
(* one run of the pipeline, or nothing.                                    *)
LEMMA FlushLoopShips ==
  ASSUME IInv, NEW b, NEW total \in Nat, NEW c \in Call, NEW a,
         BufferInv(b, total), total - Len(b.queue) = taken,
         FlushLoop(c, a, b), accepted' = total, UNCHANGED delivered, settled' = settled
  PROVE  UNCHANGED <<taken, settled, delivered>> \/ Pipeline!Ship(total)
<1>0. /\ b.queue \in Seq(Slot) /\ Len(b.queue) \in Nat /\ taken \in Nat
      /\ settled \in Nat /\ taken = settled + Len(post.batch)
  BY TypeFacts, LenProperties DEF BufferInv, Buffer
<1>1. taken' = total - Len(buf'.queue)
  BY DEF taken
<1>2. CASE buf' = b
  BY <1>1, <1>2
<1>3. CASE buf' # b
  <2>1. /\ post = NoPost
        /\ \E n \in 1..Len(b.queue) : BatchLength(b.queue, n) /\ buf' = TakeBatch(b, n)
    BY <1>3 DEF FlushLoop, FlushInFlight
  <2>2. PICK n \in 1..Len(b.queue) : BatchLength(b.queue, n) /\ buf' = TakeBatch(b, n)
    BY <2>1
  <2>3. Len(buf'.queue) = Len(b.queue) - n /\ n <= MAX_BATCH_EVENTS
    BY <2>2, TakeBatchPreserves
  <2>4. Len(post.batch) = 0
    BY <2>1 DEF NoPost
  <2>5. taken = settled
    BY <1>0, <2>4
  <2>6. PICK k \in Nat : k = Len(buf'.queue) /\ k = Len(b.queue) - n
    <3>1. Len(b.queue) - n \in Nat
      BY <1>0
    <3> QED BY <2>3, <3>1
  <2>7. PICK t \in Nat, l \in Nat : t = taken /\ l = Len(b.queue) /\ total - l = t
    BY <1>0
  <2>8. k = l - n /\ n \in 1..l
    BY <2>6, <2>7
  <2>9. /\ total - k \in t + 1 .. t + MAX_BATCH_EVENTS
        /\ total - k <= total
    <3>1. n \in Nat /\ 1 <= n /\ n <= l /\ n <= MAX_BATCH_EVENTS /\ total = t + l
      BY <2>3, <2>7, <2>8
    <3>2. total - k = t + n /\ total - k <= total
      BY <2>8, <3>1
    <3> QED BY <3>1, <3>2, Caps
  <2>10. taken' \in taken + 1 .. taken + MAX_BATCH_EVENTS /\ taken' <= total
    BY <1>1, <2>6, <2>7, <2>9
  <2> QED BY <2>5, <2>10 DEF Pipeline!Ship
<1> QED BY <1>2, <1>3

(* Answers that end the batch are one Settle of the pipeline. *)
LEMMA SettleSettles ==
  ASSUME IInv, IInv', OnWire, Settle, accepted' = accepted,
         delivered' = delivered \/ delivered' = delivered \cup IdsOf(post.batch)
  PROVE  Pipeline!Settle \/ UNCHANGED <<accepted, taken, settled, delivered>>
<1>1. /\ buf \in Buffer /\ settled \in Nat /\ taken \in Nat
      /\ IdsOf(post.batch) = settled + 1 .. taken /\ settled <= taken
  BY TypeFacts, BatchIds
<1>2. buf'.queue = buf.queue /\ Len(post'.batch) = 0
  BY <1>1, HysteresisFacts DEF Settle, NoPost
<1>3. taken' = taken
  BY <1>2 DEF taken
<1>4. settled' = taken
  <2>1. settled' = taken' - Len(post'.batch)
    BY DEF settled
  <2>2. PICK k \in Nat : k = taken
    BY <1>1
  <2>3. k - 0 = k
    OBVIOUS
  <2> QED BY <2>1, <2>2, <2>3, <1>2, <1>3
<1>5. CASE settled < taken
  BY <1>1, <1>3, <1>4, <1>5 DEF Pipeline!Settle
<1>6. CASE settled = taken
  <2>1. settled + 1 .. taken = {}
    BY <1>1, <1>6
  <2> QED BY <1>1, <1>3, <1>4, <1>6, <2>1
<1> QED BY <1>1, <1>5, <1>6

LEMMA RefinementStep ==
  IInv /\ IInv' /\ [Next]_vars => [Pipeline!Next]_Pipeline!vars
<1> SUFFICES ASSUME IInv, IInv', [Next]_vars
             PROVE  \/ Pipeline!Next
                    \/ UNCHANGED <<accepted, taken, settled, delivered>>
  BY DEF Pipeline!vars
<1>0. /\ buf \in Buffer /\ accepted \in Nat /\ BufferInv(buf, accepted)
      /\ accepted - Len(buf.queue) = taken /\ calls \in [Call -> Activation]
      /\ counters \in [eventsAccepted : Nat, backpressure : Nat,
                       payloadTooLarge : Nat, retriesExhausted : Nat]
      /\ \A c \in Call : calls[c].expired => calls[c].timed
  BY TypeFacts DEF IInv, taken, CallsInv
(* A flush loop on the queue as it is. *)
<1>1. ASSUME NEW b, NEW c \in Call, NEW a,
             BufferInv(b, accepted), b.queue = buf.queue,
             a \in Activation, a.pc = "ready", a.expired => a.timed,
             FlushLoop(c, a, b), UNCHANGED <<counters, delivered, lost>>
      PROVE  Pipeline!Next \/ UNCHANGED <<accepted, taken, settled, delivered>>
  <2>1. accepted' = accepted /\ accepted - Len(b.queue) = taken
    BY <1>0, <1>1 DEF accepted
  <2>2. settled' = settled
    BY <1>0, <1>1, <2>1, FlushStepPreserves
  <2>3. UNCHANGED <<taken, settled, delivered>> \/ Pipeline!Ship(accepted)
    BY <1>0, <1>1, <2>1, <2>2, FlushLoopShips
  <2> QED BY <2>1, <2>3 DEF Pipeline!Next, Pipeline!ShipQueued
<1> DEFINE quiet == [buf EXCEPT !.flushTimer = FALSE]
<1>2. BufferInv(quiet, accepted) /\ quiet.queue = buf.queue
  <2>1. /\ quiet \in Buffer /\ quiet.queue = buf.queue
        /\ quiet.queueBytes = buf.queueBytes /\ quiet.oldestEventAt = buf.oldestEventAt
        /\ quiet.backpressured = buf.backpressured
    BY <1>0 DEF Buffer
  <2> HIDE DEF quiet
  <2> QED BY <2>1, <1>0 DEF BufferInv
<1> HIDE DEF quiet
<1>3. CASE UNCHANGED <<counters, buf, post, delivered>>
  BY <1>3 DEF accepted, taken, settled
<1>4. CASE Enqueue
  <2>1. PICK bytes \in Size : \/ RefuseAfterShutdown
                              \/ RefuseTooLarge(bytes)
                              \/ RefuseBackpressure(bytes)
                              \/ Accept(bytes)
    BY <1>4 DEF Enqueue
  <2>2. UNCHANGED <<delivered, lost>>
    BY <1>4 DEF Enqueue
  <2>3. CASE RefuseAfterShutdown
    BY <2>2, <2>3, <1>3 DEF RefuseAfterShutdown
  <2>4. CASE RefuseTooLarge(bytes)
    BY <2>2, <2>4, <1>0 DEF RefuseTooLarge, accepted, taken, settled
  <2>5. CASE RefuseBackpressure(bytes)
    <3>1. accepted' = accepted /\ buf'.queue = buf.queue /\ post' = post
      BY <2>5, <1>0 DEF RefuseBackpressure, accepted, Buffer
    <3> QED BY <3>1, <2>2 DEF taken, settled
  <2>6. CASE Accept(bytes)
    <3> DEFINE b == Pushed(bytes)
    <3>1. /\ bytes <= MAX_SINGLE_EVENT_BYTES /\ ~OverCap(bytes)
          /\ accepted' = accepted + 1 /\ accepted + 1 \in Nat
      BY <1>0, <2>6 DEF Accept, accepted
    <3>2. /\ BufferInv(b, accepted + 1) /\ Len(b.queue) = Len(buf.queue) + 1
      <4>1. counters.eventsAccepted \in Nat /\ bytes \in Nat \ {0}
        BY <1>0, TransportAssumption
      <4> QED BY <1>0, <3>1, <4>1, PushPreserves
    <3>3. (accepted + 1) - Len(b.queue) = taken
      <4> HIDE DEF b
      <4>0. Len(buf.queue) \in Nat /\ taken \in Nat /\ accepted = taken + Len(buf.queue)
        BY TypeFacts
      <4>1. PICK i \in Nat, j \in Nat, k \in Nat :
              i = accepted /\ j = Len(buf.queue) /\ k = taken
        BY <1>0, <4>0
      <4>2. i = k + j
        BY <4>0, <4>1
      <4>3. (i + 1) - (j + 1) = k
        BY <4>2
      <4> QED BY <4>1, <4>3, <3>2
    <3>4. CASE buf' = b /\ UNCHANGED <<post, calls>>
      <4>1. PICK k \in Nat : k = Len(b.queue)
        BY <3>2, <1>0, TypeFacts
      <4>2. taken' = (accepted + 1) - k
        BY <3>1, <3>4, <4>1 DEF taken
      <4>3. taken' = taken
        BY <4>1, <4>2, <3>3
      <4>4. settled' = settled
        BY <4>3, <3>4 DEF settled
      <4> QED BY <4>3, <4>4, <3>1, <2>2 DEF Pipeline!Next, Pipeline!Accept
    <3>5. CASE \E c \in Idle : FlushLoop(c, NewCall(FALSE), b)
      <4>1. PICK c \in Call : FlushLoop(c, NewCall(FALSE), b)
        BY <3>5 DEF Idle
      <4> HIDE DEF b
      <4>2. settled' = settled
        BY <4>1, <2>2, <3>1, <3>2, <3>3, NewCallFacts, FlushStepPreserves
      <4>3. UNCHANGED <<taken, settled, delivered>> \/ Pipeline!Ship(accepted + 1)
        BY <4>1, <4>2, <2>2, <3>1, <3>2, <3>3, FlushLoopShips
      <4> QED BY <4>3, <3>1 DEF Pipeline!Next, Pipeline!Accept
    <3> QED BY <2>6, <3>4, <3>5 DEF Accept
  <2> QED BY <2>1, <2>3, <2>4, <2>5, <2>6
<1>5. ASSUME NEW c \in Call, Flush(c)
      PROVE  Pipeline!Next \/ UNCHANGED <<accepted, taken, settled, delivered>>
  BY <1>0, <1>1, <1>5, NewCallFacts DEF Flush, history
<1>6. ASSUME NEW c \in Call, Shutdown(c)
      PROVE  Pipeline!Next \/ UNCHANGED <<accepted, taken, settled, delivered>>
  BY <1>1, <1>2, <1>6, NewCallFacts DEF Shutdown, history, quiet
<1>7. ASSUME NEW c \in Call, FlushContinues(c)
      PROVE  Pipeline!Next \/ UNCHANGED <<accepted, taken, settled, delivered>>
  BY <1>0, <1>1, <1>7 DEF FlushContinues, history
<1>8. CASE FlushTimerFires
  <2>1. PICK c \in Call : FlushLoop(c, NewCall(FALSE), quiet)
    BY <1>8 DEF FlushTimerFires, quiet, Idle
  <2> QED BY <1>1, <1>2, <1>8, <2>1, NewCallFacts DEF FlushTimerFires, history
<1>9. ASSUME NEW c \in Call, CallerResumes(c) \/ TimeoutElapses(c)
      PROVE  Pipeline!Next \/ UNCHANGED <<accepted, taken, settled, delivered>>
  BY <1>3, <1>9 DEF CallerResumes, TimeoutElapses, history
<1>10. CASE AnswerAccepted
  <2>1. accepted' = accepted
    BY <1>10 DEF AnswerAccepted, accepted
  <2> QED BY <1>10, <2>1, SettleSettles DEF AnswerAccepted, Pipeline!Next
<1>11. CASE OnWire /\ GiveUp /\ accepted' = accepted
  BY <1>11, SettleSettles DEF GiveUp, Pipeline!Next
<1>12. CASE AnswerTerminal
  BY <1>11, <1>12 DEF AnswerTerminal, accepted
<1>13. CASE UNCHANGED <<counters, buf, delivered>> /\ post'.batch = post.batch
  BY <1>13 DEF accepted, taken, settled
<1>14. CASE AnswerRetryable
  <2>1. post \in Post
    BY TypeFacts
  <2>2. CASE GiveUp
    BY <1>0, <1>11, <1>14, <2>2 DEF AnswerRetryable, accepted
  <2>3. CASE ~GiveUp
    BY <1>13, <1>14, <2>1, <2>3 DEF AnswerRetryable, Post
  <2> QED BY <2>2, <2>3
<1>15. CASE AnswerSessionUnknown
  <2>1. post \in Post
    BY TypeFacts
  <2>2. CASE GiveUp
    BY <1>11, <1>15, <2>2 DEF AnswerSessionUnknown, accepted
  <2>3. CASE ~GiveUp
    BY <1>13, <1>15, <2>1, <2>3 DEF AnswerSessionUnknown, Post
  <2> QED BY <2>2, <2>3
<1>16. CASE BackoffElapses \/ RecoveryHookSettles
  <2>1. post \in Post
    BY TypeFacts
  <2> QED BY <1>13, <1>16, <2>1 DEF BackoffElapses, RecoveryHookSettles, history, Post
<1>17. CASE UNCHANGED vars
  BY <1>3, <1>17 DEF vars, history
<1> QED BY <1>4, <1>5, <1>6, <1>7, <1>8, <1>9, <1>10, <1>12, <1>14, <1>15, <1>16, <1>17
        DEF Next, Answer

(* Behind queues, byte caps, timers, retries and recovery, the transport   *)
(* is the abstract pipeline: runs leave in order, one at a time, and each  *)
(* is settled once as a whole (transport.ts:286-585).                      *)
THEOREM ImplementsPipeline == Spec => PipelineSpec
<1>1. Init => Pipeline!Init
  BY DEF Init, Pipeline!Init, accepted, taken, settled, NoPost
<1> QED BY <1>1, RefinementStep, Invariance, PTL DEF Spec, PipelineSpec, Pipeline!Spec

=============================================================================
