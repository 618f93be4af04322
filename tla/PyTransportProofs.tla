-------------------------- MODULE PyTransportProofs --------------------------
(***************************************************************************)
(* Machine-checked proofs about PyTransport, for every cap, every retry    *)
(* budget and every number of concurrent flush() and shutdown() calls.     *)
(*                                                                         *)
(* The whole pipeline, the batch in flight followed by the queue, is one   *)
(* run of slots, and a step leaves it alone, appends to it or takes a      *)
(* prefix off it: PipeInv is about that run, so posting and putting back a *)
(* batch cost no proof.  LockInv ties the lock, the program counters and   *)
(* the batch together.  What a method does between two awaits is cut into  *)
(* PostBatch, FlushEnds and FlushLoop; each has a lemma about any          *)
(* transport record it may be applied to.                                  *)
(***************************************************************************)
EXTENDS PyTransport, SequenceTheorems, TLAPS

(* Offsets really are running sums: End(slot) is the next slot's offset. *)
Contiguous(slots) ==
  /\ \A i \in 1..Len(slots) - 1 : slots[i + 1].offset = End(slots[i])
  /\ \A i, j \in 1..Len(slots) : i < j => End(slots[i]) <= slots[j].offset

Numbered(slots, base) == \A i \in 1..Len(slots) : slots[i].id = base + i

MaxPipelineEvents == MAX_QUEUE_EVENTS + MAX_BATCH_EVENTS
MaxPipelineBytes == MAX_QUEUE_BYTES + 2 * MAX_BATCH_BYTES

(* The pipeline p of n accepted events, when d have been delivered and l   *)
(* lost.                                                                   *)
PipeInv(p, n, d, l) ==
  /\ p \in Seq(Slot)
  /\ n \in Nat
  /\ Len(p) <= n
  /\ Numbered(p, n - Len(p))
  /\ Contiguous(p)
  /\ Len(p) <= MaxPipelineEvents
  /\ BytesOf(p) < MaxPipelineBytes
  /\ d \cup l = 1..n - Len(p)
  /\ d \cap l = {}

BatchInv(b) == Len(b) <= MAX_BATCH_EVENTS /\ BytesOf(b) <= MAX_BATCH_BYTES

TrInv(t, n, d, l) ==
  /\ t \in Transport
  /\ PipeInv(t.batch \o t.queue, n, d, l)
  /\ BatchInv(t.batch)

InFlush == {"lock", "wire", "backoff"}
OnWire == {"wire", "backoff"}

Holders(t) == {t.lock[i] : i \in 1..Len(t.lock)}

Distinct(q) == \A i, j \in 1..Len(q) : q[i] = q[j] => i = j

(* The lock discipline of the calls other than c. *)
OthersInv(t, c) ==
  /\ Distinct(t.lock)
  /\ \A d \in Call \ {c} : d \in Holders(t) <=> calls[d].pc \in InFlush
  /\ \A i \in 1..Len(t.lock) :
       t.lock[i] # c /\ calls[t.lock[i]].pc \in OnWire => i = 1 /\ t.batch # <<>>

(* c has left flush(), and t is what it leaves behind. *)
Outside(t, c) ==
  /\ OthersInv(t, c)
  /\ c \notin Holders(t)
  /\ t.batch # <<>> => t.lock # <<>> /\ calls[t.lock[1]].pc \in OnWire

(* c holds the lock and has no batch in flight. *)
Inside(t, c) ==
  /\ OthersInv(t, c)
  /\ t.lock # <<>> /\ t.lock[1] = c
  /\ t.batch = <<>>

LockInv(t, cs) ==
  /\ Distinct(t.lock)
  /\ \A d \in Call : d \in Holders(t) <=> cs[d].pc \in InFlush
  /\ \A i \in 1..Len(t.lock) : cs[t.lock[i]].pc \in OnWire => i = 1 /\ t.batch # <<>>
  /\ t.batch # <<>> => t.lock # <<>> /\ cs[t.lock[1]].pc \in OnWire

(* The invariant, of any transport record, calls and history. *)
Sound(t, cs, p, n, d, l) ==
  /\ TrInv(t, n, d, l)
  /\ cs \in [Call -> Activation]
  /\ LockInv(t, cs)
  /\ p \in Nat

IInv == Sound(tr, calls, posted, accepted, delivered, lost)

-----------------------------------------------------------------------------
(* The caps that ASSUME fixes, as plain facts. *)
LEMMA Caps ==
  /\ MAX_BATCH_EVENTS \in Nat /\ MAX_BATCH_EVENTS >= 1
  /\ MAX_BATCH_BYTES \in Nat /\ MAX_BATCH_BYTES >= 1
  /\ MAX_QUEUE_EVENTS \in Nat /\ MAX_QUEUE_EVENTS >= 1
  /\ MAX_QUEUE_BYTES \in Nat /\ MAX_QUEUE_BYTES >= 1
  /\ MAX_RETRIES \in Nat
BY PyTransportAssumption

LEMMA SlotEnd ==
  ASSUME NEW x \in Slot
  PROVE  x.offset \in Nat /\ End(x) \in Nat /\ End(x) > x.offset
BY Caps DEF Slot, End

LEMMA RunBytes ==
  ASSUME NEW q \in Seq(Slot), Len(q) >= 1
  PROVE  q # <<>> /\ BytesOf(q) = End(q[Len(q)]) - q[1].offset
<1>1. q # <<>>
  BY EmptySeq
<1> QED BY <1>1 DEF BytesOf

(* The first n slots of a run and the rest of it: numbered, contiguous and *)
(* a split of its bytes.                                                   *)
LEMMA Split ==
  ASSUME NEW q \in Seq(Slot), Contiguous(q), NEW n \in 1..Len(q), NEW base \in Int
  PROVE  /\ First(q, n) \in Seq(Slot) /\ Len(First(q, n)) = n
         /\ \A i \in 1..n : First(q, n)[i] = q[i]
         /\ Rest(q, n) \in Seq(Slot) /\ Len(Rest(q, n)) = Len(q) - n
         /\ \A i \in 1..Len(q) - n : Rest(q, n)[i] = q[n + i]
         /\ First(q, n) \o Rest(q, n) = q
         /\ Contiguous(Rest(q, n))
         /\ Numbered(q, base) => Numbered(Rest(q, n), base + n)
<1>0. Len(q) \in Nat /\ n \in Nat /\ 1 <= n /\ n <= Len(q)
  BY LenProperties
<1>1. \A i \in 1..Len(q) : q[i] \in Slot
  BY ElementOfSeq
<1>2. /\ First(q, n) \in Seq(Slot) /\ Len(First(q, n)) = n
      /\ \A i \in 1..n : First(q, n)[i] = q[i]
  <2>1. \A i \in 1..n : q[i] \in Slot
    BY <1>0, <1>1
  <2>2. /\ SubSeq(q, 1, n) \in Seq(Slot)
        /\ Len(SubSeq(q, 1, n)) = IF 1 <= n THEN n - 1 + 1 ELSE 0
        /\ \A i \in 1..n - 1 + 1 : SubSeq(q, 1, n)[i] = q[1 + i - 1]
    BY <2>1, <1>0, SubSeqProperties
  <2>3. n - 1 + 1 = n /\ \A i \in 1..n : 1 + i - 1 = i
    BY <1>0
  <2> QED BY <2>2, <2>3, <1>0 DEF First
<1>3. /\ Rest(q, n) \in Seq(Slot) /\ Len(Rest(q, n)) = Len(q) - n
      /\ \A i \in 1..Len(q) - n : Rest(q, n)[i] = q[n + i]
  <2>1. \A i \in n + 1..Len(q) : q[i] \in Slot
    BY <1>0, <1>1
  <2>2. /\ SubSeq(q, n + 1, Len(q)) \in Seq(Slot)
        /\ Len(SubSeq(q, n + 1, Len(q))) =
             IF n + 1 <= Len(q) THEN Len(q) - (n + 1) + 1 ELSE 0
        /\ \A i \in 1..Len(q) - (n + 1) + 1 :
             SubSeq(q, n + 1, Len(q))[i] = q[(n + 1) + i - 1]
    BY <2>1, <1>0, SubSeqProperties
  <2>3. /\ Len(q) - (n + 1) + 1 = Len(q) - n
        /\ (~(n + 1 <= Len(q))) => Len(q) - n = 0
        /\ \A i \in 1..Len(q) - n : (n + 1) + i - 1 = n + i
    BY <1>0
  <2> QED BY <2>2, <2>3 DEF Rest
<1>4. First(q, n) \o Rest(q, n) = q
  <2>1. /\ 1 \in 1..Len(q) + 1 /\ n \in 1 - 1..Len(q) /\ Len(q) \in n..Len(q)
    BY <1>0
  <2>2. SubSeq(q, 1, n) \o SubSeq(q, n + 1, Len(q)) = SubSeq(q, 1, Len(q))
    BY <2>1, ConcatAdjacentSubSeq
  <2> QED BY <2>2, SubSeqFull DEF First, Rest
<1> DEFINE r == Rest(q, n)
<1>5. Contiguous(r)
  <2>1. ASSUME NEW i \in 1..Len(r) - 1
        PROVE  r[i + 1].offset = End(r[i])
    <3>1. /\ i \in 1..Len(q) - n /\ i + 1 \in 1..Len(q) - n
          /\ n + i \in 1..Len(q) - 1 /\ n + (i + 1) = (n + i) + 1
      BY <1>0, <1>3
    <3>2. r[i] = q[n + i] /\ r[i + 1] = q[(n + i) + 1]
      BY <3>1, <1>3
    <3> QED BY <3>1, <3>2 DEF Contiguous
  <2>2. ASSUME NEW i \in 1..Len(r), NEW j \in 1..Len(r), i < j
        PROVE  End(r[i]) <= r[j].offset
    <3>1. r[i] = q[n + i] /\ r[j] = q[n + j]
      BY <1>3
    <3>2. n + i \in 1..Len(q) /\ n + j \in 1..Len(q) /\ n + i < n + j
      BY <1>0, <1>3, <2>2
    <3> QED BY <3>1, <3>2 DEF Contiguous
  <2> QED BY <2>1, <2>2 DEF Contiguous
<1>6. Numbered(q, base) => Numbered(r, base + n)
  <2> SUFFICES ASSUME Numbered(q, base), NEW i \in 1..Len(r)
               PROVE  r[i].id = (base + n) + i
    BY DEF Numbered
  <2>1. r[i] = q[n + i] /\ n + i \in 1..Len(q) /\ base + (n + i) = (base + n) + i
    BY <1>0, <1>3
  <2> QED BY <2>1 DEF Numbered
<1> QED BY <1>2, <1>3, <1>4, <1>5, <1>6

(* The last slot of a run ends no earlier than any slot of it. *)
LEMMA RunEnds ==
  ASSUME NEW q \in Seq(Slot), Contiguous(q), NEW i \in 1..Len(q)
  PROVE  q[i].offset <= q[Len(q)].offset /\ End(q[i]) <= End(q[Len(q)])
<1>0. Len(q) \in Nat /\ i \in Nat /\ 1 <= i /\ i <= Len(q) /\ Len(q) \in 1..Len(q)
  BY LenProperties
<1>1. q[i] \in Slot /\ q[Len(q)] \in Slot
  BY <1>0, ElementOfSeq
<1>2. CASE i = Len(q)
  BY <1>2, <1>1, SlotEnd
<1>3. CASE i < Len(q)
  <2>1. End(q[i]) <= q[Len(q)].offset
    BY <1>0, <1>3 DEF Contiguous
  <2> QED BY <2>1, <1>1, SlotEnd
<1> QED BY <1>0, <1>2, <1>3

LEMMA BytesNat ==
  ASSUME NEW q \in Seq(Slot), Contiguous(q)
  PROVE  BytesOf(q) \in Nat
<1>1. CASE q = <<>>
  BY <1>1 DEF BytesOf
<1>2. CASE q # <<>>
  <2>1. Len(q) >= 1 /\ 1 \in 1..Len(q) /\ Len(q) \in 1..Len(q)
    BY <1>2, EmptySeq
  <2>2. q[1] \in Slot /\ q[Len(q)] \in Slot
    BY <2>1, ElementOfSeq
  <2>3. q[1].offset <= q[Len(q)].offset
    BY <2>1, RunEnds
  <2>4. BytesOf(q) = End(q[Len(q)]) - q[1].offset
    BY <2>1, RunBytes
  <2> QED BY <2>2, <2>3, <2>4, SlotEnd
<1> QED BY <1>1, <1>2

(* Dropping a prefix does not add bytes. *)
LEMMA RestBytes ==
  ASSUME NEW q \in Seq(Slot), Contiguous(q), NEW n \in 1..Len(q)
  PROVE  BytesOf(Rest(q, n)) <= BytesOf(q)
<1> DEFINE r == Rest(q, n)
<1>0. Len(q) \in Nat /\ n \in Nat /\ 1 <= n /\ n <= Len(q) /\ Len(q) >= 1
  BY LenProperties
<1>1. /\ r \in Seq(Slot) /\ Len(r) = Len(q) - n /\ Contiguous(r)
      /\ \A i \in 1..Len(q) - n : r[i] = q[n + i]
  BY Split
<1> SUFFICES BytesOf(r) <= BytesOf(q)
  OBVIOUS
<1> HIDE DEF r
<1>2. CASE r = <<>>
  <2>1. BytesOf(r) = 0
    BY <1>2 DEF BytesOf
  <2> QED BY <2>1, BytesNat
<1>3. CASE r # <<>>
  <2>1. Len(r) >= 1 /\ 1 \in 1..Len(q) - n /\ Len(r) \in 1..Len(q) - n /\ n + Len(r) = Len(q)
    BY <1>0, <1>1, <1>3, EmptySeq
  <2>2. r[1] = q[n + 1] /\ r[Len(r)] = q[Len(q)]
    BY <1>1, <2>1
  <2>3. BytesOf(r) = End(q[Len(q)]) - q[n + 1].offset
    BY <1>1, <2>1, <2>2, RunBytes
  <2>4. BytesOf(q) = End(q[Len(q)]) - q[1].offset
    BY <1>0, RunBytes
  <2>5. 1 \in 1..Len(q) /\ n + 1 \in 1..Len(q) /\ 1 < n + 1 /\ Len(q) \in 1..Len(q)
    BY <1>0, <2>1
  <2>6. q[1] \in Slot /\ q[n + 1] \in Slot /\ q[Len(q)] \in Slot
    BY <2>5, ElementOfSeq
  <2>7. End(q[1]) <= q[n + 1].offset
    BY <2>5 DEF Contiguous
  <2> QED BY <2>3, <2>4, <2>6, <2>7, SlotEnd
<1> QED BY <1>2, <1>3

LEMMA PrefixIds ==
  ASSUME NEW q \in Seq(Slot), Contiguous(q), NEW n \in 1..Len(q),
         NEW base \in Int, Numbered(q, base)
  PROVE  IdsOf(First(q, n)) = base + 1..base + n
<1>0. Len(q) \in Nat /\ n \in Nat /\ 1 <= n /\ n <= Len(q)
  BY LenProperties
<1>1. /\ First(q, n) \in Seq(Slot) /\ Len(First(q, n)) = n
      /\ \A i \in 1..n : First(q, n)[i] = q[i]
  BY Split
<1>2. DOMAIN First(q, n) = 1..n
  BY <1>1, LenProperties
<1>3. \A i \in 1..n : First(q, n)[i].id = base + i
  BY <1>0, <1>1 DEF Numbered
<1>4. IdsOf(First(q, n)) = {First(q, n)[i].id : i \in 1..n}
  BY <1>2 DEF IdsOf
<1>5. ASSUME NEW x \in base + 1..base + n
      PROVE  x \in IdsOf(First(q, n))
  <2>1. x - base \in 1..n /\ base + (x - base) = x
    BY <1>0
  <2>2. First(q, n)[x - base].id = x
    BY <1>3, <2>1
  <2> QED BY <1>4, <2>1, <2>2
<1>6. ASSUME NEW x \in IdsOf(First(q, n))
      PROVE  x \in base + 1..base + n
  <2>1. PICK i \in 1..n : x = First(q, n)[i].id
    BY <1>4
  <2>2. x = base + i
    BY <1>3, <2>1
  <2> QED BY <1>0, <2>2
<1> QED BY <1>5, <1>6

(* A prefix that leaves the pipeline with one fate each keeps PipeInv.     *)
LEMMA PrefixSettles ==
  ASSUME NEW p, NEW n, NEW d, NEW l, PipeInv(p, n, d, l), NEW k \in 1..Len(p)
  PROVE  /\ PipeInv(Rest(p, k), n, d \cup IdsOf(First(p, k)), l)
         /\ PipeInv(Rest(p, k), n, d, l \cup IdsOf(First(p, k)))
<1> DEFINE r == Rest(p, k)
           base == n - Len(p)
           ids == IdsOf(First(p, k))
<1>0. /\ p \in Seq(Slot) /\ n \in Nat /\ Contiguous(p) /\ Numbered(p, base)
      /\ Len(p) \in Nat /\ Len(p) <= n /\ k \in Nat /\ 1 <= k /\ k <= Len(p)
      /\ base \in Nat /\ Len(p) <= MaxPipelineEvents
      /\ BytesOf(p) < MaxPipelineBytes
      /\ d \cup l = 1..base /\ d \cap l = {}
  BY LenProperties DEF PipeInv
<1>1. /\ r \in Seq(Slot) /\ Len(r) = Len(p) - k /\ Contiguous(r)
      /\ Numbered(r, base + k)
  BY <1>0, Split
<1>2. BytesOf(r) <= BytesOf(p) /\ BytesOf(r) \in Nat /\ BytesOf(p) \in Nat
  BY <1>0, <1>1, RestBytes, BytesNat
<1>3. ids = base + 1..base + k
  BY <1>0, PrefixIds
<1>4. n - Len(r) = base + k /\ Len(r) <= n
  BY <1>0, <1>1
<1>5. MaxPipelineEvents \in Nat /\ MaxPipelineBytes \in Nat
  BY Caps DEF MaxPipelineEvents, MaxPipelineBytes
<1>6. Len(r) <= MaxPipelineEvents /\ BytesOf(r) < MaxPipelineBytes
  <2> HIDE DEF r
  <2> QED BY <1>0, <1>1, <1>2, <1>5
<1> HIDE DEF r, ids, base
<1>7. 1..base + k = (1..base) \cup ids /\ (1..base) \cap ids = {}
  BY <1>0, <1>3
<1>8. /\ (d \cup ids) \cup l = 1..n - Len(r) /\ (d \cup ids) \cap l = {}
      /\ d \cup (l \cup ids) = 1..n - Len(r) /\ d \cap (l \cup ids) = {}
  BY <1>0, <1>4, <1>7
<1>9. Numbered(r, n - Len(r))
  BY <1>1, <1>4
<1> QED BY <1>0, <1>1, <1>4, <1>6, <1>8, <1>9 DEF PipeInv, r, ids

(* The batch in flight is the prefix of the pipeline it was taken from.    *)
LEMMA BatchIsPrefix ==
  ASSUME NEW b \in Seq(Slot), NEW q \in Seq(Slot), b # <<>>
  PROVE  /\ Len(b) \in 1..Len(b \o q)
         /\ First(b \o q, Len(b)) = b
         /\ Rest(b \o q, Len(b)) = q
<1> DEFINE p == b \o q
<1>1. Len(b) \in Nat /\ Len(b) >= 1 /\ Len(q) \in Nat
  BY EmptySeq, LenProperties
<1>2. /\ p \in Seq(Slot) /\ Len(p) = Len(b) + Len(q)
      /\ \A i \in 1..Len(b) + Len(q) :
           p[i] = IF i <= Len(b) THEN b[i] ELSE q[i - Len(b)]
  BY ConcatProperties
<1> HIDE DEF p
<1>3. Len(b) \in 1..Len(p)
  BY <1>1, <1>2
<1>4. First(p, Len(b)) = b
  <2>1. \A i \in 1..Len(b) : p[i] = b[i]
    BY <1>1, <1>2
  <2>2. \A i \in 1..Len(b) : p[i] \in Slot
    BY <2>1, ElementOfSeq
  <2>3. /\ SubSeq(p, 1, Len(b)) \in Seq(Slot)
        /\ Len(SubSeq(p, 1, Len(b))) = IF 1 <= Len(b) THEN Len(b) - 1 + 1 ELSE 0
        /\ \A i \in 1..Len(b) - 1 + 1 : SubSeq(p, 1, Len(b))[i] = p[1 + i - 1]
    BY <2>2, <1>1, SubSeqProperties
  <2>4. Len(b) - 1 + 1 = Len(b) /\ \A i \in 1..Len(b) : 1 + i - 1 = i
    BY <1>1
  <2>5. /\ Len(SubSeq(p, 1, Len(b))) = Len(b)
        /\ \A i \in 1..Len(b) : SubSeq(p, 1, Len(b))[i] = b[i]
    BY <1>1, <2>1, <2>3, <2>4
  <2>6. SubSeq(p, 1, Len(b)) = b
    BY <2>3, <2>5, SeqEqual
  <2> QED BY <2>6 DEF First
<1>5. Rest(p, Len(b)) = q
  <2> DEFINE r == SubSeq(p, Len(b) + 1, Len(p))
  <2>1. \A i \in Len(b) + 1..Len(p) : p[i] \in Slot
    BY <1>1, <1>2, ElementOfSeq
  <2>2. /\ r \in Seq(Slot)
        /\ Len(r) = IF Len(b) + 1 <= Len(p) THEN Len(p) - (Len(b) + 1) + 1 ELSE 0
        /\ \A i \in 1..Len(p) - (Len(b) + 1) + 1 : r[i] = p[(Len(b) + 1) + i - 1]
    BY <2>1, <1>1, <1>2, SubSeqProperties
  <2>3. /\ Len(p) - (Len(b) + 1) + 1 = Len(q)
        /\ (~(Len(b) + 1 <= Len(p))) => Len(q) = 0
        /\ \A i \in 1..Len(q) : (Len(b) + 1) + i - 1 = Len(b) + i
    BY <1>1, <1>2
  <2> HIDE DEF r
  <2>4. Len(r) = Len(q)
    BY <2>2, <2>3
  <2>5. \A i \in 1..Len(q) : r[i] = p[Len(b) + i]
    BY <2>2, <2>3
  <2>6. \A i \in 1..Len(q) : p[Len(b) + i] = q[i]
    <3>1. ASSUME NEW i \in 1..Len(q)
          PROVE  p[Len(b) + i] = q[i]
      <4>1. /\ Len(b) + i \in 1..Len(b) + Len(q) /\ ~(Len(b) + i <= Len(b))
            /\ (Len(b) + i) - Len(b) = i
        BY <1>1
      <4> QED BY <1>2, <4>1
    <3> QED BY <3>1
  <2>7. r = q
    BY <2>2, <2>4, <2>5, <2>6, SeqEqual
  <2> QED BY <2>7 DEF Rest, r
<1> QED BY <1>3, <1>4, <1>5 DEF p

(* The caps are a bound on the queue an event may be added to, whichever   *)
(* of the two tests let it in.                                             *)
LEMMA Admitted ==
  ASSUME NEW q \in Seq(Slot), Contiguous(q), ~OverCaps(q) \/ UnderResumeBand(q)
  PROVE  Len(q) < MAX_QUEUE_EVENTS /\ BytesOf(q) < MAX_QUEUE_BYTES
<1>0. Len(q) \in Nat /\ BytesOf(q) \in Nat
  BY LenProperties, BytesNat
<1>1. CASE ~OverCaps(q)
  BY <1>0, <1>1, Caps DEF OverCaps
<1>2. CASE UnderResumeBand(q)
  <2>1. ASSUME NEW x \in Nat, NEW cap \in Nat, cap >= 1,
               x * ResumeDen <= ResumeNum * cap
        PROVE  x < cap
    <3>1. ResumeNum \in Nat /\ ResumeDen \in Nat /\ ResumeNum + 1 <= ResumeDen
      BY PyTransportAssumption
    <3>2. SUFFICES ASSUME x >= cap PROVE FALSE
      OBVIOUS
    <3>3. \A a, b, c \in Nat : b >= c => b * a >= c * a
      OBVIOUS
    <3>4. x * ResumeDen >= cap * ResumeDen
      BY <3>1, <3>2, <3>3
    <3>5. ResumeDen * cap >= (ResumeNum + 1) * cap
      BY <3>1, <3>3
    <3>6. (ResumeNum + 1) * cap = ResumeNum * cap + cap /\ ResumeDen * cap = cap * ResumeDen
      BY <3>1
    <3>7. /\ x * ResumeDen \in Nat /\ cap * ResumeDen \in Nat /\ ResumeNum * cap \in Nat
      BY <3>1
    <3> QED BY <2>1, <3>4, <3>5, <3>6, <3>7
  <2>2. /\ Len(q) * ResumeDen <= ResumeNum * MAX_QUEUE_EVENTS
        /\ BytesOf(q) * ResumeDen <= ResumeNum * MAX_QUEUE_BYTES
    BY <1>2 DEF UnderResumeBand
  <2> QED BY <1>0, <2>1, <2>2, Caps
<1> QED BY <1>1, <1>2

(* The bytes of a run that is made of two.                                 *)
LEMMA ConcatBytes ==
  ASSUME NEW b \in Seq(Slot), NEW q \in Seq(Slot), Contiguous(b \o q)
  PROVE  /\ Contiguous(q)
         /\ BytesOf(b \o q) = BytesOf(b) + BytesOf(q)
<1> DEFINE p == b \o q
<1>0. Len(b) \in Nat /\ Len(q) \in Nat
  BY LenProperties
<1>1. /\ p \in Seq(Slot) /\ Len(p) = Len(b) + Len(q)
      /\ \A i \in 1..Len(b) + Len(q) :
           p[i] = IF i <= Len(b) THEN b[i] ELSE q[i - Len(b)]
  BY ConcatProperties
<1>2. CASE b = <<>>
  <2>1. p = q /\ BytesOf(b) = 0
    BY <1>2, ConcatEmptySeq DEF BytesOf
  <2>2. BytesOf(q) \in Nat
    BY <2>1, BytesNat
  <2> QED BY <2>1, <2>2
<1>3. CASE b # <<>> /\ q = <<>>
  <2>1. p = b /\ BytesOf(q) = 0
    BY <1>3, ConcatEmptySeq DEF BytesOf
  <2>2. BytesOf(b) \in Nat
    BY <2>1, BytesNat
  <2>3. Contiguous(q)
    BY <1>3, EmptySeq DEF Contiguous
  <2> QED BY <2>1, <2>2, <2>3
<1>4. CASE b # <<>> /\ q # <<>>
  <2> HIDE DEF p
  <2>0. Len(b) >= 1 /\ Len(q) >= 1 /\ Len(p) >= 1
    BY <1>0, <1>1, <1>4, EmptySeq
  <2>1. /\ p[1] = b[1] /\ p[Len(b)] = b[Len(b)]
        /\ p[Len(b) + 1] = q[1] /\ p[Len(p)] = q[Len(q)]
    <3>1. /\ 1 \in 1..Len(b) + Len(q) /\ 1 <= Len(b)
          /\ Len(b) \in 1..Len(b) + Len(q)
          /\ Len(b) + 1 \in 1..Len(b) + Len(q) /\ ~(Len(b) + 1 <= Len(b))
          /\ (Len(b) + 1) - Len(b) = 1
          /\ Len(p) \in 1..Len(b) + Len(q) /\ ~(Len(p) <= Len(b))
          /\ Len(p) - Len(b) = Len(q)
      BY <1>0, <1>1, <2>0
    <3> QED BY <1>1, <3>1, <1>0
  <2>2. q[1].offset = End(b[Len(b)])
    <3>1. Len(b) \in 1..Len(p) - 1
      BY <1>0, <1>1, <2>0
    <3> QED BY <2>1, <3>1 DEF Contiguous, p
  <2>3. /\ BytesOf(p) = End(p[Len(p)]) - p[1].offset
        /\ BytesOf(b) = End(b[Len(b)]) - b[1].offset
        /\ BytesOf(q) = End(q[Len(q)]) - q[1].offset
    BY <1>1, <2>0, RunBytes
  <2>4. b[1] \in Slot /\ b[Len(b)] \in Slot /\ q[1] \in Slot /\ q[Len(q)] \in Slot
    BY <1>0, <2>0, ElementOfSeq
  <2>5. BytesOf(p) = BytesOf(b) + BytesOf(q)
    BY <2>1, <2>2, <2>3, <2>4, SlotEnd, SMTT(20)
  <2>6. Contiguous(q)
    <3>1. Rest(p, Len(b)) = q /\ Len(b) \in 1..Len(p)
      BY <1>4, BatchIsPrefix DEF p
    <3>2. Contiguous(p) /\ p \in Seq(Slot) /\ 0 \in Int
      BY <1>1 DEF p
    <3>3. Contiguous(Rest(p, Len(b)))
      BY <3>1, <3>2, Split
    <3> QED BY <3>1, <3>3
  <2> QED BY <2>5, <2>6 DEF p
<1> QED BY <1>2, <1>3, <1>4

(* What enqueue() adds extends the run. *)
LEMMA AppendExtends ==
  ASSUME NEW p, NEW n, NEW d, NEW l, PipeInv(p, n, d, l), NEW x \in Slot,
         x.id = n + 1,
         p = <<>> => x.offset = 0,
         p # <<>> => x.offset = End(p[Len(p)]),
         Len(p) < MaxPipelineEvents,
         BytesOf(p) + MAX_BATCH_BYTES < MaxPipelineBytes
  PROVE  PipeInv(Append(p, x), n + 1, d, l)
<1> DEFINE q == Append(p, x)
<1>0. /\ p \in Seq(Slot) /\ n \in Nat /\ Len(p) \in Nat /\ Len(p) <= n
      /\ Contiguous(p) /\ Numbered(p, n - Len(p)) /\ BytesOf(p) \in Nat
  BY LenProperties, BytesNat DEF PipeInv
<1>1. /\ q \in Seq(Slot) /\ Len(q) = Len(p) + 1
      /\ \A i \in 1..Len(p) : q[i] = p[i]
      /\ q[Len(p) + 1] = x
  BY <1>0, AppendProperties
<1> HIDE DEF q
<1>2. Numbered(q, (n + 1) - Len(q))
  <2> SUFFICES ASSUME NEW i \in 1..Len(q)
               PROVE  q[i].id = (n + 1) - Len(q) + i
    BY DEF Numbered
  <2>1. (n + 1) - Len(q) = n - Len(p)
    BY <1>0, <1>1
  <2>2. CASE i \in 1..Len(p)
    BY <1>0, <1>1, <2>1, <2>2 DEF Numbered
  <2>3. CASE i = Len(p) + 1
    BY <1>0, <1>1, <2>1, <2>3
  <2> QED BY <1>0, <1>1, <2>2, <2>3
<1>3. x.offset \in Nat /\ End(x) \in Nat /\ End(x) > x.offset
  BY SlotEnd
<1>4. Contiguous(q)
  <2>1. ASSUME NEW i \in 1..Len(q) - 1
        PROVE  q[i + 1].offset = End(q[i])
    <3>1. CASE i = Len(p)
      <4>1. p # <<>> /\ i \in 1..Len(p)
        BY <3>1, <1>0, <1>1, EmptySeq
      <4> QED BY <3>1, <4>1, <1>1
    <3>2. CASE i # Len(p)
      <4>1. i \in 1..Len(p) - 1 /\ i \in 1..Len(p) /\ i + 1 \in 1..Len(p)
        BY <3>2, <1>0, <1>1
      <4>2. q[i] = p[i] /\ q[i + 1] = p[i + 1]
        BY <4>1, <1>1
      <4> QED BY <4>1, <4>2, <1>0 DEF Contiguous
    <3> QED BY <3>1, <3>2
  <2>2. ASSUME NEW i \in 1..Len(q), NEW j \in 1..Len(q), i < j
        PROVE  End(q[i]) <= q[j].offset
    <3>1. i \in 1..Len(p) /\ q[i] = p[i] /\ p # <<>>
      BY <1>0, <1>1, <2>2, EmptySeq
    <3>2. CASE j = Len(p) + 1
      <4>1. End(p[i]) <= End(p[Len(p)])
        BY <1>0, <3>1, RunEnds
      <4> QED BY <3>1, <3>2, <4>1, <1>1
    <3>3. CASE j \in 1..Len(p)
      BY <3>1, <3>3, <1>0, <1>1, <2>2 DEF Contiguous
    <3> QED BY <3>2, <3>3, <1>0, <1>1
  <2> QED BY <2>1, <2>2 DEF Contiguous
<1>5. x.bytes \in Nat /\ x.bytes <= MAX_BATCH_BYTES /\ End(x) = x.offset + x.bytes
  BY Caps DEF Slot, End
<1>6. BytesOf(q) = BytesOf(p) + x.bytes
  <2>1. BytesOf(q) = End(x) - q[1].offset
    BY <1>0, <1>1, RunBytes
  <2>2. CASE p = <<>>
    <3>1. Len(p) = 0 /\ BytesOf(p) = 0
      BY <2>2, EmptySeq DEF BytesOf
    <3>2. q[1] = x
      BY <3>1, <1>1
    <3> QED BY <2>1, <3>1, <3>2, <1>3, <1>5
  <2>3. CASE p # <<>>
    <3>1. Len(p) >= 1 /\ 1 \in 1..Len(p) /\ Len(p) \in 1..Len(p)
      BY <2>3, <1>0, EmptySeq
    <3>2. BytesOf(p) = End(p[Len(p)]) - p[1].offset
      BY <3>1, <1>0, RunBytes
    <3>3. q[1] = p[1] /\ p[1] \in Slot
      BY <3>1, <1>0, <1>1, ElementOfSeq
    <3>4. p[1].offset \in Nat
      BY <3>3, SlotEnd
    <3> QED BY <2>1, <2>3, <3>2, <3>3, <3>4, <1>3, <1>5
  <2> QED BY <2>2, <2>3
<1>7. BytesOf(q) < MaxPipelineBytes
  <2>1. MaxPipelineBytes \in Nat
    BY Caps DEF MaxPipelineBytes
  <2> QED BY <2>1, <1>0, <1>5, <1>6, Caps
<1>8. Len(q) <= MaxPipelineEvents /\ Len(q) <= n + 1 /\ (n + 1) - Len(q) = n - Len(p)
  <2>1. MaxPipelineEvents \in Nat
    BY Caps DEF MaxPipelineEvents
  <2> QED BY <2>1, <1>0, <1>1
<1> QED BY <1>0, <1>1, <1>2, <1>4, <1>7, <1>8 DEF PipeInv, q

LEMMA NewCallTypes ==
  /\ Idle \in Activation
  /\ \A kind \in {"flush", "shutdown"} : /\ NewCall(kind) \in Activation
                                        /\ NewCall(kind).kind = kind
                                        /\ NewCall(kind).pc = "idle"
  /\ [NewCall("shutdown") EXCEPT !.stage = "last"] \in Activation
<1>1. 0 \in 0..MAX_RETRIES
  BY Caps
<1> QED BY <1>1 DEF Idle, NewCall, Activation

-----------------------------------------------------------------------------
(* The steps between two awaits.                                           *)

(* What c leaves behind when it releases the lock.                         *)
LEMMA ReleaseFrees ==
  ASSUME NEW c \in Call, NEW t \in Transport, OthersInv(t, c),
         t.lock # <<>>, t.lock[1] = c
  PROVE  Release(t) \in Transport /\ Outside(Release(t), c)
         /\ Release(t).queue = t.queue /\ Release(t).batch = <<>>
         /\ Release(t).closed = t.closed
<1> DEFINE u == Release(t)
<1>0. /\ t.lock \in Seq(Call) /\ Len(t.lock) \in Nat /\ Len(t.lock) >= 1
      /\ <<>> \in Seq(Slot)
  BY EmptySeq, LenProperties DEF Transport
<1>1. /\ Tail(t.lock) \in Seq(Call) /\ Len(Tail(t.lock)) = Len(t.lock) - 1
      /\ \A i \in 1..Len(t.lock) - 1 : Tail(t.lock)[i] = t.lock[i + 1]
  BY <1>0, HeadTailProperties
<1>2. /\ u \in Transport /\ u.lock = Tail(t.lock) /\ u.batch = <<>>
      /\ u.queue = t.queue /\ u.closed = t.closed
  BY <1>0, <1>1 DEF Release, Transport
<1> HIDE DEF u
<1>3. \A i \in 1..Len(u.lock) : /\ i + 1 \in 1..Len(t.lock)
                               /\ u.lock[i] = t.lock[i + 1]
  BY <1>0, <1>1, <1>2
<1>4. Distinct(u.lock)
  <2>1. ASSUME NEW i \in 1..Len(u.lock), NEW j \in 1..Len(u.lock), u.lock[i] = u.lock[j]
        PROVE  i = j
    <3>1. i + 1 = j + 1
      BY <1>3, <2>1 DEF OthersInv, Distinct
    <3> QED BY <3>1
  <2> QED BY <2>1 DEF Distinct
<1>5. c \notin Holders(u)
  <2> SUFFICES ASSUME NEW i \in 1..Len(u.lock), u.lock[i] = c PROVE FALSE
    BY DEF Holders
  <2>1. 1 = i + 1
    BY <1>0, <1>3 DEF OthersInv, Distinct
  <2> QED BY <2>1
<1>6. \A d \in Call \ {c} : d \in Holders(u) <=> d \in Holders(t)
  <2> TAKE d \in Call \ {c}
  <2>1. ASSUME d \in Holders(u) PROVE d \in Holders(t)
    BY <2>1, <1>3 DEF Holders
  <2>2. ASSUME d \in Holders(t) PROVE d \in Holders(u)
    <3>1. PICK i \in 1..Len(t.lock) : d = t.lock[i]
      BY <2>2 DEF Holders
    <3>2. i # 1
      BY <3>1
    <3>3. i - 1 \in 1..Len(u.lock) /\ (i - 1) + 1 = i
      BY <1>0, <1>1, <1>2, <3>2
    <3> QED BY <1>3, <3>1, <3>3 DEF Holders
  <2> QED BY <2>1, <2>2
<1>7. \A i \in 1..Len(u.lock) : ~(calls[u.lock[i]].pc \in OnWire)
  <2> TAKE i \in 1..Len(u.lock)
  <2>1. t.lock[i + 1] # c
    BY <1>3, <1>5 DEF Holders
  <2>2. i + 1 # 1
    OBVIOUS
  <2> QED BY <1>3, <2>1, <2>2 DEF OthersInv
<1>8. Outside(u, c)
  BY <1>2, <1>4, <1>5, <1>6, <1>7 DEF Outside, OthersInv
<1> QED BY <1>2, <1>8 DEF u

LEMMA LeavesOthers ==
  ASSUME calls \in [Call -> Activation], NEW c \in Call, NEW t \in Transport,
         Outside(t, c), NEW x \in Activation, x.pc \notin InFlush,
         NEW cs, cs = [calls EXCEPT ![c] = x]
  PROVE  cs \in [Call -> Activation] /\ LockInv(t, cs)
<1>1. cs \in [Call -> Activation] /\ cs[c] = x /\ \A d \in Call \ {c} : cs[d] = calls[d]
  OBVIOUS
<1>2. t.lock \in Seq(Call)
  BY DEF Transport
<1>3. \A i \in 1..Len(t.lock) : t.lock[i] \in Call \ {c}
  BY <1>2, ElementOfSeq DEF Outside, Holders
<1>4. \A d \in Call : d \in Holders(t) <=> cs[d].pc \in InFlush
  BY <1>1 DEF Outside, OthersInv
<1>5. \A i \in 1..Len(t.lock) : cs[t.lock[i]].pc \in OnWire => i = 1 /\ t.batch # <<>>
  BY <1>1, <1>3 DEF Outside, OthersInv
<1>6. t.batch # <<>> => t.lock # <<>> /\ cs[t.lock[1]].pc \in OnWire
  <2> SUFFICES ASSUME t.batch # <<>>
               PROVE  t.lock # <<>> /\ cs[t.lock[1]].pc \in OnWire
    OBVIOUS
  <2>1. t.lock # <<>> /\ calls[t.lock[1]].pc \in OnWire
    BY DEF Outside
  <2>2. 1 \in 1..Len(t.lock)
    BY <1>2, <2>1, EmptySeq
  <2> QED BY <1>1, <1>3, <2>1, <2>2
<1> QED BY <1>1, <1>4, <1>5, <1>6 DEF LockInv, Outside, OthersInv

LEMMA Queues ==
  ASSUME calls \in [Call -> Activation], NEW c \in Call, NEW t \in Transport,
         Outside(t, c), t.lock # <<>>, NEW x \in Activation, x.pc = "lock",
         NEW cs, cs = [calls EXCEPT ![c] = x]
  PROVE  LET u == [t EXCEPT !.lock = Append(@, c)] IN
         /\ u \in Transport /\ u.batch = t.batch /\ u.queue = t.queue
         /\ cs \in [Call -> Activation] /\ LockInv(u, cs)
<1> DEFINE u == [t EXCEPT !.lock = Append(@, c)]
<1>1. cs \in [Call -> Activation] /\ cs[c] = x /\ \A d \in Call \ {c} : cs[d] = calls[d]
  OBVIOUS
<1>2. /\ t.lock \in Seq(Call) /\ Len(t.lock) \in Nat /\ Len(t.lock) >= 1
  BY EmptySeq, LenProperties DEF Transport
<1>3. /\ u \in Transport /\ u.lock = Append(t.lock, c) /\ u.batch = t.batch
      /\ u.queue = t.queue
  BY <1>2, AppendProperties DEF Transport
<1>4. /\ u.lock \in Seq(Call) /\ Len(u.lock) = Len(t.lock) + 1
      /\ \A i \in 1..Len(t.lock) : u.lock[i] = t.lock[i]
      /\ u.lock[Len(t.lock) + 1] = c
  BY <1>2, <1>3, AppendProperties
<1> HIDE DEF u
<1>5. \A i \in 1..Len(t.lock) : t.lock[i] \in Call \ {c}
  BY <1>2, ElementOfSeq DEF Outside, Holders
<1>6. \A i \in 1..Len(u.lock) : i \in 1..Len(t.lock) \/ i = Len(t.lock) + 1
  BY <1>2, <1>4
<1>7. Distinct(u.lock)
  <2>1. ASSUME NEW i \in 1..Len(u.lock), NEW j \in 1..Len(u.lock), u.lock[i] = u.lock[j]
        PROVE  i = j
    <3>1. CASE i \in 1..Len(t.lock) /\ j \in 1..Len(t.lock)
      BY <2>1, <3>1, <1>4 DEF Outside, OthersInv, Distinct
    <3>2. CASE i = Len(t.lock) + 1 /\ j \in 1..Len(t.lock)
      BY <2>1, <3>2, <1>4, <1>5
    <3>3. CASE i \in 1..Len(t.lock) /\ j = Len(t.lock) + 1
      BY <2>1, <3>3, <1>4, <1>5
    <3> QED BY <1>6, <3>1, <3>2, <3>3
  <2> QED BY <2>1 DEF Distinct
<1>8. Holders(u) = Holders(t) \cup {c}
  <2>1. ASSUME NEW d \in Holders(u) PROVE d \in Holders(t) \cup {c}
    BY <2>1, <1>4, <1>6 DEF Holders
  <2>2. ASSUME NEW d \in Holders(t) PROVE d \in Holders(u)
    <3>1. PICK i \in 1..Len(t.lock) : d = t.lock[i]
      BY <2>2 DEF Holders
    <3>2. i \in 1..Len(u.lock) /\ u.lock[i] = d
      BY <1>2, <1>4, <3>1
    <3> QED BY <3>2 DEF Holders
  <2>3. Len(t.lock) + 1 \in 1..Len(u.lock)
    BY <1>2, <1>4
  <2>4. c \in Holders(u)
    BY <1>4, <2>3 DEF Holders
  <2> QED BY <2>1, <2>2, <2>4
<1>9. \A d \in Call : d \in Holders(u) <=> cs[d].pc \in InFlush
  BY <1>1, <1>8 DEF Outside, OthersInv, InFlush
<1>10. \A i \in 1..Len(u.lock) : cs[u.lock[i]].pc \in OnWire => i = 1 /\ u.batch # <<>>
  <2> TAKE i \in 1..Len(u.lock)
  <2>1. CASE i \in 1..Len(t.lock)
    BY <2>1, <1>1, <1>3, <1>4, <1>5 DEF Outside, OthersInv
  <2>2. CASE i = Len(t.lock) + 1
    BY <2>2, <1>1, <1>4 DEF OnWire
  <2> QED BY <1>6, <2>1, <2>2
<1>11. u.batch # <<>> => u.lock # <<>> /\ cs[u.lock[1]].pc \in OnWire
  <2>1. 1 \in 1..Len(t.lock) /\ u.lock # <<>>
    BY <1>2, <1>4, EmptySeq
  <2> QED BY <2>1, <1>1, <1>3, <1>4, <1>5 DEF Outside
<1>12. LockInv(u, cs)
  BY <1>7, <1>9, <1>10, <1>11 DEF LockInv
<1> QED BY <1>1, <1>3, <1>12 DEF u

(* The holder posts the next batch. *)
LEMMA PostBatchSound ==
  ASSUME calls \in [Call -> Activation], posted \in Nat, NEW c \in Call,
         NEW a \in Activation, NEW t, NEW n, NEW d, NEW l,
         TrInv(t, n, d, l), Inside(t, c), PostBatch(c, a, t)
  PROVE  Sound(tr', calls', posted', n, d, l)
<1>1. PICK k \in 1..Len(t.queue) :
        /\ BatchLength(t.queue, k)
        /\ tr' = [t EXCEPT !.queue = Rest(@, k), !.batch = First(t.queue, k)]
        /\ calls' = [calls EXCEPT ![c] = [a EXCEPT !.pc = "wire", !.attempt = 0]]
        /\ posted' = IF posted > t.queue[k].id THEN posted ELSE t.queue[k].id
  BY DEF PostBatch, SetCall
<1> DEFINE x == [a EXCEPT !.pc = "wire", !.attempt = 0]
<1>2. x \in Activation /\ x.pc = "wire"
  <2>1. 0 \in 0..MAX_RETRIES
    BY Caps
  <2> QED BY <2>1 DEF Activation
<1>3. /\ t \in Transport /\ t.queue \in Seq(Slot) /\ t.lock \in Seq(Call)
      /\ t.batch = <<>> /\ t.lock # <<>> /\ t.lock[1] = c
      /\ PipeInv(t.batch \o t.queue, n, d, l)
  BY DEF TrInv, Inside, Transport
<1>4. t.batch \o t.queue = t.queue /\ Contiguous(t.queue)
  BY <1>3, ConcatEmptySeq DEF PipeInv
<1>5. /\ First(t.queue, k) \in Seq(Slot) /\ Len(First(t.queue, k)) = k
      /\ Rest(t.queue, k) \in Seq(Slot)
      /\ First(t.queue, k) \o Rest(t.queue, k) = t.queue
  <2>1. 0 \in Int
    OBVIOUS
  <2> QED BY <1>3, <1>4, <2>1, Split
<1>6. /\ tr' \in Transport /\ tr'.queue = Rest(t.queue, k)
      /\ tr'.batch = First(t.queue, k) /\ tr'.lock = t.lock
  BY <1>1, <1>3, <1>5 DEF Transport
<1>7. TrInv(tr', n, d, l)
  <2>1. Fits(t.queue, k)
    BY <1>1 DEF BatchLength
  <2> QED BY <1>3, <1>4, <1>5, <1>6, <2>1 DEF TrInv, BatchInv, Fits
<1>8. calls' \in [Call -> Activation] /\ calls'[c] = x /\ \A e \in Call \ {c} : calls'[e] = calls[e]
  BY <1>1, <1>2
<1>9. tr'.batch # <<>>
  BY <1>5, <1>6, EmptySeq
<1>10. 1 \in 1..Len(t.lock) /\ \A i \in 1..Len(t.lock) : t.lock[i] \in Call
  BY <1>3, EmptySeq, ElementOfSeq
<1>11. \A i \in 1..Len(t.lock) : t.lock[i] = c => i = 1
  BY <1>3, <1>10 DEF Inside, OthersInv, Distinct
<1>12. LockInv(tr', calls')
  <2>1. Distinct(tr'.lock)
    BY <1>6 DEF Inside, OthersInv
  <2>2. \A e \in Call : e \in Holders(tr') <=> calls'[e].pc \in InFlush
    <3>1. Holders(tr') = Holders(t) /\ c \in Holders(t)
      BY <1>3, <1>6, <1>10 DEF Holders
    <3> QED BY <1>2, <1>8, <3>1 DEF Inside, OthersInv, InFlush
  <2>3. \A i \in 1..Len(tr'.lock) :
          calls'[tr'.lock[i]].pc \in OnWire => i = 1 /\ tr'.batch # <<>>
    <3> HIDE DEF x
    <3> QED BY <1>3, <1>6, <1>8, <1>9, <1>10, <1>11 DEF Inside, OthersInv
  <2>4. tr'.lock # <<>> /\ calls'[tr'.lock[1]].pc \in OnWire
    BY <1>2, <1>3, <1>6, <1>8 DEF OnWire
  <2> QED BY <2>1, <2>2, <2>3, <2>4 DEF LockInv
<1>13. posted' \in Nat
  <2>1. t.queue[k] \in Slot
    BY <1>3, ElementOfSeq
  <2> QED BY <1>1, <2>1 DEF Slot
<1> QED BY <1>7, <1>8, <1>12, <1>13 DEF Sound

LEMMA ClosesSound ==
  ASSUME calls \in [Call -> Activation], posted \in Nat, NEW c \in Call,
         NEW t, NEW n, NEW d, NEW l, TrInv(t, n, d, l), Outside(t, c),
         \/ tr' = t
         \/ tr' = [t EXCEPT !.closed = TRUE],
         calls' = [calls EXCEPT ![c] = Idle], posted' = posted
  PROVE  Sound(tr', calls', posted', n, d, l)
<1>1. /\ t \in Transport /\ tr' \in Transport /\ tr'.queue = t.queue
      /\ tr'.batch = t.batch /\ tr'.lock = t.lock
  BY DEF TrInv, Transport
<1>2. TrInv(tr', n, d, l)
  BY <1>1 DEF TrInv
<1>3. Outside(tr', c)
  BY <1>1 DEF Outside, OthersInv, Holders
<1>4. Idle.pc \notin InFlush
  BY DEF Idle, InFlush
<1>5. calls' \in [Call -> Activation] /\ LockInv(tr', calls')
  BY <1>1, <1>3, <1>4, NewCallTypes, LeavesOthers
<1> QED BY <1>2, <1>5 DEF Sound

(* However flush() ends, the call is over, waits, or posts.                *)
LEMMA FlushEndsSound ==
  ASSUME calls \in [Call -> Activation], posted \in Nat, NEW c \in Call,
         NEW a \in Activation, NEW t, NEW n, NEW d, NEW l,
         TrInv(t, n, d, l), Outside(t, c), FlushEnds(c, a, t)
  PROVE  Sound(tr', calls', posted', n, d, l)
<1> DEFINE x == [NewCall("shutdown") EXCEPT !.stage = "last"]
           Over == /\ tr' = t \/ tr' = [t EXCEPT !.closed = TRUE]
                   /\ calls' = [calls EXCEPT ![c] = Idle]
                   /\ posted' = posted
<1>0. t \in Transport /\ t.lock \in Seq(Call)
  BY DEF TrInv, Transport
<1>1. CASE Over
  BY <1>1, ClosesSound
<1>2. CASE /\ t.lock # <<>>
           /\ tr' = [t EXCEPT !.lock = Append(@, c)]
           /\ calls' = [calls EXCEPT ![c] = [x EXCEPT !.pc = "lock"]]
           /\ posted' = posted
  <2> DEFINE y == [x EXCEPT !.pc = "lock"]
  <2>1. y \in Activation /\ y.pc = "lock"
    BY NewCallTypes DEF Activation
  <2>0. calls' = [calls EXCEPT ![c] = y]
    BY <1>2
  <2> HIDE DEF y
  <2>2. /\ tr' \in Transport /\ tr'.batch = t.batch /\ tr'.queue = t.queue
        /\ calls' \in [Call -> Activation] /\ LockInv(tr', calls')
    <3> DEFINE u == [t EXCEPT !.lock = Append(@, c)]
    <3>1. /\ u \in Transport /\ u.batch = t.batch /\ u.queue = t.queue
          /\ calls' \in [Call -> Activation] /\ LockInv(u, calls')
      BY <1>0, <1>2, <2>0, <2>1, Queues
    <3>2. tr' = u
      BY <1>2
    <3> QED BY <3>1, <3>2
  <2>3. TrInv(tr', n, d, l)
    BY <2>2 DEF TrInv
  <2> QED BY <1>2, <2>2, <2>3 DEF Sound
<1>3. CASE t.lock = <<>> /\ PostBatch(c, x, [t EXCEPT !.lock = <<c>>])
  <2> DEFINE u == [t EXCEPT !.lock = <<c>>]
  <2>1. /\ u \in Transport /\ u.queue = t.queue /\ u.batch = t.batch
        /\ u.lock = <<c>> /\ Len(u.lock) = 1 /\ u.lock[1] = c /\ u.lock # <<>>
    <3>1. <<c>> \in Seq(Call)
      OBVIOUS
    <3> QED BY <1>0, <3>1 DEF Transport
  <2>2. t.batch = <<>>
    BY <1>3 DEF Outside
  <2>3. \A e \in Call \ {c} : e \notin Holders(t)
    <3>1. Len(t.lock) = 0
      BY <1>3
    <3> QED BY <3>1 DEF Holders
  <2> HIDE DEF u
  <2>4. TrInv(u, n, d, l)
    BY <2>1 DEF TrInv
  <2>5. OthersInv(u, c)
    <3>1. \A i \in 1..Len(u.lock) : i = 1 /\ u.lock[i] = c
      BY <2>1
    <3>2. Holders(u) = {c}
      BY <2>1, <3>1 DEF Holders
    <3> QED BY <2>3, <3>1, <3>2 DEF Outside, OthersInv, Distinct
  <2>6. Inside(u, c)
    BY <2>1, <2>2, <2>5 DEF Inside
  <2>7. x \in Activation
    BY NewCallTypes
  <2> QED BY <1>3, <2>4, <2>6, <2>7, PostBatchSound DEF u
<1>4. CASE TransportShutdown(c, t)
  BY <1>1, <1>2, <1>3, <1>4 DEF TransportShutdown, Closes, SetCall
<1> QED BY <1>1, <1>4 DEF FlushEnds, Closes, SetCall

(* Dropping k queued slots, with nothing in flight.                        *)
LEMMA QueuePrefixLost ==
  ASSUME NEW t, NEW n, NEW d, NEW l, TrInv(t, n, d, l), t.batch = <<>>,
         NEW k \in 1..Len(t.queue)
  PROVE  LET u == [t EXCEPT !.queue = Rest(@, k)] IN
         /\ TrInv(u, n, d, l \cup IdsOf(First(t.queue, k)))
         /\ u.batch = <<>> /\ u.lock = t.lock /\ u.queue = Rest(t.queue, k)
<1> DEFINE u == [t EXCEPT !.queue = Rest(@, k)]
<1>1. /\ t \in Transport /\ t.queue \in Seq(Slot) /\ t.batch \o t.queue = t.queue
      /\ PipeInv(t.queue, n, d, l)
  <2>1. t \in Transport /\ t.queue \in Seq(Slot)
    BY DEF TrInv, Transport
  <2>2. t.batch \o t.queue = t.queue
    BY <2>1, ConcatEmptySeq
  <2> QED BY <2>1, <2>2 DEF TrInv
<1>2. PipeInv(Rest(t.queue, k), n, d, l \cup IdsOf(First(t.queue, k)))
  BY <1>1, PrefixSettles
<1>3. Rest(t.queue, k) \in Seq(Slot)
  BY <1>2 DEF PipeInv
<1>4. /\ u \in Transport /\ u.batch = <<>> /\ u.lock = t.lock
      /\ u.queue = Rest(t.queue, k)
  BY <1>1, <1>3 DEF Transport
<1>5. u.batch \o u.queue = Rest(t.queue, k)
  BY <1>3, <1>4, ConcatEmptySeq
<1> HIDE DEF u
<1>6. TrInv(u, n, d, l \cup IdsOf(First(t.queue, k)))
  BY <1>2, <1>4, <1>5 DEF TrInv
<1> QED BY <1>4, <1>6 DEF u

(* One turn of the loop of flush() by the holder of the lock.              *)
LEMMA FlushLoopSound ==
  ASSUME calls \in [Call -> Activation], posted \in Nat, NEW c \in Call,
         NEW a \in Activation, NEW t, NEW n, NEW d,
         TrInv(t, n, d, lost), Inside(t, c), FlushLoop(c, a, t)
  PROVE  Sound(tr', calls', posted', n, d, lost')
<1>0. /\ t \in Transport /\ t.batch = <<>> /\ t.lock # <<>> /\ t.lock[1] = c
      /\ OthersInv(t, c) /\ t.queue \in Seq(Slot)
  BY DEF TrInv, Inside, Transport
<1>1. CASE t.queue = <<>> /\ FlushEnds(c, a, Release(t)) /\ lost' = lost
  <2> DEFINE u == Release(t)
  <2>1. u \in Transport /\ Outside(u, c) /\ u.queue = t.queue /\ u.batch = t.batch
    BY <1>0, ReleaseFrees
  <2> HIDE DEF u
  <2>2. TrInv(u, n, d, lost)
    BY <2>1 DEF TrInv
  <2>3. FlushEnds(c, a, u)
    BY <1>1 DEF u
  <2> QED BY <1>1, <2>1, <2>2, <2>3, FlushEndsSound
<1>2. CASE PostBatch(c, a, t) /\ lost' = lost
  BY <1>2, PostBatchSound
<1>3. ASSUME NEW k \in 1..Len(t.queue),
             lost' = lost \cup IdsOf(First(t.queue, k)),
             FlushEnds(c, a, Release([t EXCEPT !.queue = Rest(@, k)]))
      PROVE  Sound(tr', calls', posted', n, d, lost')
  <2> DEFINE v == [t EXCEPT !.queue = Rest(@, k)]
             u == Release(v)
  <2>1. TrInv(v, n, d, lost') /\ v.batch = <<>> /\ v.lock = t.lock
    BY <1>0, <1>3, QueuePrefixLost
  <2>2. FlushEnds(c, a, u)
    BY <1>3
  <2> HIDE DEF v
  <2>3. v \in Transport /\ OthersInv(v, c) /\ v.lock # <<>> /\ v.lock[1] = c
    BY <1>0, <2>1 DEF TrInv, OthersInv, Holders
  <2>4. u \in Transport /\ Outside(u, c) /\ u.queue = v.queue /\ u.batch = v.batch
    BY <2>1, <2>3, ReleaseFrees
  <2> HIDE DEF u
  <2>5. TrInv(u, n, d, lost')
    BY <2>1, <2>4 DEF TrInv
  <2> QED BY <2>2, <2>4, <2>5, FlushEndsSound
<1> QED BY <1>1, <1>2, <1>3 DEF FlushLoop

(* A call that is not inside flush() sees the lock discipline of the others. *)
LEMMA OutsideNow ==
  ASSUME IInv, NEW c \in Call, calls[c].pc \notin InFlush
  PROVE  Outside(tr, c)
<1>1. LockInv(tr, calls)
  BY DEF IInv, Sound
<1> QED BY <1>1 DEF LockInv, Outside, OthersInv

LEMMA HeadIsFirst ==
  ASSUME NEW q \in Seq(Call), q # <<>>
  PROVE  Head(q) = q[1]
OBVIOUS

(* A call that waits for the lock, or has a batch on the wire.             *)
LEMMA HolderNow ==
  ASSUME IInv, NEW c \in Call, calls[c].pc \in OnWire \/ (calls[c].pc = "lock" /\ Head(tr.lock) = c)
  PROVE  /\ OthersInv(tr, c) /\ tr.lock # <<>> /\ tr.lock[1] = c
         /\ calls[c].pc \in OnWire => tr.batch # <<>>
         /\ calls[c].pc = "lock" => tr.batch = <<>>
<1>1. LockInv(tr, calls) /\ tr.lock \in Seq(Call) /\ Len(tr.lock) \in Nat
  BY LenProperties DEF IInv, Sound, TrInv, Transport
<1>2. OthersInv(tr, c)
  BY <1>1 DEF LockInv, OthersInv
<1>3. c \in Holders(tr)
  BY <1>1 DEF LockInv, InFlush, OnWire
<1>4. PICK i \in 1..Len(tr.lock) : tr.lock[i] = c
  BY <1>3 DEF Holders
<1>5. tr.lock # <<>>
  BY <1>1, <1>4, EmptySeq
<1>6. CASE calls[c].pc \in OnWire
  <2>1. i = 1 /\ tr.batch # <<>>
    BY <1>1, <1>4, <1>6 DEF LockInv
  <2> QED BY <1>2, <1>4, <1>5, <1>6, <2>1 DEF OnWire
<1>7. CASE calls[c].pc = "lock" /\ Head(tr.lock) = c
  <2>1. tr.lock[1] = c
    BY <1>1, <1>5, <1>7, HeadIsFirst
  <2>2. tr.batch = <<>>
    BY <1>1, <1>7, <2>1 DEF LockInv, OnWire
  <2> QED BY <1>2, <1>5, <1>7, <2>1, <2>2 DEF OnWire
<1> QED BY <1>6, <1>7

LEMMA TransportFlushSound ==
  ASSUME IInv, NEW c \in Call, calls[c].pc \notin InFlush, NEW a \in Activation,
         TransportFlush(c, a)
  PROVE  Sound(tr', calls', posted', accepted, delivered, lost')
<1>0. /\ calls \in [Call -> Activation] /\ posted \in Nat
      /\ TrInv(tr, accepted, delivered, lost) /\ Outside(tr, c)
      /\ tr \in Transport /\ tr.lock \in Seq(Call)
  BY OutsideNow DEF IInv, Sound, TrInv, Transport
<1>1. CASE FlushEnds(c, a, tr) /\ lost' = lost
  BY <1>0, <1>1, FlushEndsSound
<1>2. CASE /\ tr.lock # <<>>
           /\ tr' = [tr EXCEPT !.lock = Append(@, c)]
           /\ calls' = [calls EXCEPT ![c] = [a EXCEPT !.pc = "lock"]]
           /\ posted' = posted /\ lost' = lost
  <2> DEFINE y == [a EXCEPT !.pc = "lock"]
  <2>1. y \in Activation /\ y.pc = "lock"
    BY DEF Activation
  <2>2. calls' = [calls EXCEPT ![c] = y]
    BY <1>2
  <2> HIDE DEF y
  <2>3. /\ tr' \in Transport /\ tr'.batch = tr.batch /\ tr'.queue = tr.queue
        /\ calls' \in [Call -> Activation] /\ LockInv(tr', calls')
    <3> DEFINE u == [tr EXCEPT !.lock = Append(@, c)]
    <3>1. /\ u \in Transport /\ u.batch = tr.batch /\ u.queue = tr.queue
          /\ calls' \in [Call -> Activation] /\ LockInv(u, calls')
      BY <1>0, <1>2, <2>1, <2>2, Queues
    <3>2. tr' = u
      BY <1>2
    <3> QED BY <3>1, <3>2
  <2>4. TrInv(tr', accepted, delivered, lost)
    BY <1>0, <2>3 DEF TrInv
  <2> QED BY <1>0, <1>2, <2>3, <2>4 DEF Sound
<1>3. CASE tr.lock = <<>> /\ FlushLoop(c, a, [tr EXCEPT !.lock = <<c>>])
  <2> DEFINE u == [tr EXCEPT !.lock = <<c>>]
  <2>1. /\ u \in Transport /\ u.queue = tr.queue /\ u.batch = tr.batch
        /\ u.lock = <<c>> /\ Len(u.lock) = 1 /\ u.lock[1] = c /\ u.lock # <<>>
    <3>1. <<c>> \in Seq(Call)
      OBVIOUS
    <3> QED BY <1>0, <3>1 DEF Transport
  <2>2. tr.batch = <<>>
    BY <1>0, <1>3 DEF Outside
  <2>3. \A e \in Call \ {c} : e \notin Holders(tr)
    <3>1. Len(tr.lock) = 0
      BY <1>3
    <3> QED BY <3>1 DEF Holders
  <2>4. FlushLoop(c, a, u)
    BY <1>3
  <2> HIDE DEF u
  <2>5. TrInv(u, accepted, delivered, lost)
    BY <1>0, <2>1 DEF TrInv
  <2>6. OthersInv(u, c)
    <3>1. \A i \in 1..Len(u.lock) : i = 1 /\ u.lock[i] = c
      BY <2>1
    <3>2. Holders(u) = {c}
      BY <2>1, <3>1 DEF Holders
    <3> QED BY <1>0, <2>3, <3>1, <3>2 DEF Outside, OthersInv, Distinct
  <2>7. Inside(u, c)
    BY <2>1, <2>2, <2>6 DEF Inside
  <2> QED BY <1>0, <2>4, <2>5, <2>7, FlushLoopSound
<1> QED BY <1>1, <1>2, <1>3 DEF TransportFlush, SetCall

(* Answered or given up, the batch in flight is a prefix that is settled.  *)
LEMMA BatchSettles ==
  ASSUME IInv, tr.batch # <<>>
  PROVE  /\ PipeInv(tr.queue, accepted, delivered \cup IdsOf(tr.batch), lost)
         /\ PipeInv(tr.queue, accepted, delivered, lost \cup IdsOf(tr.batch))
<1> DEFINE p == tr.batch \o tr.queue
           k == Len(tr.batch)
<1>1. /\ tr.batch \in Seq(Slot) /\ tr.queue \in Seq(Slot)
      /\ PipeInv(p, accepted, delivered, lost)
  BY DEF IInv, Sound, TrInv, Transport
<1>2. k \in 1..Len(p) /\ First(p, k) = tr.batch /\ Rest(p, k) = tr.queue
  BY <1>1, BatchIsPrefix
<1> HIDE DEF p, k
<1>3. /\ PipeInv(Rest(p, k), accepted, delivered \cup IdsOf(First(p, k)), lost)
      /\ PipeInv(Rest(p, k), accepted, delivered, lost \cup IdsOf(First(p, k)))
  BY <1>1, <1>2, PrefixSettles
<1> QED BY <1>2, <1>3

LEMMA EmptyBatch ==
  ASSUME NEW t \in Transport, t.batch = <<>>, NEW n, NEW d, NEW l,
         PipeInv(t.queue, n, d, l)
  PROVE  TrInv(t, n, d, l)
<1>1. t.queue \in Seq(Slot)
  BY DEF Transport
<1>2. t.batch \o t.queue = t.queue
  BY <1>1, ConcatEmptySeq
<1>3. BatchInv(t.batch)
  BY Caps, EmptySeq DEF BatchInv, BytesOf
<1> QED BY <1>2, <1>3 DEF TrInv

(* The rejected batch is put back: nothing is in flight, nothing is settled. *)
LEMMA RequeuedSound ==
  ASSUME IInv, NEW c \in Call, calls[c].pc = "wire"
  PROVE  /\ TrInv(Requeued, accepted, delivered, lost) /\ Outside(Requeued, c)
         /\ Requeued.batch = <<>>
<1> DEFINE v == [tr EXCEPT !.queue = tr.batch \o @]
           u == Release(v)
<1>1. /\ tr \in Transport /\ tr.batch \in Seq(Slot) /\ tr.queue \in Seq(Slot)
      /\ PipeInv(tr.batch \o tr.queue, accepted, delivered, lost)
  BY DEF IInv, Sound, TrInv, Transport
<1>2. /\ v \in Transport /\ v.queue = tr.batch \o tr.queue /\ v.lock = tr.lock
      /\ v.batch = tr.batch
  BY <1>1, ConcatProperties DEF Transport
<1> HIDE DEF v
<1>3. OthersInv(tr, c) /\ tr.lock # <<>> /\ tr.lock[1] = c
  BY HolderNow DEF OnWire
<1>4. OthersInv(v, c) /\ v.lock # <<>> /\ v.lock[1] = c
  BY <1>2, <1>3 DEF OthersInv, Holders
<1>5. u \in Transport /\ Outside(u, c) /\ u.queue = v.queue /\ u.batch = <<>>
  BY <1>2, <1>4, ReleaseFrees
<1> HIDE DEF u
<1>6. TrInv(u, accepted, delivered, lost)
  BY <1>1, <1>2, <1>5, EmptyBatch
<1>7. Requeued = u
  BY DEF Requeued, u, v
<1> QED BY <1>5, <1>6, <1>7

-----------------------------------------------------------------------------
(* Every action preserves the invariant.                                   *)

LEMMA InitSound == Init => IInv
<1> SUFFICES ASSUME Init PROVE IInv
  OBVIOUS
<1>1. /\ <<>> \in Seq(Slot) /\ <<>> \in Seq(Call) /\ Len(<<>>) = 0
  BY EmptySeq
<1>2. tr \in Transport /\ tr.batch = <<>> /\ tr.queue = <<>> /\ tr.lock = <<>>
  BY <1>1 DEF Init, Transport
<1>3. PipeInv(tr.queue, accepted, delivered, lost)
  <2>1. BytesOf(<<>>) = 0 /\ Contiguous(<<>>) /\ Numbered(<<>>, 0)
    BY <1>1 DEF BytesOf, Contiguous, Numbered
  <2>2. MaxPipelineEvents >= 0 /\ MaxPipelineBytes > 0
    BY Caps DEF MaxPipelineEvents, MaxPipelineBytes
  <2>3. 1..0 = {} /\ 0 - 0 = 0
    OBVIOUS
  <2> QED BY <1>1, <1>2, <2>1, <2>2, <2>3 DEF Init, PipeInv
<1>4. TrInv(tr, accepted, delivered, lost)
  BY <1>2, <1>3, EmptyBatch
<1>5. calls \in [Call -> Activation] /\ \A c \in Call : calls[c].pc = "idle"
  BY NewCallTypes DEF Init, Idle
<1>6. LockInv(tr, calls)
  BY <1>1, <1>2, <1>5 DEF LockInv, Distinct, Holders, InFlush
<1> QED BY <1>4, <1>5, <1>6 DEF IInv, Sound, Init

LEMMA EnqueueSound ==
  ASSUME IInv, NEW bytes \in Size, Enqueue(bytes)
  PROVE  IInv'
<1>1. /\ tr \in Transport /\ tr.batch \in Seq(Slot) /\ tr.queue \in Seq(Slot)
      /\ PipeInv(tr.batch \o tr.queue, accepted, delivered, lost)
      /\ BatchInv(tr.batch) /\ LockInv(tr, calls) /\ accepted \in Nat
  BY DEF IInv, Sound, TrInv, Transport, PipeInv
<1>2. CASE tr' = [tr EXCEPT !.paused = TRUE] /\ accepted' = accepted
  <2>1. /\ tr' \in Transport /\ tr'.batch = tr.batch /\ tr'.queue = tr.queue
        /\ tr'.lock = tr.lock
    BY <1>1, <1>2 DEF Transport
  <2> QED BY <1>1, <1>2, <2>1
    DEF IInv, Sound, TrInv, LockInv, Holders, Enqueue, fates
<1>3. CASE /\ ~Refuses
           /\ tr' = [tr EXCEPT !.paused = FALSE,
                       !.queue = Append(@, [id |-> accepted + 1,
                                            offset |-> NextOffset,
                                            bytes |-> bytes])]
           /\ accepted' = accepted + 1
  <2> DEFINE p == tr.batch \o tr.queue
             x == [id |-> accepted + 1, offset |-> NextOffset, bytes |-> bytes]
  <2>1. p \in Seq(Slot) /\ Contiguous(p) /\ Len(p) = Len(tr.batch) + Len(tr.queue)
    BY <1>1, ConcatProperties DEF PipeInv
  <2> HIDE DEF p
  <2>2. x \in Slot /\ x.id = accepted + 1 /\ x.offset = NextOffset
    <3>1. bytes \in 1..MAX_BATCH_BYTES
      BY PyTransportAssumption DEF Enqueue
    <3>2. NextOffset \in Nat
      <4>1. CASE p = <<>>
        BY <4>1 DEF NextOffset, p
      <4>2. CASE p # <<>>
        <5>1. Len(p) \in Nat \ {0}
          BY <2>1, <4>2, EmptySeq
        <5>2. NextOffset = End(p[Len(p)])
          BY <4>2 DEF NextOffset, p
        <5>3. Len(p) \in 1..Len(p)
          BY <5>1
        <5>4. p[Len(p)] \in Slot
          BY <2>1, <5>3, ElementOfSeq
        <5> QED BY <5>2, <5>4, SlotEnd
      <4> QED BY <4>1, <4>2
    <3>3. accepted + 1 \in Nat \ {0}
      BY <1>1
    <3> QED BY <3>1, <3>2, <3>3 DEF Slot
  <2>3. (p = <<>> => x.offset = 0) /\ (p # <<>> => x.offset = End(p[Len(p)]))
    BY <2>2 DEF NextOffset, p
  <2>4. Len(tr.queue) < MAX_QUEUE_EVENTS /\ BytesOf(tr.queue) < MAX_QUEUE_BYTES
    <3>1. Contiguous(tr.queue)
      BY <1>1, <2>1, ConcatBytes DEF p
    <3>2. ~OverCaps(tr.queue) \/ UnderResumeBand(tr.queue)
      BY <1>3 DEF Refuses
    <3> QED BY <1>1, <3>1, <3>2, Admitted
  <2>5. Len(p) < MaxPipelineEvents
    <3>1. Len(tr.batch) \in Nat /\ Len(tr.queue) \in Nat
      BY <1>1, LenProperties
    <3>2. Len(tr.batch) <= MAX_BATCH_EVENTS /\ Len(tr.queue) < MAX_QUEUE_EVENTS
      BY <1>1, <2>4 DEF BatchInv
    <3>3. Len(p) = Len(tr.batch) + Len(tr.queue)
      BY <2>1
    <3>4. \A a, b \in Nat : a <= MAX_BATCH_EVENTS /\ b < MAX_QUEUE_EVENTS =>
                              a + b < MAX_QUEUE_EVENTS + MAX_BATCH_EVENTS
      BY Caps
    <3> QED BY <3>1, <3>2, <3>3, <3>4 DEF MaxPipelineEvents
  <2>6. BytesOf(p) + MAX_BATCH_BYTES < MaxPipelineBytes
    <3>1. BytesOf(p) = BytesOf(tr.batch) + BytesOf(tr.queue) /\ BytesOf(p) \in Nat
      BY <1>1, <2>1, ConcatBytes, BytesNat DEF p
    <3>2. BytesOf(tr.queue) \in Nat /\ BytesOf(tr.batch) \in Int
      <4>1. Contiguous(tr.queue)
        BY <1>1, <2>1, ConcatBytes DEF p
      <4>2. CASE tr.batch = <<>>
        BY <1>1, <4>1, <4>2, BytesNat DEF BytesOf
      <4>3. CASE tr.batch # <<>>
        <5>1. 1 \in 1..Len(tr.batch) /\ Len(tr.batch) \in 1..Len(tr.batch) /\ Len(tr.batch) >= 1
          BY <1>1, <4>3, EmptySeq
        <5>2. tr.batch[1] \in Slot /\ tr.batch[Len(tr.batch)] \in Slot
          BY <1>1, <5>1, ElementOfSeq
        <5>3. BytesOf(tr.batch) = End(tr.batch[Len(tr.batch)]) - tr.batch[1].offset
          BY <1>1, <5>1, RunBytes
        <5>4. BytesOf(tr.batch) \in Int
          BY <5>2, <5>3, SlotEnd
        <5> QED BY <1>1, <4>1, <5>4, BytesNat
      <4> QED BY <4>2, <4>3
    <3> QED BY <1>1, <2>4, <3>1, <3>2, Caps DEF BatchInv, MaxPipelineBytes
  <2>7. PipeInv(Append(p, x), accepted + 1, delivered, lost)
    <3> HIDE DEF x
    <3> QED BY <1>1, <2>2, <2>3, <2>5, <2>6, AppendExtends DEF p
  <2>8. /\ tr' \in Transport /\ tr'.batch = tr.batch /\ tr'.lock = tr.lock
        /\ tr'.queue = Append(tr.queue, x)
    <3>1. Append(tr.queue, x) \in Seq(Slot)
      BY <1>1, <2>2, AppendProperties
    <3>2. tr' = [tr EXCEPT !.paused = FALSE, !.queue = Append(@, x)]
      BY <1>3
    <3> HIDE DEF x
    <3> QED BY <1>1, <3>1, <3>2 DEF Transport
  <2>9. tr'.batch \o tr'.queue = Append(p, x)
    <3>1. Append(tr.queue, x) = tr.queue \o <<x>> /\ Append(p, x) = p \o <<x>>
      BY <1>1, <2>1, <2>2, AppendIsConcat
    <3>2. <<x>> \in Seq(Slot)
      BY <2>2
    <3>3. \A b, q, e \in Seq(Slot) : (b \o q) \o e = b \o (q \o e)
      BY ConcatAssociative
    <3>4. p \o <<x>> = tr.batch \o (tr.queue \o <<x>>)
      BY <1>1, <3>2, <3>3, Zenon DEF p
    <3> QED BY <2>8, <3>1, <3>4
  <2>10. TrInv(tr', accepted', delivered, lost)
    BY <1>1, <1>3, <2>7, <2>8, <2>9 DEF TrInv
  <2>11. LockInv(tr', calls)
    BY <1>1, <2>8 DEF LockInv, Holders
  <2> QED BY <1>1, <2>10, <2>11 DEF IInv, Sound, Enqueue, fates
<1> QED BY <1>2, <1>3 DEF Enqueue

LEMMA AcceptedSound ==
  ASSUME IInv, NEW c \in Call, AnswerAccepted(c)
  PROVE  IInv'
<1> DEFINE resumed == tr.paused /\ ~UnderResumeBand(tr.queue)
           t == [tr EXCEPT !.batch = <<>>, !.paused = resumed]
<1>1. /\ calls \in [Call -> Activation] /\ posted \in Nat /\ tr \in Transport
      /\ calls[c] \in Activation
  BY DEF IInv, Sound, TrInv
<1>2. /\ OthersInv(tr, c) /\ tr.lock # <<>> /\ tr.lock[1] = c /\ tr.batch # <<>>
  BY HolderNow DEF AnswerAccepted, OnWire
<1>3. PipeInv(tr.queue, accepted, delivered', lost)
  BY <1>2, BatchSettles DEF AnswerAccepted
<1>4. /\ t \in Transport /\ t.batch = <<>> /\ t.queue = tr.queue /\ t.lock = tr.lock
  <2>1. resumed \in BOOLEAN /\ <<>> \in Seq(Slot)
    BY EmptySeq
  <2> HIDE DEF resumed
  <2> QED BY <1>1, <2>1 DEF Transport
<1>5. FlushLoop(c, calls[c], t)
  BY DEF AnswerAccepted
<1> HIDE DEF t
<1>6. TrInv(t, accepted, delivered', lost)
  BY <1>3, <1>4, EmptyBatch
<1>7. OthersInv(t, c)
  <2>1. Distinct(t.lock) /\ Holders(t) = Holders(tr)
    BY <1>2, <1>4 DEF OthersInv, Holders
  <2>2. ASSUME NEW i \in 1..Len(t.lock), t.lock[i] # c, calls[t.lock[i]].pc \in OnWire
        PROVE  FALSE
    BY <1>2, <1>4, <2>2 DEF OthersInv
  <2> QED BY <1>2, <2>1, <2>2 DEF OthersInv
<1>8. Inside(t, c)
  BY <1>2, <1>4, <1>7 DEF Inside
<1>9. Sound(tr', calls', posted', accepted, delivered', lost')
  BY <1>1, <1>5, <1>6, <1>8, FlushLoopSound
<1> QED BY <1>9 DEF IInv, AnswerAccepted

LEMMA TerminalSound ==
  ASSUME IInv, NEW c \in Call, AnswerTerminal(c)
  PROVE  IInv'
<1> DEFINE u == Release(tr)
<1>1. /\ calls \in [Call -> Activation] /\ posted \in Nat /\ tr \in Transport
      /\ calls[c] \in Activation
  BY DEF IInv, Sound, TrInv
<1>2. /\ OthersInv(tr, c) /\ tr.lock # <<>> /\ tr.lock[1] = c /\ tr.batch # <<>>
  BY HolderNow DEF AnswerTerminal, OnWire
<1>3. PipeInv(tr.queue, accepted, delivered, lost')
  BY <1>2, BatchSettles DEF AnswerTerminal
<1>4. u \in Transport /\ Outside(u, c) /\ u.queue = tr.queue /\ u.batch = <<>>
  BY <1>1, <1>2, ReleaseFrees
<1>5. FlushEnds(c, calls[c], u)
  BY DEF AnswerTerminal
<1> HIDE DEF u
<1>6. TrInv(u, accepted, delivered, lost')
  BY <1>3, <1>4, EmptyBatch
<1>7. Sound(tr', calls', posted', accepted, delivered, lost')
  BY <1>1, <1>4, <1>5, <1>6, FlushEndsSound
<1> QED BY <1>7 DEF IInv, AnswerTerminal

LEMMA SessionUnknownSound ==
  ASSUME IInv, NEW c \in Call, AnswerSessionUnknown(c)
  PROVE  IInv'
<1>1. /\ calls \in [Call -> Activation] /\ posted \in Nat /\ calls[c] \in Activation
      /\ accepted' = accepted /\ delivered' = delivered
  BY DEF IInv, Sound, AnswerSessionUnknown
<1> DEFINE t == Requeued
<1>2. /\ TrInv(t, accepted, delivered, lost) /\ Outside(t, c) /\ t.batch = <<>>
      /\ t \in Transport
  BY RequeuedSound DEF AnswerSessionUnknown, TrInv
<1>3. CASE /\ tr' = t
           /\ calls' = [calls EXCEPT ![c] = [calls[c] EXCEPT !.pc = "start"]]
           /\ posted' = posted /\ lost' = lost
  <2> DEFINE y == [calls[c] EXCEPT !.pc = "start"]
  <2>1. y \in Activation /\ y.pc \notin InFlush
    BY <1>1 DEF Activation, InFlush
  <2>2. calls' = [calls EXCEPT ![c] = y]
    BY <1>3
  <2> HIDE DEF y, t
  <2>3. calls' \in [Call -> Activation] /\ LockInv(t, calls')
    BY <1>1, <1>2, <2>1, <2>2, LeavesOthers
  <2> QED BY <1>1, <1>2, <1>3, <2>3 DEF IInv, Sound
<1>4. CASE FlushEnds(c, calls[c], t) /\ lost' = lost
  <2> HIDE DEF t
  <2>1. Sound(tr', calls', posted', accepted, delivered, lost)
    BY <1>1, <1>2, <1>4, FlushEndsSound
  <2> QED BY <1>1, <1>4, <2>1 DEF IInv
<1>5. CASE DropHeadBatch(c, t)
  <2> HIDE DEF t
  <2>1. PICK k \in 1..Len(t.queue) :
          /\ lost' = lost \cup IdsOf(First(t.queue, k))
          /\ FlushEnds(c, calls[c], [t EXCEPT !.queue = Rest(@, k)])
    BY <1>5 DEF DropHeadBatch
  <2> DEFINE u == [t EXCEPT !.queue = Rest(@, k)]
  <2>2. TrInv(u, accepted, delivered, lost') /\ u.batch = <<>> /\ u.lock = t.lock
    BY <1>2, <2>1, QueuePrefixLost
  <2>3. FlushEnds(c, calls[c], u)
    BY <2>1
  <2> HIDE DEF u
  <2>4. Outside(u, c)
    BY <1>2, <2>2 DEF Outside, OthersInv, Holders
  <2>5. Sound(tr', calls', posted', accepted, delivered, lost')
    BY <1>1, <2>2, <2>3, <2>4, FlushEndsSound
  <2> QED BY <1>1, <2>5 DEF IInv
<1> QED BY <1>3, <1>4, <1>5 DEF AnswerSessionUnknown, SetCall

(* A call that only changes its record keeps the lock discipline if it     *)
(* stays on the wire.                                                      *)
LEMMA WireSound ==
  ASSUME IInv, NEW c \in Call, calls[c].pc \in OnWire,
         NEW x \in Activation, x.pc \in OnWire,
         calls' = [calls EXCEPT ![c] = x],
         UNCHANGED <<tr, accepted, posted, fates>>
  PROVE  IInv'
<1>1. /\ calls \in [Call -> Activation] /\ LockInv(tr, calls) /\ tr.lock \in Seq(Call)
  BY DEF IInv, Sound, TrInv, Transport
<1>2. /\ calls' \in [Call -> Activation]
      /\ \A d \in Call : /\ calls'[d].pc \in OnWire <=> calls[d].pc \in OnWire
                         /\ calls'[d].pc \in InFlush <=> calls[d].pc \in InFlush
  BY <1>1 DEF OnWire, InFlush
<1>3. \A i \in 1..Len(tr.lock) : tr.lock[i] \in Call
  BY <1>1, ElementOfSeq
<1>4. tr.lock # <<>> => 1 \in 1..Len(tr.lock)
  BY <1>1, EmptySeq
<1>5. LockInv(tr, calls')
  BY <1>1, <1>2, <1>3, <1>4 DEF LockInv
<1> QED BY <1>2, <1>5 DEF IInv, Sound, fates

LEMMA NextSound ==
  ASSUME IInv, [Next]_vars
  PROVE  IInv'
<1>0. calls \in [Call -> Activation] /\ posted \in Nat
  BY DEF IInv, Sound
<1>1. ASSUME NEW bytes \in Size, Enqueue(bytes) PROVE IInv'
  BY <1>1, EnqueueSound
<1>2. ASSUME NEW c \in Call, NEW kind \in {"flush", "shutdown"}, CallFlush(c, kind)
      PROVE  IInv'
  <2>1. calls[c].pc \notin InFlush
    BY <1>2 DEF CallFlush, InFlush
  <2>2. Sound(tr', calls', posted', accepted, delivered, lost')
    BY <1>2, <2>1, NewCallTypes, TransportFlushSound DEF CallFlush
  <2> QED BY <1>2, <2>2 DEF IInv, CallFlush
<1>3. ASSUME NEW c \in Call, LockAcquired(c) PROVE IInv'
  <2>1. Inside(tr, c)
    BY <1>3, HolderNow DEF LockAcquired, Inside
  <2>2. TrInv(tr, accepted, delivered, lost) /\ calls[c] \in Activation
    BY <1>0 DEF IInv, Sound
  <2>3. Sound(tr', calls', posted', accepted, delivered, lost')
    BY <1>0, <1>3, <2>1, <2>2, FlushLoopSound DEF LockAcquired
  <2> QED BY <1>3, <2>3 DEF IInv, LockAcquired
<1>4. ASSUME NEW c \in Call, AnswerRetryable(c) PROVE IInv'
  <2> DEFINE x == [calls[c] EXCEPT !.pc = "backoff", !.attempt = @ + 1]
  <2>1. x \in Activation /\ x.pc \in OnWire
    <3>1. calls[c] \in Activation /\ calls[c].attempt + 1 \in 0..MAX_RETRIES
      BY <1>0, <1>4, Caps DEF AnswerRetryable, RetriesLeft, Activation
    <3> QED BY <3>1 DEF Activation, OnWire
  <2>2. calls' = [calls EXCEPT ![c] = x]
    BY <1>4 DEF AnswerRetryable, SetCall
  <2> HIDE DEF x
  <2> QED BY <1>4, <2>1, <2>2, WireSound DEF AnswerRetryable, OnWire
<1>5. ASSUME NEW c \in Call, BackoffElapses(c) PROVE IInv'
  <2> DEFINE x == [calls[c] EXCEPT !.pc = "wire"]
  <2>1. x \in Activation /\ x.pc \in OnWire
    BY <1>0 DEF Activation, OnWire
  <2>2. calls' = [calls EXCEPT ![c] = x]
    BY <1>5 DEF BackoffElapses, SetCall
  <2> HIDE DEF x
  <2> QED BY <1>5, <2>1, <2>2, WireSound DEF BackoffElapses, OnWire
<1>6. ASSUME NEW c \in Call, StartAccepted(c) PROVE IInv'
  <2> DEFINE a == [calls[c] EXCEPT !.stage = "retry"]
  <2>1. a \in Activation
    BY <1>0 DEF Activation
  <2>2. calls[c].pc \notin InFlush
    BY <1>6 DEF StartAccepted, InFlush
  <2>3. TransportFlush(c, a)
    BY <1>6 DEF StartAccepted
  <2> HIDE DEF a
  <2>4. Sound(tr', calls', posted', accepted, delivered, lost')
    BY <2>1, <2>2, <2>3, TransportFlushSound
  <2> QED BY <1>6, <2>4 DEF IInv, StartAccepted
<1>7. ASSUME NEW c \in Call, StartFails(c) PROVE IInv'
  <2>1. Outside(tr, c)
    BY <1>7, OutsideNow DEF StartFails, InFlush
  <2>2. TrInv(tr, accepted, delivered, lost) /\ calls[c] \in Activation
    BY <1>0 DEF IInv, Sound
  <2>3. Sound(tr', calls', posted', accepted, delivered, lost)
    BY <1>0, <1>7, <2>1, <2>2, FlushEndsSound DEF StartFails
  <2> QED BY <1>7, <2>3 DEF IInv, StartFails, fates
<1>8. ASSUME UNCHANGED vars PROVE IInv'
  BY <1>8 DEF vars, fates, IInv, Sound, TrInv, LockInv, Holders
<1> QED
  BY <1>1, <1>2, <1>3, <1>4, <1>5, <1>6, <1>7, <1>8,
     AcceptedSound, TerminalSound, SessionUnknownSound
  DEF Next, Answer, StartSettles

THEOREM Invariance == Spec => []IInv
<1>1. Init => IInv
  BY InitSound
<1>2. IInv /\ [Next]_vars => IInv'
  BY NextSound
<1> QED BY <1>1, <1>2, PTL DEF Spec

-----------------------------------------------------------------------------
(* The theorems.                                                           *)

(* Every variable has its type (class HttpTransport). *)
THEOREM TypeCorrect == Spec => []TypeOK
<1>1. IInv => TypeOK
  <2> SUFFICES ASSUME IInv PROVE TypeOK
    OBVIOUS
  <2>1. /\ PipeInv(tr.batch \o tr.queue, accepted, delivered, lost)
        /\ tr \in Transport /\ calls \in [Call -> Activation] /\ posted \in Nat
    BY DEF IInv, Sound, TrInv
  <2>2. /\ accepted \in Nat /\ Len(tr.batch \o tr.queue) \in Nat
        /\ delivered \cup lost = 1..accepted - Len(tr.batch \o tr.queue)
    BY <2>1, LenProperties DEF PipeInv
  <2>3. delivered \subseteq Nat \ {0} /\ lost \subseteq Nat \ {0}
    <3>1. accepted - Len(tr.batch \o tr.queue) \in Int
      BY <2>2
    <3>2. \A k \in Int : 1..k \subseteq Nat \ {0}
      OBVIOUS
    <3>3. delivered \cup lost \subseteq Nat \ {0}
      BY <2>2, <3>1, <3>2
    <3> QED BY <3>3
  <2> QED BY <2>1, <2>2, <2>3 DEF TypeOK
<1> QED BY <1>1, Invariance, PTL

(* A rejected batch keeps its place, and every event has at most one fate  *)
(* (flush(), _drop_head_batch()), for every number of concurrent calls.    *)
THEOREM PipelineInOrderHolds == Spec => []PipelineInOrder
<1>1. IInv => PipelineInOrder
  <2> SUFFICES ASSUME IInv PROVE PipelineInOrder
    OBVIOUS
  <2>1. PipeInv(pipeline, accepted, delivered, lost)
    BY DEF IInv, Sound, TrInv, pipeline
  <2>2. Len(pipeline) \in Nat /\ accepted \in Nat /\ settled = accepted - Len(pipeline)
    BY <2>1, LenProperties DEF PipeInv, settled
  <2> QED BY <2>1, <2>2 DEF PipeInv, Numbered, PipelineInOrder
<1> QED BY <1>1, Invariance, PTL

(* By how much the soft ceiling of enqueue() can be overshot.              *)
THEOREM QueueBoundedHolds == Spec => []QueueBounded
<1>1. IInv => QueueBounded
  BY DEF IInv, Sound, TrInv, PipeInv, QueueBounded, pipeline, MaxPipelineEvents,
         MaxPipelineBytes
<1> QED BY <1>1, Invariance, PTL

(* The lock of flush() is exclusive and never leaked.                      *)
THEOREM LockDisciplineHolds == Spec => []LockDiscipline
<1>1. IInv => LockDiscipline
  <2> SUFFICES ASSUME IInv PROVE LockDiscipline
    OBVIOUS
  <2>1. LockInv(tr, calls)
    BY DEF IInv, Sound
  <2> QED BY <2>1 DEF LockInv, Distinct, Holders, InFlush, OnWire, LockDiscipline
<1> QED BY <1>1, Invariance, PTL

(* How the record of a call changes: only its own, and a shutdown() that   *)
(* becomes idle has closed the transport.                                  *)
Ends(c, a) ==
  \E x \in Activation :
    /\ calls' = [calls EXCEPT ![c] = x]
    /\ a.kind = "shutdown" /\ x.pc = "idle" => tr'.closed

LEMMA PostBatchEnds ==
  ASSUME NEW c \in Call, NEW a \in Activation, NEW t, PostBatch(c, a, t)
  PROVE  Ends(c, a)
<1> DEFINE x == [a EXCEPT !.pc = "wire", !.attempt = 0]
<1>1. calls' = [calls EXCEPT ![c] = x]
  BY DEF PostBatch, SetCall
<1>2. x \in Activation /\ x.pc = "wire"
  <2>1. 0 \in 0..MAX_RETRIES
    BY Caps
  <2> QED BY <2>1 DEF Activation
<1> HIDE DEF x
<1> QED BY <1>1, <1>2 DEF Ends

LEMMA FlushEndsEnds ==
  ASSUME NEW c \in Call, NEW a \in Activation, NEW t \in Transport,
         FlushEnds(c, a, t)
  PROVE  Ends(c, a)
<1> DEFINE x == [NewCall("shutdown") EXCEPT !.stage = "last"]
           y == [x EXCEPT !.pc = "lock"]
           u == [t EXCEPT !.lock = <<c>>]
<1>1. /\ Idle \in Activation /\ x \in Activation
      /\ y \in Activation /\ y.pc = "lock" /\ x.kind = "shutdown"
  BY NewCallTypes DEF Activation, NewCall, Idle
<1>2. CASE a.kind = "flush" /\ calls' = [calls EXCEPT ![c] = Idle]
  BY <1>1, <1>2 DEF Ends
<1>3. CASE Closes(c, t)
  BY <1>1, <1>3 DEF Ends, Closes, SetCall, Transport
<1>4. CASE t.closed /\ tr' = t /\ calls' = [calls EXCEPT ![c] = Idle]
  BY <1>1, <1>4 DEF Ends
<1>5. CASE calls' = [calls EXCEPT ![c] = y]
  <2> HIDE DEF y
  <2> QED BY <1>1, <1>5 DEF Ends
<1>6. CASE PostBatch(c, x, u) /\ a.kind = "shutdown"
  <2> HIDE DEF x, u
  <2>1. Ends(c, x)
    BY <1>1, <1>6, PostBatchEnds
  <2> QED BY <1>1, <1>6, <2>1 DEF Ends
<1> QED
  BY <1>2, <1>3, <1>4, <1>5, <1>6 DEF FlushEnds, TransportShutdown, SetCall

LEMMA ReleaseType ==
  ASSUME NEW t \in Transport, t.lock # <<>>
  PROVE  Release(t) \in Transport
<1>1. Tail(t.lock) \in Seq(Call) /\ <<>> \in Seq(Slot)
  BY EmptySeq, HeadTailProperties DEF Transport
<1> QED BY <1>1 DEF Release, Transport

LEMMA RestType ==
  ASSUME NEW t \in Transport, NEW k \in 1..Len(t.queue)
  PROVE  LET v == [t EXCEPT !.queue = Rest(@, k)] IN
         v \in Transport /\ v.lock = t.lock
<1>1. t.queue \in Seq(Slot) /\ Len(t.queue) \in Nat /\ k \in Nat
  BY LenProperties DEF Transport
<1>2. \A i \in k + 1..Len(t.queue) : t.queue[i] \in Slot
  BY <1>1, ElementOfSeq
<1>3. SubSeq(t.queue, k + 1, Len(t.queue)) \in Seq(Slot)
  BY <1>1, <1>2, SubSeqProperties
<1> QED BY <1>3 DEF Rest, Transport

LEMMA FlushLoopEnds ==
  ASSUME NEW c \in Call, NEW a \in Activation, NEW t \in Transport,
         t.lock # <<>>, FlushLoop(c, a, t)
  PROVE  Ends(c, a)
<1>1. CASE FlushEnds(c, a, Release(t))
  BY <1>1, ReleaseType, FlushEndsEnds
<1>2. CASE PostBatch(c, a, t)
  BY <1>2, PostBatchEnds
<1>3. ASSUME NEW k \in 1..Len(t.queue),
             FlushEnds(c, a, Release([t EXCEPT !.queue = Rest(@, k)]))
      PROVE  Ends(c, a)
  <2> DEFINE v == [t EXCEPT !.queue = Rest(@, k)]
  <2>1. v \in Transport /\ v.lock # <<>>
    BY RestType
  <2>2. FlushEnds(c, a, Release(v))
    BY <1>3
  <2> HIDE DEF v
  <2> QED BY <2>1, <2>2, ReleaseType, FlushEndsEnds
<1> QED BY <1>1, <1>2, <1>3 DEF FlushLoop

LEMMA TransportFlushEnds ==
  ASSUME IInv, NEW c \in Call, NEW a \in Activation, TransportFlush(c, a)
  PROVE  Ends(c, a)
<1>0. tr \in Transport
  BY DEF IInv, Sound, TrInv
<1>1. CASE FlushEnds(c, a, tr)
  BY <1>0, <1>1, FlushEndsEnds
<1>2. CASE calls' = [calls EXCEPT ![c] = [a EXCEPT !.pc = "lock"]]
  <2> DEFINE y == [a EXCEPT !.pc = "lock"]
  <2>1. y \in Activation /\ y.pc = "lock"
    BY DEF Activation
  <2>2. calls' = [calls EXCEPT ![c] = y]
    BY <1>2
  <2> HIDE DEF y
  <2> QED BY <2>1, <2>2 DEF Ends
<1>3. CASE FlushLoop(c, a, [tr EXCEPT !.lock = <<c>>])
  <2> DEFINE u == [tr EXCEPT !.lock = <<c>>]
  <2>1. u \in Transport /\ u.lock # <<>>
    <3>1. <<c>> \in Seq(Call) /\ <<c>> # <<>>
      OBVIOUS
    <3> QED BY <1>0, <3>1 DEF Transport
  <2>2. FlushLoop(c, a, u)
    BY <1>3
  <2> HIDE DEF u
  <2> QED BY <2>1, <2>2, FlushLoopEnds
<1> QED BY <1>1, <1>2, <1>3 DEF TransportFlush, SetCall

(* A shutdown() that has returned has closed the transport, whichever path *)
(* it took and whichever call overtook it (the finally block of            *)
(* HttpTransport.shutdown(), client.shutdown()).                           *)
THEOREM ShutdownClosesHolds == Spec => ShutdownCloses
<1> DEFINE Closing ==
      \A c \in Call :
        calls[c].kind = "shutdown" /\ calls[c].pc # "idle" /\ calls'[c].pc = "idle"
          => tr'.closed
<1>1. ASSUME IInv, Next PROVE Closing
  <2>0. /\ calls \in [Call -> Activation] /\ tr \in Transport
        /\ tr.batch \in Seq(Slot) /\ tr.queue \in Seq(Slot) /\ <<>> \in Seq(Slot)
    BY <1>1, EmptySeq DEF IInv, Sound, TrInv, Transport
  <2>1. ASSUME NEW c \in Call, NEW a \in Activation, Ends(c, a),
               a.kind = calls[c].kind \/ calls[c].pc = "idle"
        PROVE  Closing
    <3>1. PICK x \in Activation :
            /\ calls' = [calls EXCEPT ![c] = x]
            /\ a.kind = "shutdown" /\ x.pc = "idle" => tr'.closed
      BY <2>1 DEF Ends
    <3>2. calls'[c] = x /\ \A d \in Call \ {c} : calls'[d] = calls[d]
      BY <2>0, <3>1
    <3> QED BY <2>1, <3>1, <3>2
  <2>2. ASSUME UNCHANGED calls PROVE Closing
    BY <2>2
  <2>3. ASSUME NEW c \in Call, NEW kind \in {"flush", "shutdown"}, CallFlush(c, kind)
        PROVE  Closing
    <3>1. Ends(c, NewCall(kind))
      BY <1>1, <2>3, NewCallTypes, TransportFlushEnds DEF CallFlush
    <3> QED BY <2>1, <2>3, <3>1, NewCallTypes DEF CallFlush
  <2>4. ASSUME NEW c \in Call, LockAcquired(c) PROVE Closing
    <3>1. tr.lock # <<>>
      BY <1>1, <2>4, HolderNow DEF LockAcquired
    <3>2. Ends(c, calls[c])
      BY <2>0, <2>4, <3>1, FlushLoopEnds DEF LockAcquired
    <3> QED BY <2>0, <2>1, <3>2
  <2>5. ASSUME NEW c \in Call, AnswerAccepted(c) PROVE Closing
    <3> DEFINE resumed == tr.paused /\ ~UnderResumeBand(tr.queue)
               t == [tr EXCEPT !.batch = <<>>, !.paused = resumed]
    <3>1. tr.lock # <<>>
      BY <1>1, <2>5, HolderNow DEF AnswerAccepted, OnWire
    <3>2. t \in Transport /\ t.lock = tr.lock
      <4>1. resumed \in BOOLEAN
        OBVIOUS
      <4> HIDE DEF resumed
      <4> QED BY <2>0, <4>1 DEF Transport
    <3>3. FlushLoop(c, calls[c], t)
      BY <2>5 DEF AnswerAccepted
    <3> HIDE DEF t
    <3>4. Ends(c, calls[c])
      BY <2>0, <3>1, <3>2, <3>3, FlushLoopEnds
    <3> QED BY <2>0, <2>1, <3>4
  <2>6. ASSUME NEW c \in Call, AnswerRetryable(c) \/ BackoffElapses(c) PROVE Closing
    <3>1. /\ calls'[c].pc # "idle"
          /\ \A d \in Call \ {c} : calls'[d] = calls[d]
      BY <2>0, <2>6 DEF AnswerRetryable, BackoffElapses, SetCall, Activation
    <3> QED BY <3>1
  <2>7. ASSUME NEW c \in Call, AnswerTerminal(c) PROVE Closing
    <3>1. tr.lock # <<>>
      BY <1>1, <2>7, HolderNow DEF AnswerTerminal, OnWire
    <3>2. Ends(c, calls[c])
      BY <2>0, <2>7, <3>1, ReleaseType, FlushEndsEnds DEF AnswerTerminal
    <3> QED BY <2>0, <2>1, <3>2
  <2>8. ASSUME NEW c \in Call, AnswerSessionUnknown(c) PROVE Closing
    <3>1. Requeued \in Transport
      BY <1>1, <2>8, RequeuedSound DEF AnswerSessionUnknown, TrInv
    <3>2. CASE calls' = [calls EXCEPT ![c] = [calls[c] EXCEPT !.pc = "start"]]
      <4>1. /\ calls'[c].pc # "idle"
            /\ \A d \in Call \ {c} : calls'[d] = calls[d]
        BY <2>0, <3>2 DEF Activation
      <4> QED BY <4>1
    <3>3. CASE FlushEnds(c, calls[c], Requeued)
      <4>1. Ends(c, calls[c])
        BY <2>0, <3>1, <3>3, FlushEndsEnds
      <4> QED BY <2>0, <2>1, <4>1
    <3>4. CASE DropHeadBatch(c, Requeued)
      <4> DEFINE t == Requeued
      <4> HIDE DEF t
      <4>1. PICK k \in 1..Len(t.queue) :
              FlushEnds(c, calls[c], [t EXCEPT !.queue = Rest(@, k)])
        BY <3>4 DEF DropHeadBatch, t
      <4> DEFINE v == [t EXCEPT !.queue = Rest(@, k)]
      <4>2. v \in Transport
        BY <3>1, RestType DEF t
      <4>3. FlushEnds(c, calls[c], v)
        BY <4>1
      <4> HIDE DEF v
      <4>4. Ends(c, calls[c])
        BY <2>0, <4>2, <4>3, FlushEndsEnds
      <4> QED BY <2>0, <2>1, <4>4
    <3> QED BY <2>8, <3>2, <3>3, <3>4 DEF AnswerSessionUnknown, SetCall
  <2>9. ASSUME NEW c \in Call, StartAccepted(c) PROVE Closing
    <3> DEFINE a == [calls[c] EXCEPT !.stage = "retry"]
    <3>1. a \in Activation /\ a.kind = calls[c].kind
      BY <2>0 DEF Activation
    <3>2. TransportFlush(c, a)
      BY <2>9 DEF StartAccepted
    <3> HIDE DEF a
    <3>3. Ends(c, a)
      BY <1>1, <3>1, <3>2, TransportFlushEnds
    <3> QED BY <2>1, <3>1, <3>3
  <2>10. ASSUME NEW c \in Call, StartFails(c) PROVE Closing
    <3>1. Ends(c, calls[c])
      BY <2>0, <2>10, FlushEndsEnds DEF StartFails
    <3> QED BY <2>0, <2>1, <3>1
  <2> HIDE DEF Closing
  <2> QED
    BY <1>1, <2>2, <2>3, <2>4, <2>5, <2>6, <2>7, <2>8, <2>9, <2>10
    DEF Next, Answer, StartSettles, Enqueue
<1>2. IInv /\ [Next]_vars => [Closing]_vars
  BY <1>1
<1>3. Spec => [][Closing]_vars
  BY <1>2, Invariance, PTL DEF Spec
<1> QED BY <1>3 DEF ShutdownCloses

=============================================================================
