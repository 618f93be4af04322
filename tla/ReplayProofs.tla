---------------------------- MODULE ReplayProofs ----------------------------
(***************************************************************************)
(* Machine-checked proofs about Replay: fresh chunk keys, one observer,    *)
(* clips of the bound session only, the buffer's account of its bytes, and *)
(* one place for every chunk, for every number of sessions, events, clips  *)
(* and submits and every size.                                             *)
(*                                                                         *)
(* The strengthening is about the recorder and the keys cut so far         *)
(* (RecInv): sessions are bound in increasing order, the sequence mark     *)
(* belongs to the last session recorded, and every key of that session is  *)
(* below the mark.  Each operation on the recorder has a lemma saying it   *)
(* preserves RecInv; IInv adds the starts under way.  The second part, from *)
(* the sums on, strengthens it with the account of the buffer (AccountInv) *)
(* and the places of the chunks (PlacesInv).                               *)
(***************************************************************************)
EXTENDS Replay, SequenceTheorems, WellFoundedInduction, TLAPS

Mark(r) == IF isRecording(r) THEN r.span.next ELSE r.replaySequence

SpanInv(r) ==
  /\ r.replaySequenceSession <= r.boundSession
  /\ isRecording(r) => /\ r.span.session # 0
                       /\ r.span.session = r.replaySequenceSession
                       /\ r.span.session = r.boundSession
  /\ r.span.pending > 0 => r.span.bytes >= EMPTY_ENVELOPE_BYTES

ClipsInv(r) ==
  /\ \A i \in 1..Len(r.buffered) : r.buffered[i].session = r.boundSession
  /\ r.buffered # <<>> => r.boundSession # 0

KeysBelow(keys, r) ==
  /\ keys \in SUBSET Key
  /\ \A k \in keys : /\ k.session <= r.replaySequenceSession
                     /\ k.session = r.replaySequenceSession => k.sequence < Mark(r)

RecInv(r, keys) ==
  /\ r \in ReplayRecorder
  /\ SpanInv(r)
  /\ ClipsInv(r)
  /\ KeysBelow(keys, r)

(* At most one start() is under way, for the session bound, and none while *)
(* a span is being recorded.                                               *)
StartsInv(r, calls) ==
  /\ calls \in SUBSET Start
  /\ \A st \in calls : st.session = r.boundSession /\ st.session # 0
  /\ \A a, b \in calls : a = b
  /\ calls # {} => r.starting /\ ~isRecording(r)

IInv ==
  /\ RecInv(rec, cut)
  /\ StartsInv(rec, starts)
  /\ session \in Nat
  /\ rec.boundSession <= session
  /\ observers = IF isRecording(rec) THEN 1 ELSE 0
  /\ reloads \in Nat

-----------------------------------------------------------------------------
(* What the operations on the recorder do to the fields that matter here.  *)

LEMMA NoSpanFacts ==
  /\ NoSpan \in Span
  /\ NoSpan.session = 0 /\ NoSpan.next = 0 /\ NoSpan.pending = 0 /\ NoSpan.bytes = 0
BY DEF NoSpan, Span

(* Two recorders alike in what RecInv looks at. *)
LEMMA SameInv ==
  ASSUME NEW keys, NEW r, RecInv(r, keys), NEW t \in ReplayRecorder,
         t.boundSession = r.boundSession, t.replaySequence = r.replaySequence,
         t.replaySequenceSession = r.replaySequenceSession, t.span = r.span,
         t.buffered = r.buffered
  PROVE  RecInv(t, keys)
<1>1. SpanInv(t)
  BY DEF SpanInv, RecInv, isRecording
<1>2. ClipsInv(t)
  BY DEF ClipsInv, RecInv
<1>3. KeysBelow(keys, t)
  BY DEF KeysBelow, RecInv, Mark, isRecording
<1> QED BY <1>1, <1>2, <1>3 DEF RecInv

LEMMA TeardownInv ==
  ASSUME NEW keys, NEW r, RecInv(r, keys)
  PROVE  LET t == Teardown(r) IN
         /\ RecInv(t, keys) /\ ~isRecording(t)
         /\ t.boundSession = r.boundSession /\ t.starting = r.starting
         /\ t.policy = r.policy /\ t.chunksCut = r.chunksCut
<1> DEFINE t == Teardown(r)
           mark == IF isRecording(r) THEN r.span.next ELSE r.replaySequence
<1>1. r \in ReplayRecorder
  BY DEF RecInv
<1>2. mark \in Nat
  BY <1>1 DEF ReplayRecorder, Span
<1>3. t = [r EXCEPT !.replaySequence = mark, !.span = NoSpan, !.currentClip = NoClip]
  BY DEF Teardown
<1> HIDE DEF mark
<1>4. /\ t \in ReplayRecorder /\ t.span = NoSpan /\ t.replaySequence = mark
      /\ t.boundSession = r.boundSession /\ t.starting = r.starting
      /\ t.policy = r.policy /\ t.chunksCut = r.chunksCut
      /\ t.replaySequenceSession = r.replaySequenceSession
      /\ t.buffered = r.buffered
  <2> HIDE DEF t
  <2> QED BY <1>1, <1>2, <1>3, NoSpanFacts DEF ReplayRecorder
<1> HIDE DEF t
<1>5. ~isRecording(t)
  BY <1>4 DEF isRecording
<1>6. SpanInv(t)
  BY <1>4, <1>5, NoSpanFacts DEF SpanInv, RecInv
<1>7. ClipsInv(t)
  BY <1>4 DEF ClipsInv, RecInv
<1>8. KeysBelow(keys, t)
  <2>1. Mark(t) = mark /\ Mark(r) = mark
    BY <1>4, <1>5 DEF Mark, mark
  <2> QED BY <2>1, <1>4 DEF KeysBelow, RecInv
<1> QED BY <1>4, <1>5, <1>6, <1>7, <1>8 DEF RecInv, t

LEMMA DiscardInv ==
  ASSUME NEW keys, NEW r, RecInv(r, keys)
  PROVE  LET t == DiscardBuffer(r) IN
         /\ RecInv(t, keys) /\ t.span = r.span
         /\ t.buffered = <<>>
         /\ t.boundSession = r.boundSession /\ t.starting = r.starting
         /\ t.replaySequence = r.replaySequence
         /\ t.replaySequenceSession = r.replaySequenceSession
         /\ t.policy = r.policy /\ t.chunksCut = r.chunksCut
<1> DEFINE t == DiscardBuffer(r)
<1>1. r \in ReplayRecorder
  BY DEF RecInv
<1>2. <<>> \in Seq(Clip) /\ Len(<<>>) = 0
  BY EmptySeq
<1>3. t = [r EXCEPT !.buffered = <<>>, !.currentClip = NoClip, !.bufferedBytes = 0]
  BY DEF DiscardBuffer
<1>4. /\ t \in ReplayRecorder /\ t.span = r.span /\ t.buffered = <<>>
      /\ t.boundSession = r.boundSession /\ t.starting = r.starting
      /\ t.replaySequence = r.replaySequence
      /\ t.replaySequenceSession = r.replaySequenceSession
      /\ t.policy = r.policy /\ t.chunksCut = r.chunksCut
  <2> HIDE DEF t
  <2> QED BY <1>1, <1>2, <1>3 DEF ReplayRecorder
<1> HIDE DEF t
<1>5. SpanInv(t)
  BY <1>4 DEF SpanInv, RecInv, isRecording
<1>6. ClipsInv(t)
  BY <1>2, <1>4 DEF ClipsInv
<1>7. KeysBelow(keys, t)
  BY <1>4 DEF KeysBelow, RecInv, Mark, isRecording
<1> QED BY <1>4, <1>5, <1>6, <1>7 DEF RecInv, t

(* The chunk being cut has a key of its own. *)
LEMMA CutChunkFacts ==
  ASSUME NEW keys, NEW r, RecInv(r, keys), HasTail(r)
  PROVE  /\ isRecording(r)
         /\ CutChunk(r) \in Chunk
         /\ CutChunk(r).key \in Key
         /\ CutChunk(r).key \notin keys
         /\ CutChunk(r).key.session = r.replaySequenceSession
         /\ CutChunk(r).key.sequence = r.span.next
<1>1. r \in ReplayRecorder /\ r.span \in Span
  BY DEF RecInv, ReplayRecorder
<1>2. isRecording(r)
  BY <1>1, NoSpanFacts DEF HasTail, isRecording
<1>3. r.span.bytes - EMPTY_ENVELOPE_BYTES + EnvelopeBytes \in Nat
  BY <1>1, ReplayAssumption DEF HasTail, RecInv, SpanInv, Span
<1>4. CutChunk(r).key = [session |-> r.span.session, sequence |-> r.span.next]
  BY DEF CutChunk
<1>5. CutChunk(r).key \in Key
  BY <1>1, <1>4 DEF Key, Span
<1>6. CutChunk(r) \in Chunk
  BY <1>3, <1>4, <1>5 DEF CutChunk, Chunk
<1>7. r.span.session = r.replaySequenceSession
  BY <1>2 DEF RecInv, SpanInv
<1>8. CutChunk(r).key \notin keys
  <2> SUFFICES ASSUME CutChunk(r).key \in keys PROVE FALSE
    OBVIOUS
  <2>1. CutChunk(r).key.sequence < Mark(r)
    BY <1>4, <1>7 DEF RecInv, KeysBelow
  <2>2. Mark(r) = r.span.next
    BY <1>2 DEF Mark
  <2> QED BY <1>1, <1>4, <2>1, <2>2 DEF Span
<1> QED BY <1>2, <1>4, <1>5, <1>6, <1>7, <1>8

LEMMA CutInv ==
  ASSUME NEW keys, NEW r, RecInv(r, keys), HasTail(r)
  PROVE  LET t == Cut(r) IN
         /\ RecInv(t, keys \cup {CutChunk(r).key}) /\ isRecording(t)
         /\ t.boundSession = r.boundSession /\ t.starting = r.starting
         /\ t.policy = r.policy /\ t.chunksCut = r.chunksCut + 1
         /\ t.span.pending = 0 /\ t.buffered = r.buffered
<1> DEFINE t == Cut(r)
           next == r.span.next + 1
           sp == [r.span EXCEPT !.next = next, !.pending = 0, !.bytes = 0]
           n == r.chunksCut + 1
           keys2 == keys \cup {CutChunk(r).key}
<1>1. r \in ReplayRecorder /\ r.span \in Span /\ r.chunksCut \in Nat
  BY DEF RecInv, ReplayRecorder
<1>2. /\ sp \in Span /\ sp.session = r.span.session /\ sp.next = r.span.next + 1
      /\ sp.pending = 0 /\ sp.bytes = 0
  <2>1. next \in Nat
    BY <1>1 DEF Span
  <2>2. /\ sp \in Span /\ sp.session = r.span.session /\ sp.next = next
        /\ sp.pending = 0 /\ sp.bytes = 0
    <3> HIDE DEF next
    <3> QED BY <1>1, <2>1 DEF Span
  <2> QED BY <2>2
<1>3. n \in Nat
  BY <1>1
<1>4. t = [r EXCEPT !.span = sp, !.chunksCut = n]
  BY <1>1 DEF Cut, ReplayRecorder, Span
<1>5. /\ t \in ReplayRecorder /\ t.span = sp /\ t.chunksCut = n
      /\ t.boundSession = r.boundSession /\ t.starting = r.starting
      /\ t.policy = r.policy /\ t.buffered = r.buffered
      /\ t.replaySequence = r.replaySequence
      /\ t.replaySequenceSession = r.replaySequenceSession
  <2> HIDE DEF t, sp, n
  <2> QED BY <1>1, <1>2, <1>3, <1>4 DEF ReplayRecorder
<1> HIDE DEF t
<1>6. isRecording(r) /\ r.span.session # 0
  BY CutChunkFacts DEF RecInv, SpanInv
<1>7. isRecording(t)
  BY <1>2, <1>5, <1>6, NoSpanFacts DEF isRecording
<1>8. SpanInv(t)
  BY <1>2, <1>5, <1>6, <1>7 DEF SpanInv, RecInv
<1>9. ClipsInv(t)
  BY <1>5 DEF ClipsInv, RecInv
<1>10. KeysBelow(keys2, t)
  <2>1. Mark(t) = r.span.next + 1 /\ Mark(r) = r.span.next /\ r.span.next \in Nat
    BY <1>1, <1>2, <1>5, <1>6, <1>7 DEF Mark, Span
  <2>2. keys2 \in SUBSET Key
    BY CutChunkFacts DEF RecInv, KeysBelow
  <2>3. r.replaySequenceSession \in Nat
    BY <1>1 DEF ReplayRecorder
  <2>4. ASSUME NEW k \in keys
        PROVE  /\ k.session <= t.replaySequenceSession
               /\ k.session = t.replaySequenceSession => k.sequence < Mark(t)
    <3>1. k \in Key
      BY <2>2
    <3>2. /\ k.session <= r.replaySequenceSession
          /\ k.session = r.replaySequenceSession => k.sequence < Mark(r)
      BY DEF RecInv, KeysBelow
    <3> QED BY <1>5, <2>1, <3>1, <3>2 DEF Key
  <2>5. ASSUME NEW k \in {CutChunk(r).key}
        PROVE  /\ k.session <= t.replaySequenceSession
               /\ k.session = t.replaySequenceSession => k.sequence < Mark(t)
    BY <1>5, <2>1, <2>3, CutChunkFacts
  <2> QED BY <2>2, <2>4, <2>5 DEF KeysBelow
<1> QED BY <1>1, <1>2, <1>5, <1>7, <1>8, <1>9, <1>10 DEF RecInv, t

LEMMA BufferChunkInv ==
  ASSUME NEW keys, NEW r, RecInv(r, keys), NEW chunk \in Chunk
  PROVE  LET t == BufferChunk(r, chunk) IN
         /\ RecInv(t, keys) /\ t.span = r.span
         /\ t.boundSession = r.boundSession /\ t.starting = r.starting
         /\ t.policy = r.policy /\ t.chunksCut = r.chunksCut
<1>1. CASE ~Room(r, chunk)
  BY <1>1 DEF BufferChunk
<1>2. CASE Room(r, chunk)
  <2> DEFINE t == BufferChunk(r, chunk)
             b == WithChunk(r, chunk)
             total == r.bufferedBytes + chunk.byteLength
  <2>1. r \in ReplayRecorder /\ r.buffered \in Seq(Clip)
    BY DEF RecInv, ReplayRecorder
  <2>2. chunk.byteLength \in Nat /\ total \in Nat
    BY <2>1 DEF Chunk, ReplayRecorder
  <2>3. ASSUME NEW clip \in Clip
        PROVE  Grown(clip, chunk) \in Clip /\ Grown(clip, chunk).session = clip.session
    <3>1. Append(clip.chunks, chunk) \in Seq(Chunk)
      BY AppendProperties DEF Clip
    <3>2. clip.bytes + chunk.byteLength \in Nat
      BY <2>2 DEF Clip
    <3> DEFINE chunks == Append(clip.chunks, chunk)
               bytes == clip.bytes + chunk.byteLength
    <3>3. Grown(clip, chunk) = [clip EXCEPT !.chunks = chunks, !.bytes = bytes]
      BY DEF Grown
    <3> HIDE DEF chunks, bytes
    <3> QED BY <3>1, <3>2, <3>3 DEF Clip, chunks, bytes
  <2>4. DOMAIN r.buffered = 1..Len(r.buffered) /\ Len(r.buffered) \in Nat
    BY <2>1, LenProperties
  <2>5. \A i \in 1..Len(r.buffered) : /\ b[i] \in Clip
                                      /\ b[i].session = r.buffered[i].session
    <3>1. \A i \in 1..Len(r.buffered) : r.buffered[i] \in Clip
      BY <2>1, ElementOfSeq
    <3> QED BY <2>3, <2>4, <3>1 DEF WithChunk
  <2>6. b \in Seq(Clip) /\ Len(b) = Len(r.buffered)
    <3>1. b \in [1..Len(r.buffered) -> Clip]
      BY <2>4, <2>5 DEF WithChunk
    <3>2. b \in Seq(Clip)
      BY <2>4, <3>1, SeqDef
    <3>3. DOMAIN b = 1..Len(r.buffered)
      BY <2>4 DEF WithChunk
    <3> HIDE DEF b
    <3> QED BY <2>4, <3>2, <3>3, LenProperties
  <2>7. t = [r EXCEPT !.buffered = b, !.bufferedBytes = total]
    BY <1>2 DEF BufferChunk
  <2> HIDE DEF t, b, total
  <2>8. /\ t \in ReplayRecorder /\ t.span = r.span /\ t.buffered = b
        /\ t.boundSession = r.boundSession /\ t.starting = r.starting
        /\ t.policy = r.policy /\ t.chunksCut = r.chunksCut
        /\ t.replaySequence = r.replaySequence
        /\ t.replaySequenceSession = r.replaySequenceSession
    BY <2>1, <2>2, <2>6, <2>7 DEF ReplayRecorder
  <2>9. SpanInv(t) /\ KeysBelow(keys, t)
    BY <2>8 DEF SpanInv, KeysBelow, RecInv, Mark, isRecording
  <2>10. ClipsInv(t)
    <3>1. \A i \in 1..Len(b) : b[i].session = r.boundSession
      BY <2>5, <2>6 DEF RecInv, ClipsInv
    <3>2. b # <<>> => r.buffered # <<>>
      BY <2>1, <2>6, EmptySeq
    <3> QED BY <2>8, <3>1, <3>2 DEF RecInv, ClipsInv
  <2> QED BY <2>8, <2>9, <2>10 DEF RecInv, t
<1> QED BY <1>1, <1>2

LEMMA DispatchInv ==
  ASSUME NEW keys, NEW r, RecInv(r, keys), HasTail(r)
  PROVE  LET t == Dispatch(r) IN
         /\ RecInv(t, keys \cup {CutChunk(r).key}) /\ isRecording(t)
         /\ t.boundSession = r.boundSession /\ t.starting = r.starting
         /\ t.policy = r.policy /\ t.chunksCut = r.chunksCut + 1
         /\ t.span.pending = 0
<1>1. CutChunk(r) \in Chunk
  BY CutChunkFacts
<1> DEFINE c == Cut(r)
           keys2 == keys \cup {CutChunk(r).key}
<1>2. /\ RecInv(c, keys2) /\ isRecording(c)
      /\ c.boundSession = r.boundSession /\ c.starting = r.starting
      /\ c.policy = r.policy /\ c.chunksCut = r.chunksCut + 1
      /\ c.span.pending = 0
  BY CutInv
<1> DEFINE d == BufferChunk(c, CutChunk(r))
<1> HIDE DEF c, keys2
<1>3. /\ RecInv(d, keys2) /\ d.span = c.span
      /\ d.boundSession = c.boundSession /\ d.starting = c.starting
      /\ d.policy = c.policy /\ d.chunksCut = c.chunksCut
  BY <1>1, <1>2, BufferChunkInv
<1>4. isRecording(d) /\ d.span.pending = 0
  BY <1>2, <1>3 DEF isRecording
<1> HIDE DEF d
<1>5. Dispatch(r) = IF Reviewing(r) THEN d ELSE c
  BY DEF Dispatch, c, d
<1> QED BY <1>2, <1>3, <1>4, <1>5 DEF keys2

(* stop(): at most one more key, and nothing is recorded afterwards. *)
LEMMA StoppedInv ==
  ASSUME NEW keys, NEW r, RecInv(r, keys)
  PROVE  LET t == Stopped(r) IN
         /\ RecInv(t, keys \cup TailKeys(r)) /\ ~isRecording(t)
         /\ t.boundSession = r.boundSession /\ t.starting = r.starting
         /\ t.policy = r.policy
         /\ t.chunksCut = IF HasTail(r) THEN r.chunksCut + 1 ELSE r.chunksCut
<1>1. CASE HasTail(r)
  <2> DEFINE d == Dispatch(r)
             keys2 == keys \cup {CutChunk(r).key}
  <2>1. /\ RecInv(d, keys2)
        /\ d.boundSession = r.boundSession /\ d.starting = r.starting
        /\ d.policy = r.policy /\ d.chunksCut = r.chunksCut + 1
    BY <1>1, DispatchInv
  <2>2. Stopped(r) = Teardown(d) /\ keys \cup TailKeys(r) = keys2
    BY <1>1 DEF Stopped, TailKeys
  <2> HIDE DEF d, keys2
  <2> QED BY <1>1, <2>1, <2>2, TeardownInv
<1>2. CASE ~HasTail(r)
  <2>1. Stopped(r) = Teardown(r) /\ keys \cup TailKeys(r) = keys
    BY <1>2 DEF Stopped, TailKeys
  <2> QED BY <1>2, <2>1, TeardownInv
<1> QED BY <1>1, <1>2

LEMMA WithoutClipInv ==
  ASSUME NEW keys, NEW r, RecInv(r, keys), NEW i \in DOMAIN r.buffered
  PROVE  LET t == WithoutClip(r, i) IN
         /\ RecInv(t, keys) /\ t.span = r.span
         /\ t.boundSession = r.boundSession /\ t.starting = r.starting
         /\ t.chunksCut = r.chunksCut
<1> DEFINE t == WithoutClip(r, i)
           b == RemoveAt(r.buffered, i)
           n == Len(r.buffered)
           bytes == IF r.buffered[i].bytes <= r.bufferedBytes
                    THEN r.bufferedBytes - r.buffered[i].bytes ELSE 0
           open == IF r.currentClip = r.buffered[i].clipId THEN NoClip ELSE r.currentClip
<1>1. r \in ReplayRecorder /\ r.buffered \in Seq(Clip)
  BY DEF RecInv, ReplayRecorder
<1>2. n \in Nat /\ DOMAIN r.buffered = 1..n /\ i \in 1..n
  BY <1>1, LenProperties
<1>3. \A j \in 1..n : r.buffered[j] \in Clip /\ r.buffered[j].session = r.boundSession
  BY <1>1, ElementOfSeq DEF RecInv, ClipsInv
<1> DEFINE Mine == {clip \in Clip : clip.session = r.boundSession}
           head == SubSeq(r.buffered, 1, i - 1)
           rest == SubSeq(r.buffered, i + 1, n)
<1>4. head \in Seq(Mine) /\ rest \in Seq(Mine)
  <2>1. \A j \in 1..i - 1 : r.buffered[j] \in Mine
    BY <1>2, <1>3
  <2>2. \A j \in i + 1..n : r.buffered[j] \in Mine
    BY <1>2, <1>3
  <2>3. 1 \in Int /\ i - 1 \in Int /\ i + 1 \in Int /\ n \in Int
    BY <1>2
  <2> HIDE DEF Mine, n
  <2> QED BY <2>1, <2>2, <2>3, SubSeqProperties
<1>5. b = head \o rest
  BY DEF RemoveAt
<1>6. b \in Seq(Mine)
  <2> HIDE DEF Mine, head, rest, b
  <2> QED BY <1>4, <1>5, ConcatProperties
<1>7. \A j \in 1..Len(b) : b[j] \in Mine
  <2> HIDE DEF Mine, b
  <2> QED BY <1>6, ElementOfSeq
<1>8. b \in Seq(Clip)
  <2>1. Mine \subseteq Clip
    OBVIOUS
  <2> HIDE DEF Mine, b
  <2> QED BY <1>6, <2>1, SeqDef
<1>9. bytes \in Nat
  <2>1. r.buffered[i].bytes \in Nat /\ r.bufferedBytes \in Nat
    BY <1>1, <1>2, <1>3 DEF ReplayRecorder, Clip
  <2> QED BY <2>1
<1>10. open \in Nat \cup {NoClip}
  BY <1>1 DEF ReplayRecorder
<1>11. t = [r EXCEPT !.buffered = b, !.bufferedBytes = bytes, !.currentClip = open]
  BY <1>1 DEF WithoutClip, ReplayRecorder
<1> HIDE DEF t, b, bytes, open, n
<1>12. /\ t \in ReplayRecorder /\ t.span = r.span /\ t.buffered = b
       /\ t.boundSession = r.boundSession /\ t.starting = r.starting
       /\ t.chunksCut = r.chunksCut
       /\ t.replaySequence = r.replaySequence
       /\ t.replaySequenceSession = r.replaySequenceSession
  BY <1>1, <1>8, <1>9, <1>10, <1>11 DEF ReplayRecorder
<1>13. SpanInv(t) /\ KeysBelow(keys, t)
  BY <1>12 DEF SpanInv, KeysBelow, RecInv, Mark, isRecording
<1>14. ClipsInv(t)
  <2>1. r.buffered # <<>>
    BY <1>1, <1>2, EmptySeq DEF n
  <2> QED BY <1>7, <1>12, <2>1 DEF RecInv, ClipsInv
<1> QED BY <1>12, <1>13, <1>14 DEF RecInv, t

LEMMA AddedInv ==
  ASSUME NEW keys, NEW r, RecInv(r, keys), isRecording(r), NEW bytes \in Nat
  PROVE  LET t == Added(r, bytes) IN
         /\ RecInv(t, keys) /\ isRecording(t)
         /\ t.boundSession = r.boundSession /\ t.starting = r.starting
         /\ t.chunksCut = r.chunksCut
<1> DEFINE t == Added(r, bytes)
           pending == r.span.pending + 1
           size == IF r.span.pending = 0 THEN EMPTY_ENVELOPE_BYTES + bytes
                   ELSE r.span.bytes + 1 + bytes
           sp == [r.span EXCEPT !.pending = pending, !.bytes = size]
<1>1. r \in ReplayRecorder /\ r.span \in Span /\ r.span.session # 0
  BY DEF RecInv, ReplayRecorder, SpanInv
<1>2. pending \in Nat /\ size \in Nat /\ size >= EMPTY_ENVELOPE_BYTES
  <2>1. r.span.pending \in Nat /\ r.span.bytes \in Nat /\ EMPTY_ENVELOPE_BYTES \in Nat
    BY <1>1, ReplayAssumption DEF Span
  <2>2. r.span.pending > 0 => r.span.bytes >= EMPTY_ENVELOPE_BYTES
    BY DEF RecInv, SpanInv
  <2> QED BY <2>1, <2>2
<1>3. /\ sp \in Span /\ sp.session = r.span.session /\ sp.next = r.span.next
      /\ sp.bytes = size
  <2> HIDE DEF pending, size
  <2> QED BY <1>1, <1>2 DEF Span
<1>4. t = [r EXCEPT !.span = sp]
  BY <1>1 DEF Added, ReplayRecorder, Span
<1> HIDE DEF t, sp, size, pending
<1>5. /\ t \in ReplayRecorder /\ t.span = sp /\ t.chunksCut = r.chunksCut
      /\ t.boundSession = r.boundSession /\ t.starting = r.starting
      /\ t.buffered = r.buffered /\ t.replaySequence = r.replaySequence
      /\ t.replaySequenceSession = r.replaySequenceSession
  BY <1>1, <1>3, <1>4 DEF ReplayRecorder
<1>6. isRecording(t)
  BY <1>1, <1>3, <1>5, NoSpanFacts DEF isRecording
<1>7. SpanInv(t)
  BY <1>2, <1>3, <1>5, <1>6 DEF SpanInv, RecInv
<1>8. ClipsInv(t)
  BY <1>5 DEF ClipsInv, RecInv
<1>9. KeysBelow(keys, t)
  <2>1. Mark(t) = Mark(r)
    BY <1>3, <1>5, <1>6 DEF Mark
  <2> QED BY <1>5, <2>1 DEF KeysBelow, RecInv
<1> QED BY <1>5, <1>6, <1>7, <1>8, <1>9 DEF RecInv, t

(* start() continues the numbering of the session it records, or starts    *)
(* numbering a session no chunk has been cut for.                          *)
LEMMA PreparedInv ==
  ASSUME NEW keys, NEW r, RecInv(r, keys), ~isRecording(r), r.boundSession # 0
  PROVE  LET t == Prepared(r, r.boundSession) IN
         /\ RecInv(t, keys) /\ isRecording(t)
         /\ t.boundSession = r.boundSession /\ t.starting = r.starting
         /\ t.chunksCut = r.chunksCut
<1> DEFINE s == r.boundSession
           mark == IF r.replaySequenceSession = s THEN r.replaySequence ELSE 0
           sp == NewSpan(s, mark)
           clip == [clipId |-> r.clipCounter, session |-> s, chunks |-> <<>>, bytes |-> 0]
           next == r.clipCounter + 1
           ready == [r EXCEPT !.replaySequence = mark, !.replaySequenceSession = s, !.span = sp]
           b == Append(r.buffered, clip)
           t == Prepared(r, s)
<1>1. /\ r \in ReplayRecorder /\ s \in Nat /\ mark \in Nat /\ r.clipCounter \in Nat
      /\ next \in Nat /\ r.buffered \in Seq(Clip) /\ r.replaySequenceSession \in Nat
  BY DEF RecInv, ReplayRecorder
<1>2. sp \in Span /\ sp.session = s /\ sp.next = mark /\ sp.pending = 0
  BY <1>1 DEF NewSpan, Span
<1>3. clip \in Clip /\ clip.session = s
  <2>1. <<>> \in Seq(Chunk)
    BY EmptySeq
  <2> QED BY <1>1, <2>1 DEF Clip
<1>4. /\ b \in Seq(Clip)
      /\ Len(b) = Len(r.buffered) + 1 /\ Len(r.buffered) \in Nat
      /\ \A i \in 1..Len(r.buffered) : b[i] = r.buffered[i]
      /\ b[Len(r.buffered) + 1] = clip
  <2> HIDE DEF clip
  <2> QED BY <1>1, <1>3, AppendProperties, LenProperties
<1>5. \/ t = ready
      \/ t = [r EXCEPT !.replaySequence = mark, !.replaySequenceSession = s, !.span = sp,
                       !.buffered = b, !.currentClip = r.clipCounter, !.clipCounter = next]
  BY <1>1 DEF Prepared, ReplayRecorder
<1> HIDE DEF t, b, clip, next
<1>6. /\ t \in ReplayRecorder /\ t.span = sp /\ t.chunksCut = r.chunksCut
      /\ t.boundSession = s /\ t.starting = r.starting
      /\ t.replaySequence = mark /\ t.replaySequenceSession = s
      /\ t.buffered = r.buffered \/ t.buffered = b
  <2>1. CASE t = ready
    <3> HIDE DEF mark, sp
    <3> QED BY <2>1, <1>1, <1>2 DEF ReplayRecorder
  <2>2. CASE t = [r EXCEPT !.replaySequence = mark, !.replaySequenceSession = s, !.span = sp,
                           !.buffered = b, !.currentClip = r.clipCounter, !.clipCounter = next]
    <3> HIDE DEF mark, sp
    <3> QED BY <2>2, <1>1, <1>2, <1>4 DEF ReplayRecorder
  <2> QED BY <1>5, <2>1, <2>2
<1> HIDE DEF mark, sp
<1>7. isRecording(t)
  BY <1>2, <1>6, NoSpanFacts DEF isRecording
<1>8. SpanInv(t)
  BY <1>1, <1>2, <1>6 DEF SpanInv
<1>9. ClipsInv(t)
  <2>1. \A i \in 1..Len(r.buffered) : r.buffered[i].session = s
    BY DEF RecInv, ClipsInv
  <2>2. \A i \in 1..Len(b) : b[i].session = s
    BY <1>3, <1>4, <2>1
  <2> QED BY <1>6, <2>1, <2>2 DEF ClipsInv
<1>10. KeysBelow(keys, t)
  <2>1. Mark(t) = mark /\ Mark(r) = r.replaySequence
    BY <1>2, <1>6, <1>7 DEF Mark
  <2>2. r.replaySequenceSession <= s
    BY DEF RecInv, SpanInv
  <2>3. ASSUME NEW k \in keys
        PROVE  k.session <= s /\ (k.session = s => k.sequence < mark)
    <3>1. /\ k \in Key
          /\ k.session <= r.replaySequenceSession
          /\ k.session = r.replaySequenceSession => k.sequence < r.replaySequence
      BY <2>1 DEF RecInv, KeysBelow
    <3>2. k.session \in Nat
      BY <3>1 DEF Key
    <3> QED BY <1>1, <2>2, <3>1, <3>2 DEF mark
  <2> QED BY <1>6, <2>1, <2>3 DEF RecInv, KeysBelow
<1> QED BY <1>6, <1>7, <1>8, <1>9, <1>10 DEF RecInv, t

(* start() up to its first await, on a recorder that is not recording. *)
LEMMA StartCalledInv ==
  ASSUME NEW keys, NEW r, RecInv(r, keys), StartsInv(r, starts), ~isRecording(r),
         NEW s \in Nat \ {0}, r.boundSession <= s,
         NEW trigger \in {"auto", "manual"}, StartCalled(r, s, trigger)
  PROVE  /\ RecInv(rec', keys) /\ StartsInv(rec, starts)' /\ ~isRecording(rec')
         /\ rec'.boundSession <= s /\ rec'.chunksCut = r.chunksCut
<1>1. CASE StartRefused(r)
  <2>1. rec' = r /\ starts' = starts
    BY <1>1 DEF StartCalled
  <2> QED BY <2>1 DEF StartsInv
<1>2. CASE ~StartRefused(r)
  <2> DEFINE d == IF Abandons(r, s) THEN DiscardBuffer(r) ELSE r
             call == [session |-> s, trigger |-> trigger, phase |-> "policy"]
  <2>1. rec' = [d EXCEPT !.boundSession = s, !.starting = TRUE]
    BY <1>2 DEF StartCalled
  <2>2. starts' = starts \cup {call}
    BY <1>2 DEF StartCalled
  <2>3. starts = {}
    BY <1>2 DEF StartRefused, StartsInv
  <2>4. /\ RecInv(d, keys) /\ d.span = r.span /\ d.chunksCut = r.chunksCut
        /\ d.boundSession = r.boundSession
    BY DiscardInv
  <2>5. d.buffered = <<>> \/ d.boundSession = s
    <3>1. CASE Abandons(r, s)
      BY <3>1, DiscardInv
    <3>2. CASE ~Abandons(r, s)
      BY <3>2 DEF Abandons, RecInv, ClipsInv
    <3> QED BY <3>1, <3>2
  <2> HIDE DEF d
  <2>6. d \in ReplayRecorder /\ d.replaySequenceSession \in Nat /\ d.boundSession \in Nat
    BY <2>4 DEF RecInv, ReplayRecorder
  <2>7. /\ rec' \in ReplayRecorder /\ rec'.boundSession = s /\ rec'.starting = TRUE
        /\ rec'.span = d.span /\ rec'.buffered = d.buffered /\ rec'.chunksCut = d.chunksCut
        /\ rec'.replaySequence = d.replaySequence
        /\ rec'.replaySequenceSession = d.replaySequenceSession
    BY <2>1, <2>6 DEF ReplayRecorder
  <2>8. ~isRecording(rec')
    BY <2>4, <2>7 DEF isRecording
  <2>9. SpanInv(rec')
    BY <2>4, <2>6, <2>7, <2>8 DEF RecInv, SpanInv
  <2>10. ClipsInv(rec')
    <3>1. Len(<<>>) = 0
      BY EmptySeq
    <3>2. CASE d.buffered = <<>>
      BY <2>7, <3>1, <3>2 DEF ClipsInv
    <3>3. CASE d.boundSession = s
      BY <2>4, <2>7, <3>3 DEF RecInv, ClipsInv
    <3> QED BY <2>5, <3>2, <3>3
  <2>11. KeysBelow(keys, rec')
    BY <2>4, <2>7, <2>8 DEF RecInv, KeysBelow, Mark, isRecording
  <2>12. StartsInv(rec, starts)'
    <3>1. call \in Start /\ call.session = s
      BY DEF Start
    <3> HIDE DEF call
    <3>2. starts' = {call}
      BY <2>2, <2>3
    <3> QED BY <2>7, <2>8, <3>1, <3>2 DEF StartsInv
  <2> QED BY <2>4, <2>7, <2>8, <2>9, <2>10, <2>11, <2>12 DEF RecInv
<1> QED BY <1>1, <1>2

-----------------------------------------------------------------------------
(* The actions.                                                            *)

LEMMA InitInv == Init => IInv
<1> SUFFICES ASSUME Init PROVE IInv
  OBVIOUS
<1>1. PICK m \in Mode : rec = Recorder(m)
  BY DEF Init
<1>2. <<>> \in Seq(Clip) /\ Len(<<>>) = 0
  BY EmptySeq
<1>3. /\ rec \in ReplayRecorder /\ rec.boundSession = 0 /\ rec.replaySequenceSession = 0
      /\ rec.span = NoSpan /\ rec.buffered = <<>>
  BY <1>1, <1>2, NoSpanFacts DEF Recorder, ReplayRecorder
<1>4. ~isRecording(rec)
  BY <1>3 DEF isRecording
<1>5. RecInv(rec, cut)
  BY <1>2, <1>3, <1>4, NoSpanFacts DEF RecInv, SpanInv, ClipsInv, KeysBelow, Init
<1> QED BY <1>3, <1>4, <1>5 DEF Init, IInv, StartsInv

LEMMA ReloadInv == ASSUME IInv, Reload PROVE IInv'
<1>1. PICK m \in Mode : rec' = Recorder(m)
  BY DEF Reload, FreshPage
<1>2. <<>> \in Seq(Clip) /\ Len(<<>>) = 0
  BY EmptySeq
<1>3. /\ rec' \in ReplayRecorder /\ rec'.boundSession = 0 /\ rec'.replaySequenceSession = 0
      /\ rec'.span = NoSpan /\ rec'.buffered = <<>>
  BY <1>1, <1>2, NoSpanFacts DEF Recorder, ReplayRecorder
<1>4. ~isRecording(rec')
  BY <1>3 DEF isRecording
<1>5. RecInv(rec', cut')
  BY <1>2, <1>3, <1>4, NoSpanFacts
  DEF RecInv, SpanInv, ClipsInv, KeysBelow, Reload, FreshPage
<1>6. session' \in Nat /\ session' = session
  BY DEF IInv, Reload
<1>7. starts' = {} /\ observers' = 0 /\ reloads' \in Nat
  BY DEF Reload, FreshPage, IInv
<1> QED BY <1>3, <1>4, <1>5, <1>6, <1>7 DEF IInv, StartsInv

(* Recorder.stop() while recording: the facts its callers share. *)
LEMMA ObserverStoppedInv ==
  ASSUME IInv, ObserverStopped
  PROVE  observers' = 0
BY DEF IInv, ObserverStopped

LEMMA StopNowInv ==
  ASSUME IInv, StopNow, UNCHANGED <<starts, session, reloads>>
  PROVE  IInv'
<1> DEFINE t == Stopped(rec)
<1>1. RecInv(rec, cut)
  BY DEF IInv
<1>2. rec' = t /\ cut' = cut \cup TailKeys(rec)
  BY DEF StopNow, Recorded
<1>3. /\ RecInv(t, cut \cup TailKeys(rec)) /\ ~isRecording(t)
      /\ t.boundSession = rec.boundSession /\ t.starting = rec.starting
  BY <1>1, StoppedInv
<1> HIDE DEF t
<1>4. observers' = 0
  BY ObserverStoppedInv DEF StopNow
<1>5. StartsInv(rec, starts)'
  BY <1>2, <1>3 DEF IInv, StartsInv
<1> QED BY <1>2, <1>3, <1>4, <1>5 DEF IInv

(* What submit(), discard() and a session change start with. *)
LEMMA StopFirstInv ==
  ASSUME IInv
  PROVE  LET r == IF isRecording(rec) THEN Stopped(rec) ELSE rec IN
         /\ RecInv(r, cut \cup TailKeys(rec)) /\ ~isRecording(r)
         /\ r.boundSession = rec.boundSession /\ r.starting = rec.starting
         /\ r.chunksCut = IF HasTail(rec) THEN rec.chunksCut + 1 ELSE rec.chunksCut
<1>1. RecInv(rec, cut)
  BY DEF IInv
<1>2. CASE isRecording(rec)
  BY <1>1, <1>2, StoppedInv
<1>3. CASE ~isRecording(rec)
  <2>1. ~HasTail(rec)
    BY <1>3, NoSpanFacts DEF HasTail, isRecording
  <2>2. cut \cup TailKeys(rec) = cut
    BY <2>1 DEF TailKeys
  <2> QED BY <1>1, <1>3, <2>1, <2>2
<1> QED BY <1>2, <1>3

LEMMA DiscardActionInv == ASSUME IInv, Discard PROVE IInv'
<1> DEFINE r == IF isRecording(rec) THEN Stopped(rec) ELSE rec
           keys == cut \cup TailKeys(rec)
<1>1. rec' = DiscardBuffer(r) /\ cut' = keys
  BY DEF Discard, Recorded
<1>2. /\ RecInv(r, keys) /\ ~isRecording(r)
      /\ r.boundSession = rec.boundSession /\ r.starting = rec.starting
  BY StopFirstInv
<1> HIDE DEF r, keys
<1>3. /\ RecInv(rec', keys) /\ ~isRecording(rec')
      /\ rec'.boundSession = rec.boundSession /\ rec'.starting = rec.starting
  BY <1>1, <1>2, DiscardInv DEF isRecording
<1>4. observers' = 0
  BY ObserverStoppedInv DEF Discard
<1>5. starts' = starts /\ session' = session /\ reloads' = reloads
  BY DEF Discard, page
<1>6. StartsInv(rec, starts)'
  BY <1>3, <1>5 DEF IInv, StartsInv
<1> QED BY <1>1, <1>3, <1>4, <1>5, <1>6 DEF IInv

LEMMA SubmitInv == ASSUME IInv, NEW s \in Submitter, Submit(s) PROVE IInv'
<1> DEFINE r == IF isRecording(rec) THEN Stopped(rec) ELSE rec
           keys == cut \cup TailKeys(rec)
<1>1. rec' = DiscardBuffer(r) /\ cut' = keys
  BY DEF Submit, Drained, Recorded
<1>2. /\ RecInv(r, keys) /\ ~isRecording(r)
      /\ r.boundSession = rec.boundSession /\ r.starting = rec.starting
  BY StopFirstInv
<1> HIDE DEF r, keys
<1>3. /\ RecInv(rec', keys) /\ ~isRecording(rec')
      /\ rec'.boundSession = rec.boundSession /\ rec'.starting = rec.starting
  BY <1>1, <1>2, DiscardInv DEF isRecording
<1>4. observers' = 0
  BY ObserverStoppedInv DEF Submit
<1>5. starts' = starts /\ session' = session /\ reloads' = reloads
  BY DEF Submit, page
<1>6. StartsInv(rec, starts)'
  BY <1>3, <1>5 DEF IInv, StartsInv
<1> QED BY <1>1, <1>3, <1>4, <1>5, <1>6 DEF IInv

LEMMA OnSessionChangedInv ==
  ASSUME IInv, NEW s \in 1..MaxSessions, OnSessionChanged(s)
  PROVE  IInv'
<1> DEFINE r == IF isRecording(rec) THEN Stopped(rec) ELSE rec
           keys == cut \cup TailKeys(rec)
<1>1. StartCalled(r, s, "auto") /\ cut' = keys
  BY DEF OnSessionChanged, Recorded
<1>2. /\ RecInv(r, keys) /\ ~isRecording(r)
      /\ r.boundSession = rec.boundSession /\ r.starting = rec.starting
  BY StopFirstInv
<1> HIDE DEF r, keys
<1>3. session \in Nat /\ session <= s /\ session' = s /\ reloads' = reloads
  BY DEF IInv, OnSessionChanged
<1>4. s \in Nat \ {0} /\ r.boundSession <= s
  <2>1. rec.boundSession <= session /\ rec.boundSession \in Nat
    BY DEF IInv, RecInv, ReplayRecorder
  <2> QED BY <1>2, <1>3, <2>1, ReplayAssumption
<1>5. StartsInv(r, starts)
  BY <1>2 DEF IInv, StartsInv
<1>6. /\ RecInv(rec', keys) /\ StartsInv(rec, starts)' /\ ~isRecording(rec')
      /\ rec'.boundSession <= s
  BY <1>1, <1>2, <1>4, <1>5, StartCalledInv
<1>7. observers' = 0
  BY ObserverStoppedInv DEF OnSessionChanged
<1> QED BY <1>1, <1>3, <1>4, <1>6, <1>7 DEF IInv

LEMMA StartManualInv == ASSUME IInv, StartManual PROVE IInv'
<1>1. /\ StartCalled(rec, rec.boundSession, "manual") /\ cut' = cut
      /\ session' = session /\ observers' = observers /\ reloads' = reloads
  BY DEF StartManual, history, page
<1>2. /\ RecInv(rec, cut) /\ StartsInv(rec, starts) /\ rec.boundSession \in Nat \ {0}
      /\ ~isRecording(rec)
  BY DEF IInv, StartManual, StartRefused, RecInv, ReplayRecorder
<1> DEFINE s == rec.boundSession
<1>3. s \in Nat \ {0} /\ rec.boundSession <= s
  BY <1>2
<1>4. /\ RecInv(rec', cut) /\ StartsInv(rec, starts)' /\ ~isRecording(rec')
      /\ rec'.boundSession <= s
  <2> HIDE DEF s
  <2>1. StartCalled(rec, s, "manual")
    BY <1>1 DEF s
  <2> QED BY <1>2, <1>3, <2>1, StartCalledInv
<1>5. rec'.boundSession <= session
  <2>1. rec'.boundSession \in Nat /\ session \in Nat /\ s <= session
    BY <1>4 DEF IInv, RecInv, ReplayRecorder
  <2> QED BY <1>2, <1>4, <2>1
<1> QED BY <1>1, <1>2, <1>4, <1>5 DEF IInv

LEMMA PolicyResolvesInv ==
  ASSUME IInv, NEW st \in starts, PolicyResolves(st)
  PROVE  IInv'
<1>1. rec \in ReplayRecorder /\ RecInv(rec, cut)
  BY DEF IInv, RecInv
<1>2. cut' = cut /\ session' = session /\ observers' = observers /\ reloads' = reloads
  BY DEF PolicyResolves, history, page
<1>3. starts = {st} /\ st \in Start /\ rec.starting /\ ~isRecording(rec)
  BY DEF IInv, StartsInv
<1> DEFINE later == [st EXCEPT !.phase = "loading"]
<1>4. later \in Start /\ later.session = st.session
  BY <1>3 DEF Start
<1>5. PICK m \in Mode :
        \/ /\ rec' = [rec EXCEPT !.policy = m]
           /\ starts' = (starts \ {st}) \cup {later}
        \/ /\ rec' = [rec EXCEPT !.policy = m, !.starting = FALSE]
           /\ starts' = starts \ {st}
  BY DEF PolicyResolves
<1> HIDE DEF later
<1>6. /\ rec' \in ReplayRecorder /\ rec'.boundSession = rec.boundSession
      /\ rec'.replaySequence = rec.replaySequence
      /\ rec'.replaySequenceSession = rec.replaySequenceSession
      /\ rec'.span = rec.span /\ rec'.buffered = rec.buffered
      /\ (rec'.starting = rec.starting /\ starts' = {later}) \/ starts' = {}
  BY <1>1, <1>3, <1>5 DEF ReplayRecorder
<1>7. RecInv(rec', cut)
  BY <1>1, <1>6, SameInv
<1>8. isRecording(rec') <=> isRecording(rec)
  BY <1>6 DEF isRecording
<1>9. StartsInv(rec, starts)'
  BY <1>3, <1>4, <1>6, <1>8 DEF IInv, StartsInv
<1> QED BY <1>2, <1>6, <1>7, <1>8, <1>9 DEF IInv

(* A recorder that is no longer starting. *)
LEMMA StartOver ==
  ASSUME NEW keys, NEW r, RecInv(r, keys), NEW t, t = [r EXCEPT !.starting = FALSE]
  PROVE  /\ RecInv(t, keys) /\ t.boundSession = r.boundSession
         /\ isRecording(t) <=> isRecording(r)
         /\ t.chunksCut = r.chunksCut
<1>1. r \in ReplayRecorder
  BY DEF RecInv
<1>2. /\ t \in ReplayRecorder /\ t.boundSession = r.boundSession
      /\ t.replaySequence = r.replaySequence
      /\ t.replaySequenceSession = r.replaySequenceSession
      /\ t.span = r.span /\ t.buffered = r.buffered /\ t.chunksCut = r.chunksCut
  BY <1>1 DEF ReplayRecorder
<1> QED BY <1>2, SameInv DEF isRecording

LEMMA LoadedInv ==
  ASSUME IInv, NEW st \in starts, RecordingBegins(st) \/ RecordingFails(st)
  PROVE  IInv' /\ rec'.chunksCut = rec.chunksCut
<1>1. /\ RecInv(rec, cut) /\ ~isRecording(rec) /\ observers = 0
      /\ starts = {st} /\ st.session = rec.boundSession /\ rec.boundSession # 0
  BY DEF IInv, StartsInv
<1>2. cut' = cut /\ session' = session /\ starts' = {} /\ reloads' = reloads
  BY <1>1 DEF RecordingBegins, RecordingFails, history, page
<1> DEFINE p == Prepared(rec, rec.boundSession)
<1>3. /\ RecInv(p, cut) /\ isRecording(p) /\ p.boundSession = rec.boundSession
      /\ p.chunksCut = rec.chunksCut
  BY <1>1, PreparedInv
<1>4. \/ rec' = [p EXCEPT !.starting = FALSE] /\ observers' = observers + 1
      \/ rec' = [rec EXCEPT !.starting = FALSE] /\ observers' = observers
      \/ rec' = [Teardown(p) EXCEPT !.starting = FALSE] /\ observers' = observers
  BY <1>1 DEF RecordingBegins, RecordingFails
<1> HIDE DEF p
<1>5. /\ RecInv(rec', cut) /\ rec'.boundSession = rec.boundSession
      /\ observers' = IF isRecording(rec') THEN 1 ELSE 0
      /\ rec'.chunksCut = rec.chunksCut
  <2>1. CASE rec' = [p EXCEPT !.starting = FALSE] /\ observers' = observers + 1
    BY <2>1, <1>1, <1>3, StartOver
  <2>2. CASE rec' = [rec EXCEPT !.starting = FALSE] /\ observers' = observers
    BY <2>2, <1>1, StartOver
  <2>3. CASE rec' = [Teardown(p) EXCEPT !.starting = FALSE] /\ observers' = observers
    <3> DEFINE t == Teardown(p)
    <3>1. /\ RecInv(t, cut) /\ ~isRecording(t) /\ t.boundSession = p.boundSession
          /\ t.chunksCut = p.chunksCut
      BY <1>3, TeardownInv
    <3> HIDE DEF t
    <3>2. rec' = [t EXCEPT !.starting = FALSE]
      BY <2>3 DEF t
    <3>3. /\ RecInv(rec', cut) /\ rec'.boundSession = t.boundSession
          /\ ~isRecording(rec') /\ rec'.chunksCut = t.chunksCut
      BY <3>1, <3>2, StartOver
    <3> QED BY <2>3, <3>1, <3>3, <1>1, <1>3
  <2> QED BY <1>4, <2>1, <2>2, <2>3
<1>6. StartsInv(rec, starts)'
  BY <1>2 DEF StartsInv
<1> QED BY <1>2, <1>5, <1>6 DEF IInv

(* A step while a span is recorded and recording goes on. *)
LEMMA RecordingGoesOn ==
  ASSUME IInv, isRecording(rec), RecInv(rec', cut'), isRecording(rec'),
         rec'.boundSession = rec.boundSession, UNCHANGED <<starts, session, observers, reloads>>
  PROVE  IInv'
BY DEF IInv, StartsInv

LEMMA EmitInv ==
  ASSUME IInv, NEW bytes \in EventBytes, Emit(bytes)
  PROVE  IInv'
<1>1. /\ isRecording(rec) /\ RecInv(rec, cut)
      /\ UNCHANGED <<starts, session, observers, reloads>>
  BY DEF Emit, IInv, page
<1>2. bytes \in Nat
  BY ReplayAssumption
<1>3. CASE rec' = rec /\ cut' = cut
  BY <1>1, <1>3, RecordingGoesOn
<1>4. CASE /\ HasTail(rec) /\ rec' = Added(Dispatch(rec), bytes)
           /\ cut' = cut \cup {CutChunk(rec).key}
  <2> DEFINE d == Dispatch(rec)
  <2>1. /\ RecInv(d, cut') /\ isRecording(d) /\ d.boundSession = rec.boundSession
    BY <1>1, <1>4, DispatchInv
  <2> HIDE DEF d
  <2>2. rec' = Added(d, bytes)
    BY <1>4 DEF d
  <2>3. RecInv(rec', cut') /\ isRecording(rec') /\ rec'.boundSession = rec.boundSession
    BY <1>2, <2>1, <2>2, AddedInv
  <2> QED BY <1>1, <2>3, RecordingGoesOn
<1>5. CASE rec' = Added(rec, bytes) /\ cut' = cut
  <2>1. RecInv(rec', cut') /\ isRecording(rec') /\ rec'.boundSession = rec.boundSession
    BY <1>1, <1>2, <1>5, AddedInv
  <2> QED BY <1>1, <2>1, RecordingGoesOn
<1> QED BY <1>3, <1>4, <1>5 DEF Emit, CutsBefore, HasTail, Recorded

LEMMA AgeCutInv == ASSUME IInv, AgeCut PROVE IInv'
<1>1. /\ HasTail(rec) /\ RecInv(rec, cut) /\ UNCHANGED <<starts, session, observers, reloads>>
      /\ rec' = Dispatch(rec) /\ cut' = cut \cup {CutChunk(rec).key}
  BY DEF AgeCut, IInv, page, Recorded
<1>2. RecInv(rec', cut') /\ isRecording(rec') /\ rec'.boundSession = rec.boundSession
  BY <1>1, DispatchInv
<1>3. isRecording(rec)
  BY <1>1, CutChunkFacts
<1> QED BY <1>1, <1>2, <1>3, RecordingGoesOn

LEMMA RemoveClipInv ==
  ASSUME IInv, NEW i \in DOMAIN rec.buffered, RemoveClip(i)
  PROVE  IInv'
<1>1. /\ RecInv(rec, cut) /\ UNCHANGED <<starts, session, observers, reloads>>
      /\ rec' = WithoutClip(rec, i) /\ cut' = cut \cup {}
  BY DEF RemoveClip, IInv, page, Recorded
<1>2. /\ RecInv(rec', cut) /\ rec'.span = rec.span
      /\ rec'.boundSession = rec.boundSession /\ rec'.starting = rec.starting
  BY <1>1, WithoutClipInv
<1>3. isRecording(rec') <=> isRecording(rec)
  BY <1>2 DEF isRecording
<1> QED BY <1>1, <1>2, <1>3 DEF IInv, StartsInv

LEMMA NextInv == IInv /\ [Next]_vars => IInv'
<1> SUFFICES ASSUME IInv, [Next]_vars PROVE IInv'
  OBVIOUS
<1>1. ASSUME NEW s \in 1..MaxSessions, OnSessionChanged(s) PROVE IInv'
  BY <1>1, OnSessionChangedInv
<1>2. CASE StartManual
  BY <1>2, StartManualInv
<1>3. CASE StopManual
  BY <1>3, StopNowInv DEF StopManual, page
<1>4. CASE Shutdown
  BY <1>4, StopNowInv DEF Shutdown
<1>5. CASE Discard
  BY <1>5, DiscardActionInv
<1>6. ASSUME NEW i \in DOMAIN rec.buffered, RemoveClip(i) PROVE IInv'
  BY <1>6, RemoveClipInv
<1>7. ASSUME NEW s \in Submitter, Submit(s) PROVE IInv'
  BY <1>7, SubmitInv
<1>8. ASSUME NEW st \in starts, PolicyResolves(st) PROVE IInv'
  BY <1>8, PolicyResolvesInv
<1>9. ASSUME NEW st \in starts, RecordingBegins(st) \/ RecordingFails(st) PROVE IInv'
  BY <1>9, LoadedInv
<1>10. ASSUME NEW bytes \in EventBytes, Emit(bytes) PROVE IInv'
  BY <1>10, EmitInv
<1>11. CASE AgeCut
  BY <1>11, AgeCutInv
<1>12. ASSUME NEW u \in uploads, Answer(u) PROVE IInv'
  <2>1. UNCHANGED <<rec, starts, observers, session, cut, reloads>>
    BY <1>12 DEF Answer, LegSucceeds, LegRefused, LegRetryable, capture, page
  <2> QED BY <2>1 DEF IInv
<1>13. CASE Reload
  BY <1>13, ReloadInv
<1>14. CASE UNCHANGED vars
  BY <1>14 DEF IInv, vars, capture, page, history
<1> QED BY <1>1, <1>2, <1>3, <1>4, <1>5, <1>6, <1>7, <1>8, <1>9, <1>10, <1>11, <1>12,
           <1>13, <1>14 DEF Next

(* The recorder keeps the strengthened invariant, whatever starts, stops,  *)
(* session changes, reviews and reloads do.                                *)
THEOREM InductiveInvariant == Spec => []IInv
<1> QED BY InitInv, NextInv, PTL DEF Spec

(* At most one rrweb observer is alive, for every number of starts under   *)
(* way, sessions and reloads (recorder.ts:195, 286-307).                   *)
THEOREM OneObserverAlways == Spec => []OneObserver
<1>1. IInv => OneObserver
  BY DEF IInv, OneObserver
<1> QED BY <1>1, InductiveInvariant, PTL

(* The buffer holds clips of the bound session only, for every number of   *)
(* clips, chunks and sessions (recorder.ts:196-206, 250-262).              *)
THEOREM ClipsOfBoundSessionAlways == Spec => []ClipsOfBoundSession
<1>1. IInv => ClipsOfBoundSession
  <2> SUFFICES ASSUME IInv PROVE ClipsOfBoundSession
    OBVIOUS
  <2>1. rec.buffered \in Seq(Clip) /\ ClipsInv(rec)
    BY DEF IInv, RecInv, ReplayRecorder
  <2>2. DOMAIN rec.buffered = 1..Len(rec.buffered)
    BY <2>1, LenProperties
  <2> QED BY <2>1, <2>2 DEF ClipsInv, ClipsOfBoundSession
<1> QED BY <1>1, InductiveInvariant, PTL

-----------------------------------------------------------------------------
(* Fresh keys: a step of the page that cuts a chunk adds its key.          *)
CutsOrNot ==
  \/ rec'.chunksCut = rec.chunksCut
  \/ HasTail(rec) /\ CutChunk(rec).key \in cut'

LEMMA StoppedCuts ==
  ASSUME IInv, cut' = cut \cup TailKeys(rec),
         NEW r, r = IF isRecording(rec) THEN Stopped(rec) ELSE rec,
         rec'.chunksCut = r.chunksCut
  PROVE  CutsOrNot
<1>1. r.chunksCut = IF HasTail(rec) THEN rec.chunksCut + 1 ELSE rec.chunksCut
  BY StopFirstInv
<1>2. CASE HasTail(rec)
  BY <1>2 DEF TailKeys, CutsOrNot
<1>3. CASE ~HasTail(rec)
  BY <1>1, <1>3 DEF CutsOrNot
<1> QED BY <1>2, <1>3

LEMMA StopNowCuts == ASSUME IInv, StopNow PROVE CutsOrNot
<1>1. rec' = Stopped(rec) /\ cut' = cut \cup TailKeys(rec) /\ RecInv(rec, cut)
  BY DEF StopNow, Recorded, IInv
<1>2. Stopped(rec).chunksCut = IF HasTail(rec) THEN rec.chunksCut + 1 ELSE rec.chunksCut
  BY <1>1, StoppedInv
<1> QED BY <1>1, <1>2 DEF TailKeys, CutsOrNot

LEMMA StepCuts ==
  ASSUME IInv, [Next]_vars, reloads' = reloads
  PROVE  CutsOrNot
<1> DEFINE r == IF isRecording(rec) THEN Stopped(rec) ELSE rec
<1>0. RecInv(r, cut \cup TailKeys(rec)) /\ ~isRecording(r)
      /\ r.boundSession = rec.boundSession /\ r.starting = rec.starting
  BY StopFirstInv
<1>1. ASSUME NEW s \in 1..MaxSessions, OnSessionChanged(s) PROVE CutsOrNot
  <2>1. StartCalled(r, s, "auto") /\ cut' = cut \cup TailKeys(rec)
    BY <1>1 DEF OnSessionChanged, Recorded
  <2>2. s \in Nat \ {0} /\ rec.boundSession <= s
    <3>1. rec.boundSession <= session /\ rec.boundSession \in Nat /\ session \in Nat
      BY DEF IInv, RecInv, ReplayRecorder
    <3> QED BY <1>1, <3>1, ReplayAssumption DEF OnSessionChanged
  <2>3. StartsInv(r, starts)
    BY <1>0 DEF IInv, StartsInv
  <2> HIDE DEF r
  <2>4. rec'.chunksCut = r.chunksCut
    BY <1>0, <2>1, <2>2, <2>3, StartCalledInv
  <2> QED BY <2>1, <2>4, StoppedCuts DEF r
<1>2. CASE StartManual
  <2> DEFINE s == rec.boundSession
  <2>1. /\ StartCalled(rec, s, "manual") /\ RecInv(rec, cut) /\ StartsInv(rec, starts)
        /\ ~isRecording(rec) /\ s \in Nat \ {0} /\ rec.boundSession <= s
    BY <1>2 DEF StartManual, IInv, StartRefused, RecInv, ReplayRecorder
  <2> HIDE DEF s
  <2>2. rec'.chunksCut = rec.chunksCut
    BY <2>1, StartCalledInv
  <2> QED BY <2>2 DEF CutsOrNot
<1>3. CASE StopManual
  BY <1>3, StopNowCuts DEF StopManual
<1>4. CASE Shutdown
  BY <1>4, StopNowCuts DEF Shutdown
<1>5. CASE Discard
  <2>1. rec' = DiscardBuffer(r) /\ cut' = cut \cup TailKeys(rec)
    BY <1>5 DEF Discard, Recorded
  <2> HIDE DEF r
  <2>2. rec'.chunksCut = r.chunksCut
    BY <1>0, <2>1, DiscardInv
  <2> QED BY <2>1, <2>2, StoppedCuts DEF r
<1>6. ASSUME NEW i \in DOMAIN rec.buffered, RemoveClip(i) PROVE CutsOrNot
  <2>1. rec' = WithoutClip(rec, i) /\ RecInv(rec, cut)
    BY <1>6 DEF RemoveClip, IInv
  <2>2. rec'.chunksCut = rec.chunksCut
    BY <2>1, WithoutClipInv
  <2> QED BY <2>2 DEF CutsOrNot
<1>7. ASSUME NEW s \in Submitter, Submit(s) PROVE CutsOrNot
  <2>1. rec' = DiscardBuffer(r) /\ cut' = cut \cup TailKeys(rec)
    BY <1>7 DEF Submit, Drained, Recorded
  <2> HIDE DEF r
  <2>2. rec'.chunksCut = r.chunksCut
    BY <1>0, <2>1, DiscardInv
  <2> QED BY <2>1, <2>2, StoppedCuts DEF r
<1>8. ASSUME NEW st \in starts, PolicyResolves(st) PROVE CutsOrNot
  <2>1. rec \in ReplayRecorder
    BY DEF IInv, RecInv
  <2>2. PICK m \in Mode : \/ rec' = [rec EXCEPT !.policy = m]
                          \/ rec' = [rec EXCEPT !.policy = m, !.starting = FALSE]
    BY <1>8 DEF PolicyResolves
  <2> QED BY <2>1, <2>2 DEF CutsOrNot, ReplayRecorder
<1>9. ASSUME NEW st \in starts, RecordingBegins(st) \/ RecordingFails(st) PROVE CutsOrNot
  BY <1>9, LoadedInv DEF CutsOrNot
<1>10. ASSUME NEW bytes \in EventBytes, Emit(bytes) PROVE CutsOrNot
  <2>1. isRecording(rec) /\ RecInv(rec, cut) /\ bytes \in Nat
    BY <1>10, ReplayAssumption DEF Emit, IInv
  <2>2. \/ rec' = rec
        \/ HasTail(rec) /\ CutChunk(rec).key \in cut'
        \/ rec' = Added(rec, bytes)
    BY <1>10 DEF Emit, CutsBefore, HasTail, Recorded
  <2>3. Added(rec, bytes).chunksCut = rec.chunksCut
    BY <2>1, AddedInv
  <2> QED BY <2>2, <2>3 DEF CutsOrNot
<1>11. CASE AgeCut
  BY <1>11 DEF AgeCut, Recorded, CutsOrNot
<1>12. ASSUME NEW u \in uploads, Answer(u) PROVE CutsOrNot
  <2>1. rec' = rec
    BY <1>12 DEF Answer, LegSucceeds, LegRefused, LegRetryable, capture
  <2> QED BY <2>1 DEF CutsOrNot
<1>13. CASE Reload
  <2>1. reloads' = reloads + 1 /\ reloads \in Nat
    BY <1>13 DEF Reload, IInv
  <2> QED BY <2>1
<1>14. CASE UNCHANGED vars
  BY <1>14 DEF CutsOrNot, vars, capture
<1> QED BY <1>1, <1>2, <1>3, <1>4, <1>5, <1>6, <1>7, <1>8, <1>9, <1>10, <1>11, <1>12,
           <1>13, <1>14 DEF Next

(* No chunk takes the key of a chunk cut before on the same page, for      *)
(* every number of spans, sessions, clips and failed starts                *)
(* (recorder.ts:136-146, 235-248, 595-606).                                *)
THEOREM ChunkKeysFreshAlways == Spec => ChunkKeysFresh
<1>1. IInv /\ [Next]_vars =>
        [reloads' = reloads /\ rec'.chunksCut # rec.chunksCut => cut' # cut]_vars
  <2> SUFFICES ASSUME IInv, [Next]_vars, reloads' = reloads, rec'.chunksCut # rec.chunksCut
               PROVE  cut' # cut
    OBVIOUS
  <2>1. HasTail(rec) /\ CutChunk(rec).key \in cut'
    BY StepCuts DEF CutsOrNot
  <2>2. CutChunk(rec).key \notin cut
    BY <2>1, CutChunkFacts DEF IInv
  <2> QED BY <2>1, <2>2
<1> QED BY <1>1, InductiveInvariant, PTL DEF Spec, ChunkKeysFresh

-----------------------------------------------------------------------------
(* Sums.  Total is a recursive function; that one exists for every         *)
(* sequence of sizes is shown by taking the least length for which it      *)
(* would not (WFMin), since induction theorems that take an operator       *)
(* cannot be used.                                                         *)

LEMMA LeastOf ==
  ASSUME NEW S, S \subseteq Nat, S # {}
  PROVE  \E n \in S : \A m \in S : n <= m
<1> DEFINE R == {ss \in Nat \X Nat : ss[1] < ss[2]}
<1>1. IsWellFoundedOn(R, Nat)
  BY NatLessThanWellFounded DEF OpToRel
<1>2. \A x, y \in Nat : x < y => <<x, y>> \in R
  OBVIOUS
<1> HIDE DEF R
<1>3. PICK x \in S : \A y \in S : ~(<<y, x>> \in R)
  BY <1>1, WFMin
<1>4. ASSUME NEW y \in S PROVE x <= y
  <2>1. x \in Nat /\ y \in Nat
    OBVIOUS
  <2>2. ~(<<y, x>> \in R)
    BY <1>3
  <2>3. ~(y < x)
    BY <1>2, <2>1, <2>2
  <2> QED BY <2>1, <2>3
<1> QED BY <1>4

LEMMA Induct ==
  ASSUME NEW S, 0 \in S, \A n \in Nat : n \in S => n + 1 \in S
  PROVE  \A n \in Nat : n \in S
<1> DEFINE Missing == {n \in Nat : n \notin S}
<1>1. SUFFICES ASSUME Missing # {} PROVE FALSE
  OBVIOUS
<1>2. Missing \subseteq Nat
  OBVIOUS
<1>3. PICK least \in Missing : \A m \in Missing : least <= m
  <2> HIDE DEF Missing
  <2> QED BY <1>1, <1>2, LeastOf
<1>4. least \in Nat /\ least \notin S /\ least # 0
  OBVIOUS
<1>5. least - 1 \in Nat
  BY <1>4
<1>6. least - 1 \in S
  <2>1. ~(least <= least - 1)
    BY <1>4
  <2> QED BY <1>3, <1>5, <2>1
<1>7. (least - 1) + 1 \in S
  BY <1>5, <1>6
<1> QED BY <1>4, <1>7

(* p is a running total of the sizes. *)
IsTotal(p, sizes) ==
  /\ p \in [0..Len(sizes) -> Nat]
  /\ p[0] = 0
  /\ \A n \in 1..Len(sizes) : p[n] = p[n - 1] + sizes[n]

LEMMA TotalExists ==
  ASSUME NEW sizes \in Seq(Nat)
  PROVE  \E p : IsTotal(p, sizes)
<1>1. Len(sizes) \in Nat /\ \A n \in 1..Len(sizes) : sizes[n] \in Nat
  BY LenProperties, ElementOfSeq
<1> DEFINE Upto(k, p) == /\ p \in [0..k -> Nat]
                         /\ p[0] = 0
                         /\ \A n \in 1..k : p[n] = p[n - 1] + sizes[n]
           S == {k \in Nat : k <= Len(sizes) => \E p : Upto(k, p)}
<1>2. 0 \in S
  <2>1. Upto(0, [n \in 0..0 |-> 0])
    OBVIOUS
  <2> QED BY <2>1
<1>3. ASSUME NEW k \in Nat, k \in S PROVE k + 1 \in S
  <2> SUFFICES ASSUME k + 1 <= Len(sizes) PROVE \E p : Upto(k + 1, p)
    <3> HIDE DEF Upto
    <3> QED OBVIOUS
  <2>1. k <= Len(sizes)
    BY <1>1
  <2>2. PICK p : Upto(k, p)
    BY <1>3, <2>1
  <2> DEFINE q == [n \in 0..k + 1 |-> IF n = k + 1 THEN p[k] + sizes[k + 1] ELSE p[n]]
  <2>3. p[k] \in Nat /\ sizes[k + 1] \in Nat
    BY <1>1, <2>2
  <2>4. q \in [0..k + 1 -> Nat]
    BY <2>2, <2>3
  <2>5. q[0] = 0
    BY <2>2
  <2>6. ASSUME NEW n \in 1..k + 1 PROVE q[n] = q[n - 1] + sizes[n]
    <3>1. n - 1 \in 0..k /\ q[n - 1] = p[n - 1]
      OBVIOUS
    <3>2. CASE n = k + 1
      BY <3>1, <3>2
    <3>3. CASE n # k + 1
      <4>1. n \in 1..k /\ q[n] = p[n]
        BY <3>3
      <4> HIDE DEF q
      <4> QED BY <2>2, <3>1, <4>1
    <3> QED BY <3>2, <3>3
  <2> HIDE DEF q
  <2>7. Upto(k + 1, q)
    BY <2>4, <2>5, <2>6
  <2> HIDE DEF Upto
  <2> QED BY <2>7
<1> HIDE DEF S
<1>4. Len(sizes) \in S
  BY <1>1, <1>2, <1>3, Induct
<1>5. \E p : Upto(Len(sizes), p)
  BY <1>1, <1>4 DEF S
<1> QED BY <1>5 DEF IsTotal

LEMMA TotalIs ==
  ASSUME NEW sizes \in Seq(Nat)
  PROVE  \E p : IsTotal(p, sizes) /\ Total(sizes) = p[Len(sizes)]
<1> DEFINE Eq(f) == f = [n \in 0..Len(sizes) |-> IF n = 0 THEN 0 ELSE f[n - 1] + sizes[n]]
           chosen == CHOOSE f : Eq(f)
<1>1. Len(sizes) \in Nat /\ \A n \in 1..Len(sizes) : sizes[n] \in Nat
  BY LenProperties, ElementOfSeq
<1>2. PICK p : IsTotal(p, sizes)
  BY TotalExists
<1>3. Eq(p)
  BY <1>1, <1>2 DEF IsTotal
<1>4. Eq(chosen)
  BY <1>3
<1>5. Total(sizes) = chosen[Len(sizes)]
  BY DEF Total
<1> HIDE DEF chosen
<1>6. \A n \in 0..Len(sizes) : chosen[n] = IF n = 0 THEN 0 ELSE chosen[n - 1] + sizes[n]
  BY <1>4
<1> DEFINE S == {k \in Nat : k <= Len(sizes) => chosen[k] = p[k]}
<1>7. 0 \in S
  BY <1>1, <1>2, <1>6 DEF IsTotal
<1>8. ASSUME NEW k \in Nat, k \in S PROVE k + 1 \in S
  <2> SUFFICES ASSUME k + 1 <= Len(sizes) PROVE chosen[k + 1] = p[k + 1]
    OBVIOUS
  <2>1. chosen[k] = p[k] /\ k + 1 \in 1..Len(sizes) /\ k + 1 \in 0..Len(sizes) /\ k + 1 # 0
    BY <1>1, <1>8
  <2>2. chosen[k + 1] = chosen[(k + 1) - 1] + sizes[k + 1]
    BY <1>6, <2>1
  <2>3. p[k + 1] = p[(k + 1) - 1] + sizes[k + 1]
    BY <1>2, <2>1 DEF IsTotal
  <2>4. (k + 1) - 1 = k
    OBVIOUS
  <2> QED BY <2>1, <2>2, <2>3, <2>4
<1>9. Len(sizes) \in S
  <2> HIDE DEF S
  <2> QED BY <1>1, <1>7, <1>8, Induct
<1>10. chosen[Len(sizes)] = p[Len(sizes)]
  BY <1>1, <1>9
<1> QED BY <1>2, <1>5, <1>10

LEMMA TotalEmpty == Total(<<>>) = 0
<1>1. <<>> \in Seq(Nat) /\ Len(<<>>) = 0
  BY EmptySeq
<1>2. PICK p : IsTotal(p, <<>>) /\ Total(<<>>) = p[Len(<<>>)]
  BY <1>1, TotalIs
<1> QED BY <1>1, <1>2 DEF IsTotal

LEMMA TotalNat ==
  ASSUME NEW sizes \in Seq(Nat)
  PROVE  Total(sizes) \in Nat
<1>1. PICK p : IsTotal(p, sizes) /\ Total(sizes) = p[Len(sizes)]
  BY TotalIs
<1> QED BY <1>1, LenProperties DEF IsTotal

(* One entry more. *)
LEMMA TotalAppend ==
  ASSUME NEW s \in Seq(Nat), NEW t \in Seq(Nat), NEW e \in Nat,
         Len(t) = Len(s) + 1, t[Len(t)] = e,
         \A n \in 1..Len(s) : t[n] = s[n]
  PROVE  Total(t) = Total(s) + e
<1>1. Len(s) \in Nat /\ Len(t) \in Nat
  BY LenProperties
<1>2. PICK p : IsTotal(p, s) /\ Total(s) = p[Len(s)]
  BY TotalIs
<1>3. PICK q : IsTotal(q, t) /\ Total(t) = q[Len(t)]
  BY TotalIs
<1> DEFINE S == {k \in Nat : k <= Len(s) => q[k] = p[k]}
<1>4. 0 \in S
  BY <1>2, <1>3 DEF IsTotal
<1>5. ASSUME NEW k \in Nat, k \in S PROVE k + 1 \in S
  <2> SUFFICES ASSUME k + 1 <= Len(s) PROVE q[k + 1] = p[k + 1]
    OBVIOUS
  <2>1. q[k] = p[k] /\ k + 1 \in 1..Len(s) /\ k + 1 \in 1..Len(t) /\ (k + 1) - 1 = k
    BY <1>1, <1>5
  <2>2. q[k + 1] = q[k] + t[k + 1] /\ p[k + 1] = p[k] + s[k + 1] /\ t[k + 1] = s[k + 1]
    BY <1>2, <1>3, <2>1 DEF IsTotal
  <2> QED BY <2>1, <2>2
<1>6. Len(s) \in S
  <2> HIDE DEF S
  <2> QED BY <1>1, <1>4, <1>5, Induct
<1>7. q[Len(s)] = p[Len(s)]
  BY <1>1, <1>6
<1>8. Len(t) \in 1..Len(t) /\ Len(t) - 1 = Len(s)
  BY <1>1
<1>9. q[Len(t)] = q[Len(t) - 1] + t[Len(t)]
  BY <1>3, <1>8 DEF IsTotal
<1> QED BY <1>2, <1>3, <1>7, <1>8, <1>9

(* One entry grown by some amount. *)
LEMMA TotalGrown ==
  ASSUME NEW s \in Seq(Nat), NEW t \in Seq(Nat), NEW d \in Nat, NEW i \in 1..Len(s),
         Len(t) = Len(s), t[i] = s[i] + d,
         \A n \in 1..Len(s) : n # i => t[n] = s[n]
  PROVE  Total(t) = Total(s) + d
<1>1. Len(s) \in Nat /\ \A n \in 1..Len(s) : s[n] \in Nat
  BY LenProperties, ElementOfSeq
<1>2. PICK p : IsTotal(p, s) /\ Total(s) = p[Len(s)]
  BY TotalIs
<1>3. PICK q : IsTotal(q, t) /\ Total(t) = q[Len(t)]
  BY TotalIs
<1> DEFINE S == {k \in Nat : k <= Len(s) => q[k] = p[k] + (IF k < i THEN 0 ELSE d)}
<1>4. 0 \in S
  BY <1>2, <1>3 DEF IsTotal
<1>5. ASSUME NEW k \in Nat, k \in S PROVE k + 1 \in S
  <2> SUFFICES ASSUME k + 1 <= Len(s)
               PROVE  q[k + 1] = p[k + 1] + (IF k + 1 < i THEN 0 ELSE d)
    OBVIOUS
  <2>1. /\ q[k] = p[k] + (IF k < i THEN 0 ELSE d)
        /\ k + 1 \in 1..Len(s) /\ (k + 1) - 1 = k
    BY <1>1, <1>5
  <2>2. q[k + 1] = q[k] + t[k + 1] /\ p[k + 1] = p[k] + s[k + 1]
    BY <1>2, <1>3, <2>1 DEF IsTotal
  <2>3. p[k] \in Nat /\ s[k + 1] \in Nat
    <3>1. k \in 0..Len(s)
      BY <1>1
    <3> QED BY <1>1, <1>2, <2>1, <3>1 DEF IsTotal
  <2>4. CASE k + 1 = i
    <3>1. t[k + 1] = s[k + 1] + d
      BY <2>4
    <3> QED BY <2>1, <2>2, <2>3, <2>4, <3>1, SMTT(20)
  <2>5. CASE k + 1 # i
    <3>1. t[k + 1] = s[k + 1]
      BY <2>1, <2>5
    <3>2. i \in Nat
      BY <1>1
    <3>3. CASE k < i
      <4>1. k + 1 < i
        BY <2>5, <3>2, <3>3
      <4> QED BY <2>1, <2>2, <2>3, <3>1, <3>3, <4>1, SMTT(20)
    <3>4. CASE ~(k < i)
      <4>1. ~(k + 1 < i)
        BY <3>2, <3>4
      <4>2. (p[k] + d) + s[k + 1] = (p[k] + s[k + 1]) + d
        BY <2>3
      <4> QED BY <2>1, <2>2, <3>1, <3>4, <4>1, <4>2
    <3> QED BY <3>3, <3>4
  <2> QED BY <2>4, <2>5
<1>6. Len(s) \in S
  <2> HIDE DEF S
  <2> QED BY <1>1, <1>4, <1>5, Induct
<1>7. q[Len(s)] = p[Len(s)] + d
  BY <1>1, <1>6
<1> QED BY <1>2, <1>3, <1>7

(* One entry removed. *)
LEMMA TotalRemoved ==
  ASSUME NEW s \in Seq(Nat), NEW t \in Seq(Nat), NEW i \in 1..Len(s),
         Len(t) = Len(s) - 1,
         \A n \in 1..Len(t) : t[n] = IF n < i THEN s[n] ELSE s[n + 1]
  PROVE  Total(s) = Total(t) + s[i]
<1>1. /\ Len(s) \in Nat /\ Len(t) \in Nat
      /\ \A n \in 1..Len(s) : s[n] \in Nat
  BY LenProperties, ElementOfSeq
<1>2. PICK p : IsTotal(p, s) /\ Total(s) = p[Len(s)]
  BY TotalIs
<1>3. PICK q : IsTotal(q, t) /\ Total(t) = q[Len(t)]
  BY TotalIs
<1> DEFINE S == {k \in Nat : k <= Len(t) => IF k < i THEN q[k] = p[k]
                                                    ELSE p[k + 1] = q[k] + s[i]}
<1>4. 0 \in S
  BY <1>2, <1>3 DEF IsTotal
<1>5. ASSUME NEW k \in Nat, k \in S PROVE k + 1 \in S
  <2> SUFFICES ASSUME k + 1 <= Len(t)
               PROVE  IF k + 1 < i THEN q[k + 1] = p[k + 1]
                                   ELSE p[(k + 1) + 1] = q[k + 1] + s[i]
    OBVIOUS
  <2>1. /\ IF k < i THEN q[k] = p[k] ELSE p[k + 1] = q[k] + s[i]
        /\ k + 1 \in 1..Len(t) /\ k + 1 \in 1..Len(s) /\ k + 2 \in 1..Len(s)
        /\ (k + 1) - 1 = k /\ (k + 2) - 1 = k + 1 /\ (k + 1) + 1 = k + 2
    BY <1>1, <1>5
  <2>2. /\ q[k + 1] = q[k] + t[k + 1] /\ p[k + 1] = p[k] + s[k + 1]
        /\ p[k + 2] = p[k + 1] + s[k + 2]
    BY <1>2, <1>3, <2>1 DEF IsTotal
  <2>3. p[k] \in Nat /\ q[k] \in Nat /\ s[k + 1] \in Nat /\ s[k + 2] \in Nat /\ s[i] \in Nat
    <3>1. k \in 0..Len(s) /\ k \in 0..Len(t)
      BY <1>1
    <3>2. p[k] \in Nat /\ q[k] \in Nat
      BY <1>2, <1>3, <3>1 DEF IsTotal
    <3> QED BY <1>1, <2>1, <3>2
  <2>4. t[k + 1] = IF k + 1 < i THEN s[k + 1] ELSE s[k + 2]
    BY <2>1
  <2>5. CASE k + 1 < i
    BY <2>1, <2>2, <2>3, <2>4, <2>5
  <2>6. CASE ~(k + 1 < i)
    <3>1. t[k + 1] = s[k + 2] /\ q[k + 1] = q[k] + s[k + 2]
      BY <2>2, <2>4, <2>6
    <3>2. p[k + 1] = q[k] + s[i]
      <4>1. CASE k + 1 = i
        <5>1. k < i
          BY <4>1
        <5> QED BY <2>1, <2>2, <4>1, <5>1
      <4>2. CASE k + 1 # i
        <5>1. ~(k < i)
          BY <2>6, <4>2, <1>1
        <5> QED BY <2>1, <5>1
      <4> QED BY <4>1, <4>2
    <3>3. p[k + 2] = (q[k] + s[i]) + s[k + 2]
      BY <2>2, <3>2
    <3>4. (q[k] + s[i]) + s[k + 2] = (q[k] + s[k + 2]) + s[i]
      BY <2>3, SMTT(20)
    <3> QED BY <2>1, <2>6, <3>1, <3>3, <3>4
  <2> QED BY <2>5, <2>6
<1>6. Len(t) \in S
  <2> HIDE DEF S
  <2> QED BY <1>1, <1>4, <1>5, Induct
<1>7. CASE Len(t) < i
  <2>1. q[Len(t)] = p[Len(t)]
    BY <1>1, <1>6, <1>7
  <2>2. i = Len(s) /\ i \in 1..Len(s) /\ i - 1 = Len(t)
    BY <1>1, <1>7
  <2>3. p[i] = p[i - 1] + s[i]
    BY <1>2, <2>2 DEF IsTotal
  <2> QED BY <1>2, <1>3, <2>1, <2>2, <2>3
<1>8. CASE ~(Len(t) < i)
  <2>1. p[Len(t) + 1] = q[Len(t)] + s[i]
    BY <1>1, <1>6, <1>8
  <2>2. Len(t) + 1 = Len(s)
    BY <1>1
  <2> QED BY <1>2, <1>3, <2>1, <2>2
<1> QED BY <1>7, <1>8

-----------------------------------------------------------------------------
(* Clips and their chunks as one list of lists: FlattenSeq of the chunks   *)
(* of the clips is again a sequence, with every chunk once.                *)

(* The chunks of a list of lists: every place holds a key of its own. *)
ListsApart(lists) ==
  \A i1, i2 \in 1..Len(lists) : \A j1 \in 1..Len(lists[i1]), j2 \in 1..Len(lists[i2]) :
    lists[i1][j1].key = lists[i2][j2].key => i1 = i2 /\ j1 = j2

(* A list of chunks: every place holds a key of its own. *)
ListApart(list) ==
  \A a, b \in 1..Len(list) : list[a].key = list[b].key => a = b

(* f holds the chunks of the first k lists, each of them once. *)
FlatUpto(lists, k, f) ==
  /\ f \in Seq(Chunk)
  /\ \A a \in 1..Len(f) : \E i \in 1..k : \E j \in 1..Len(lists[i]) : f[a] = lists[i][j]
  /\ \A i \in 1..k : \A j \in 1..Len(lists[i]) : \E a \in 1..Len(f) : f[a] = lists[i][j]
  /\ ListsApart(lists) => ListApart(f)

LEMMA FlatFirst ==
  ASSUME NEW lists \in Seq(Seq(Chunk)), lists # <<>>
  PROVE  FlatUpto(lists, 1, lists[1])
<1>1. Len(lists) \in Nat /\ 1 \in 1..Len(lists)
  BY LenProperties, EmptySeq
<1>2. lists[1] \in Seq(Chunk)
  BY <1>1, ElementOfSeq
<1>3. \A i \in 1..1 : i = 1
  OBVIOUS
<1>4. 1 \in 1..1
  OBVIOUS
<1>5. \A a \in 1..Len(lists[1]) : \E i \in 1..1 : \E j \in 1..Len(lists[i]) :
        lists[1][a] = lists[i][j]
  BY <1>4
<1>6. \A i \in 1..1 : \A j \in 1..Len(lists[i]) : \E a \in 1..Len(lists[1]) :
        lists[1][a] = lists[i][j]
  BY <1>3
<1>7. ListsApart(lists) => ListApart(lists[1])
  BY <1>1 DEF ListsApart, ListApart
<1> QED BY <1>2, <1>5, <1>6, <1>7 DEF FlatUpto

LEMMA FlatNext ==
  ASSUME NEW lists \in Seq(Seq(Chunk)), NEW k \in 1..Len(lists), k + 1 <= Len(lists),
         NEW f, FlatUpto(lists, k, f)
  PROVE  FlatUpto(lists, k + 1, f \o lists[k + 1])
<1> DEFINE g == lists[k + 1]
           h == f \o g
<1>1. Len(lists) \in Nat /\ k + 1 \in 1..Len(lists) /\ k \in Nat
  BY LenProperties
<1>2. f \in Seq(Chunk) /\ g \in Seq(Chunk)
  BY <1>1, ElementOfSeq DEF FlatUpto
<1>3. Len(f) \in Nat /\ Len(g) \in Nat
  BY <1>2, LenProperties
<1>g. g = lists[k + 1]
  OBVIOUS
<1> HIDE DEF g
<1>4. /\ h \in Seq(Chunk) /\ Len(h) = Len(f) + Len(g)
      /\ \A a \in 1..Len(f) : h[a] = f[a]
      /\ \A a \in 1..Len(g) : h[Len(f) + a] = g[a]
  <2>1. /\ h \in Seq(Chunk) /\ Len(h) = Len(f) + Len(g)
        /\ \A a \in 1..Len(f) + Len(g) : h[a] = IF a <= Len(f) THEN f[a] ELSE g[a - Len(f)]
    BY <1>2, ConcatProperties
  <2> HIDE DEF h
  <2>2. ASSUME NEW a \in 1..Len(f) PROVE h[a] = f[a]
    BY <1>3, <2>1
  <2>3. ASSUME NEW a \in 1..Len(g) PROVE h[Len(f) + a] = g[a]
    <3>1. Len(f) + a \in 1..Len(f) + Len(g) /\ ~(Len(f) + a <= Len(f)) /\ (Len(f) + a) - Len(f) = a
      BY <1>3
    <3> QED BY <2>1, <3>1
  <2> QED BY <2>1, <2>2, <2>3
<1> HIDE DEF h
<1>5. ASSUME NEW a \in 1..Len(h), ~(a \in 1..Len(f))
      PROVE  \E b \in 1..Len(g) : a = Len(f) + b /\ h[a] = g[b]
  <2>1. a - Len(f) \in 1..Len(g) /\ a = Len(f) + (a - Len(f))
    BY <1>3, <1>4, <1>5
  <2>2. h[Len(f) + (a - Len(f))] = g[a - Len(f)]
    BY <1>4, <2>1
  <2> QED BY <2>1, <2>2
<1>6. ASSUME NEW a \in 1..Len(h)
      PROVE  \E i \in 1..k + 1 : \E j \in 1..Len(lists[i]) : h[a] = lists[i][j]
  <2>1. CASE a \in 1..Len(f)
    <3>1. PICK i \in 1..k : \E j \in 1..Len(lists[i]) : f[a] = lists[i][j]
      BY <2>1 DEF FlatUpto
    <3>2. i \in 1..k + 1
      BY <1>1
    <3> QED BY <1>4, <2>1, <3>1, <3>2
  <2>2. CASE ~(a \in 1..Len(f))
    <3>1. PICK b \in 1..Len(g) : h[a] = g[b]
      BY <1>5, <2>2
    <3>2. k + 1 \in 1..k + 1
      BY <1>1
    <3> QED BY <1>g, <3>1, <3>2
  <2> QED BY <2>1, <2>2
<1>7. ASSUME NEW i \in 1..k + 1, NEW j \in 1..Len(lists[i])
      PROVE  \E a \in 1..Len(h) : h[a] = lists[i][j]
  <2>1. CASE i \in 1..k
    <3>1. PICK a \in 1..Len(f) : f[a] = lists[i][j]
      BY <2>1 DEF FlatUpto
    <3>2. a \in 1..Len(h) /\ h[a] = f[a]
      BY <1>3, <1>4
    <3> QED BY <3>1, <3>2
  <2>2. CASE ~(i \in 1..k)
    <3>1. i = k + 1
      BY <1>1, <2>2
    <3>2. j \in 1..Len(g) /\ lists[i][j] = g[j]
      BY <1>g, <3>1
    <3>3. Len(f) + j \in 1..Len(h)
      BY <1>3, <1>4, <3>2
    <3>4. h[Len(f) + j] = g[j]
      BY <1>4, <3>2
    <3> QED BY <3>2, <3>3, <3>4
  <2> QED BY <2>1, <2>2
<1>8. ASSUME ListsApart(lists), NEW a \in 1..Len(h), NEW b \in 1..Len(h), h[a].key = h[b].key
      PROVE  a = b
  <2>0. \A n \in 1..Len(f), m \in 1..Len(g) : f[n].key # g[m].key
    <3> SUFFICES ASSUME NEW n \in 1..Len(f), NEW m \in 1..Len(g), f[n].key = g[m].key
                 PROVE  FALSE
      OBVIOUS
    <3>1. PICK i \in 1..k : \E j \in 1..Len(lists[i]) : f[n] = lists[i][j]
      BY DEF FlatUpto
    <3>2. PICK j \in 1..Len(lists[i]) : f[n] = lists[i][j]
      BY <3>1
    <3>3. i \in 1..Len(lists) /\ i # k + 1
      BY <1>1
    <3>4. m \in 1..Len(lists[k + 1]) /\ lists[i][j].key = lists[k + 1][m].key
      BY <1>g, <3>2
    <3> QED BY <1>1, <1>8, <3>2, <3>3, <3>4 DEF ListsApart
  <2>1. CASE a \in 1..Len(f) /\ b \in 1..Len(f)
    BY <1>4, <1>8, <2>1 DEF FlatUpto, ListApart
  <2>2. CASE a \in 1..Len(f) /\ ~(b \in 1..Len(f))
    <3>1. PICK m \in 1..Len(g) : h[b] = g[m]
      BY <1>5, <2>2
    <3> QED BY <1>4, <1>8, <2>0, <2>2, <3>1
  <2>3. CASE ~(a \in 1..Len(f)) /\ b \in 1..Len(f)
    <3>1. PICK m \in 1..Len(g) : h[a] = g[m]
      BY <1>5, <2>3
    <3> QED BY <1>4, <1>8, <2>0, <2>3, <3>1
  <2>4. CASE ~(a \in 1..Len(f)) /\ ~(b \in 1..Len(f))
    <3>1. PICK m \in 1..Len(g) : a = Len(f) + m /\ h[a] = g[m]
      BY <1>5, <2>4
    <3>2. PICK n \in 1..Len(g) : b = Len(f) + n /\ h[b] = g[n]
      BY <1>5, <2>4
    <3>3. lists[k + 1][m].key = lists[k + 1][n].key
      BY <1>8, <1>g, <3>1, <3>2
    <3>4. m = n
      BY <1>1, <1>8, <1>g, <3>3 DEF ListsApart
    <3> QED BY <3>1, <3>2, <3>4
  <2> QED BY <2>1, <2>2, <2>3, <2>4
<1>9. ListsApart(lists) => ListApart(h)
  BY <1>8 DEF ListApart
<1> QED BY <1>4, <1>6, <1>7, <1>9, <1>g DEF FlatUpto, h

LEMMA FlattenExists ==
  ASSUME NEW lists \in Seq(Seq(Chunk)), lists # <<>>
  PROVE  \E p : p = [i \in 1..Len(lists) |-> IF i = 1 THEN lists[i] ELSE p[i - 1] \o lists[i]]
<1>1. Len(lists) \in Nat /\ 1 <= Len(lists)
  BY LenProperties, EmptySeq
<1> DEFINE Upto(k, p) ==
             p = [i \in 1..k |-> IF i = 1 THEN lists[i] ELSE p[i - 1] \o lists[i]]
           S == {k \in Nat : \E p : Upto(k + 1, p)}
<1>2. 0 \in S
  <2>1. Upto(1, [i \in 1..1 |-> lists[i]])
    OBVIOUS
  <2>2. 0 + 1 = 1
    OBVIOUS
  <2> HIDE DEF Upto
  <2> QED BY <2>1, <2>2
<1>3. ASSUME NEW k \in Nat, k \in S PROVE k + 1 \in S
  <2> SUFFICES \E p : Upto((k + 1) + 1, p)
    <3> HIDE DEF Upto
    <3> QED OBVIOUS
  <2>1. PICK p : Upto(k + 1, p)
    <3> HIDE DEF Upto
    <3> QED BY <1>3
  <2> DEFINE q == [i \in 1..k + 2 |-> IF i = k + 2 THEN p[k + 1] \o lists[k + 2] ELSE p[i]]
  <2>2. ASSUME NEW i \in 1..k + 2
        PROVE  q[i] = IF i = 1 THEN lists[i] ELSE q[i - 1] \o lists[i]
    <3>1. CASE i = k + 2
      <4>1. i # 1 /\ i - 1 = k + 1 /\ k + 1 \in 1..k + 2 /\ k + 1 # k + 2
        BY <3>1
      <4> QED BY <3>1, <4>1
    <3>2. CASE i # k + 2
      <4>1. i \in 1..k + 1 /\ q[i] = p[i]
        BY <3>2
      <4>2. p[i] = IF i = 1 THEN lists[i] ELSE p[i - 1] \o lists[i]
        BY <2>1, <4>1
      <4>3. i # 1 => i - 1 \in 1..k + 2 /\ i - 1 # k + 2
        BY <4>1
      <4> QED BY <4>1, <4>2, <4>3
    <3> QED BY <3>1, <3>2
  <2>3. Upto(k + 2, q)
    <3>1. q = [i \in 1..k + 2 |-> q[i]]
      OBVIOUS
    <3> HIDE DEF q
    <3> QED BY <2>2, <3>1
  <2>4. (k + 1) + 1 = k + 2
    OBVIOUS
  <2> HIDE DEF Upto, q
  <2> QED BY <2>3, <2>4
<1>4. Len(lists) - 1 \in S
  <2>1. Len(lists) - 1 \in Nat
    BY <1>1
  <2> HIDE DEF S
  <2> QED BY <1>2, <1>3, <2>1, Induct
<1>5. (Len(lists) - 1) + 1 = Len(lists)
  BY <1>1
<1>6. \E p : Upto(Len(lists), p)
  <2> HIDE DEF Upto
  <2> QED BY <1>4, <1>5
<1> QED BY <1>6

LEMMA FlattenFacts ==
  ASSUME NEW lists \in Seq(Seq(Chunk))
  PROVE  FlatUpto(lists, Len(lists), FlattenSeq(lists))
<1>1. Len(lists) \in Nat
  BY LenProperties
<1>2. CASE lists = <<>>
  <2>1. Len(lists) = 0 /\ FlattenSeq(lists) = <<>>
    BY <1>2, EmptySeq DEF FlattenSeq
  <2>2. <<>> \in Seq(Chunk) /\ Len(<<>>) = 0 /\ 1..0 = {}
    BY EmptySeq
  <2> QED BY <2>1, <2>2 DEF FlatUpto, ListApart
<1>3. CASE lists # <<>>
  <2> DEFINE Eq(f) ==
               f = [i \in 1..Len(lists) |-> IF i = 1 THEN lists[i] ELSE f[i - 1] \o lists[i]]
             chosen == CHOOSE f : Eq(f)
             S == {k \in Nat : k + 1 <= Len(lists) => FlatUpto(lists, k + 1, chosen[k + 1])}
  <2>1. Len(lists) # 0 /\ 1 \in 1..Len(lists)
    BY <1>1, <1>3, EmptySeq
  <2>2. FlattenSeq(lists) = chosen[Len(lists)]
    BY <2>1 DEF FlattenSeq
  <2>3. \E f : Eq(f)
    BY <1>3, FlattenExists
  <2>4. Eq(chosen)
    <3> HIDE DEF Eq
    <3> QED BY <2>3
  <2> HIDE DEF chosen
  <2>5. \A i \in 1..Len(lists) : chosen[i] = IF i = 1 THEN lists[i] ELSE chosen[i - 1] \o lists[i]
    BY <2>4
  <2>6. 0 \in S
    <3>1. chosen[1] = lists[1] /\ 0 + 1 = 1
      BY <2>1, <2>5
    <3>2. FlatUpto(lists, 1, lists[1])
      BY <1>3, FlatFirst
    <3> QED BY <3>1, <3>2
  <2>7. ASSUME NEW k \in Nat, k \in S PROVE k + 1 \in S
    <3> SUFFICES ASSUME (k + 1) + 1 <= Len(lists)
                 PROVE  FlatUpto(lists, (k + 1) + 1, chosen[(k + 1) + 1])
      OBVIOUS
    <3> DEFINE m == k + 1
    <3>1. /\ m \in 1..Len(lists) /\ m + 1 <= Len(lists)
          /\ m + 1 \in 1..Len(lists) /\ m + 1 # 1 /\ (m + 1) - 1 = m
      BY <1>1
    <3>2. FlatUpto(lists, m, chosen[m])
      BY <1>1, <2>7, <3>1
    <3> HIDE DEF m
    <3>3. chosen[m + 1] = chosen[m] \o lists[m + 1]
      BY <2>5, <3>1
    <3>4. FlatUpto(lists, m + 1, chosen[m + 1])
      BY <3>1, <3>2, <3>3, FlatNext
    <3> QED BY <3>4 DEF m
  <2>8. Len(lists) - 1 \in Nat /\ (Len(lists) - 1) + 1 = Len(lists) /\ Len(lists) <= Len(lists)
    BY <1>1, <2>1
  <2>9. Len(lists) - 1 \in S
    <3> HIDE DEF S
    <3> QED BY <2>6, <2>7, <2>8, Induct
  <2>10. FlatUpto(lists, Len(lists), chosen[Len(lists)])
    BY <2>8, <2>9
  <2> QED BY <2>2, <2>10
<1> QED BY <1>2, <1>3

-----------------------------------------------------------------------------
(* The account of the buffer (AccountInv): clip ids are unique and below   *)
(* the counter, the current clip is in the buffer, and the sizes kept are  *)
(* the sums of the sizes of what is kept.  One lemma per operation on the  *)
(* recorder.                                                               *)

(* The buffer's clips, the ids it gives out and the sizes it keeps. *)
ClipIdsInv(r) ==
  /\ \A i \in 1..Len(r.buffered) : r.buffered[i].clipId < r.clipCounter
  /\ \A i, j \in 1..Len(r.buffered) : r.buffered[i].clipId = r.buffered[j].clipId => i = j
  /\ r.currentClip # NoClip =>
       \E i \in 1..Len(r.buffered) : r.buffered[i].clipId = r.currentClip

(* A clip has the size of its chunks, the buffer that of its clips, under  *)
(* the memory cap (recorder.ts:375-385, 487-506, 613-617).                 *)
SizesInv(r) ==
  /\ \A i \in 1..Len(r.buffered) :
       r.buffered[i].bytes = Total(ChunkSizes(r.buffered[i].chunks))
  /\ r.bufferedBytes = Total(ClipSizes(r.buffered))
  /\ r.bufferedBytes <= maxBufferedBytes

AccountInv(r) == ClipIdsInv(r) /\ SizesInv(r)

LEMMA BufferFacts ==
  ASSUME NEW r \in ReplayRecorder
  PROVE  /\ r.buffered \in Seq(Clip) /\ Len(r.buffered) \in Nat
         /\ DOMAIN r.buffered = 1..Len(r.buffered)
         /\ \A i \in 1..Len(r.buffered) :
              /\ r.buffered[i] \in Clip
              /\ r.buffered[i].chunks \in Seq(Chunk)
              /\ r.buffered[i].bytes \in Nat /\ r.buffered[i].clipId \in Nat
<1>1. r.buffered \in Seq(Clip)
  BY DEF ReplayRecorder
<1>2. \A i \in 1..Len(r.buffered) : r.buffered[i] \in Clip
  BY <1>1, ElementOfSeq
<1> QED BY <1>1, <1>2, LenProperties DEF Clip

LEMMA ChunkSizesFacts ==
  ASSUME NEW chunks \in Seq(Chunk)
  PROVE  /\ ChunkSizes(chunks) \in Seq(Nat) /\ Len(ChunkSizes(chunks)) = Len(chunks)
         /\ \A j \in 1..Len(chunks) : ChunkSizes(chunks)[j] = chunks[j].byteLength
<1> DEFINE f == ChunkSizes(chunks)
<1>1. Len(chunks) \in Nat /\ DOMAIN chunks = 1..Len(chunks)
  BY LenProperties
<1>2. \A j \in 1..Len(chunks) : chunks[j].byteLength \in Nat
  <2>1. \A j \in 1..Len(chunks) : chunks[j] \in Chunk
    BY ElementOfSeq
  <2> QED BY <2>1 DEF Chunk
<1>3. f \in [1..Len(chunks) -> Nat] /\ DOMAIN f = 1..Len(chunks)
  BY <1>1, <1>2 DEF ChunkSizes
<1>4. f \in Seq(Nat)
  BY <1>1, <1>3, SeqDef
<1>5. Len(f) = Len(chunks)
  <2> HIDE DEF f
  <2> QED BY <1>1, <1>3, <1>4, LenProperties
<1>6. \A j \in 1..Len(chunks) : f[j] = chunks[j].byteLength
  BY <1>1 DEF ChunkSizes
<1> QED BY <1>4, <1>5, <1>6

LEMMA ClipSizesFacts ==
  ASSUME NEW clips \in Seq(Clip)
  PROVE  /\ ClipSizes(clips) \in Seq(Nat) /\ Len(ClipSizes(clips)) = Len(clips)
         /\ \A j \in 1..Len(clips) : ClipSizes(clips)[j] = clips[j].bytes
<1> DEFINE f == ClipSizes(clips)
<1>1. Len(clips) \in Nat /\ DOMAIN clips = 1..Len(clips)
  BY LenProperties
<1>2. \A j \in 1..Len(clips) : clips[j].bytes \in Nat
  <2>1. \A j \in 1..Len(clips) : clips[j] \in Clip
    BY ElementOfSeq
  <2> QED BY <2>1 DEF Clip
<1>3. f \in [1..Len(clips) -> Nat] /\ DOMAIN f = 1..Len(clips)
  BY <1>1, <1>2 DEF ClipSizes
<1>4. f \in Seq(Nat)
  BY <1>1, <1>3, SeqDef
<1>5. Len(f) = Len(clips)
  <2> HIDE DEF f
  <2> QED BY <1>1, <1>3, <1>4, LenProperties
<1>6. \A j \in 1..Len(clips) : f[j] = clips[j].bytes
  BY <1>1 DEF ClipSizes
<1> QED BY <1>4, <1>5, <1>6

LEMMA SizesOfNothing == Total(ChunkSizes(<<>>)) = 0 /\ Total(ClipSizes(<<>>)) = 0
<1>1. <<>> \in Seq(Chunk) /\ <<>> \in Seq(Clip) /\ Len(<<>>) = 0
  BY EmptySeq
<1>2. ChunkSizes(<<>>) = <<>>
  BY <1>1, ChunkSizesFacts, EmptySeq
<1>3. ClipSizes(<<>>) = <<>>
  BY <1>1, ClipSizesFacts, EmptySeq
<1> QED BY <1>2, <1>3, TotalEmpty

(* The buffer as it was, the clip being recorded still open or closed. *)
LEMMA SameAccount ==
  ASSUME NEW r, AccountInv(r), NEW t, t.buffered = r.buffered,
         t.bufferedBytes = r.bufferedBytes, t.clipCounter = r.clipCounter,
         t.currentClip \in {r.currentClip, NoClip}
  PROVE  AccountInv(t)
<1>1. ClipIdsInv(t)
  BY DEF ClipIdsInv, AccountInv
<1>2. SizesInv(t)
  BY DEF SizesInv, AccountInv
<1> QED BY <1>1, <1>2 DEF AccountInv

LEMMA EmptyAccount ==
  ASSUME NEW t, t.buffered = <<>>, t.bufferedBytes = 0, t.currentClip = NoClip
  PROVE  AccountInv(t)
<1>1. Len(<<>>) = 0 /\ 1..0 = {}
  BY EmptySeq
<1>2. ClipIdsInv(t)
  BY <1>1 DEF ClipIdsInv
<1>3. SizesInv(t)
  BY <1>1, SizesOfNothing, ReplayAssumption DEF SizesInv
<1> QED BY <1>2, <1>3 DEF AccountInv

LEMMA TeardownAccount ==
  ASSUME NEW r \in ReplayRecorder, AccountInv(r)
  PROVE  AccountInv(Teardown(r)) /\ Teardown(r).buffered = r.buffered
<1> DEFINE t == Teardown(r)
<1>1. /\ t.buffered = r.buffered /\ t.bufferedBytes = r.bufferedBytes
      /\ t.clipCounter = r.clipCounter /\ t.currentClip = NoClip
  BY DEF Teardown, ReplayRecorder
<1> HIDE DEF t
<1> QED BY <1>1, SameAccount DEF t

LEMMA DiscardAccount ==
  ASSUME NEW r \in ReplayRecorder
  PROVE  AccountInv(DiscardBuffer(r))
<1> DEFINE t == DiscardBuffer(r)
<1>1. t.buffered = <<>> /\ t.bufferedBytes = 0 /\ t.currentClip = NoClip
  BY DEF DiscardBuffer, ReplayRecorder
<1> HIDE DEF t
<1> QED BY <1>1, EmptyAccount DEF t

LEMMA CutAccount ==
  ASSUME NEW r \in ReplayRecorder, AccountInv(r)
  PROVE  /\ AccountInv(Cut(r))
         /\ Cut(r).buffered = r.buffered /\ Cut(r).policy = r.policy
         /\ Cut(r).bufferedBytes = r.bufferedBytes /\ Cut(r).currentClip = r.currentClip
<1> DEFINE t == Cut(r)
<1>1. /\ t.buffered = r.buffered /\ t.bufferedBytes = r.bufferedBytes /\ t.policy = r.policy
      /\ t.clipCounter = r.clipCounter /\ t.currentClip = r.currentClip
  BY DEF Cut, ReplayRecorder
<1> HIDE DEF t
<1> QED BY <1>1, SameAccount DEF t

LEMMA AddedAccount ==
  ASSUME NEW r \in ReplayRecorder, AccountInv(r), NEW bytes
  PROVE  AccountInv(Added(r, bytes)) /\ Added(r, bytes).buffered = r.buffered
<1> DEFINE t == Added(r, bytes)
<1>1. /\ t.buffered = r.buffered /\ t.bufferedBytes = r.bufferedBytes
      /\ t.clipCounter = r.clipCounter /\ t.currentClip = r.currentClip
  BY DEF Added, ReplayRecorder
<1> HIDE DEF t
<1> QED BY <1>1, SameAccount DEF t

(* bufferChunk() with room: the clip being recorded grows, and the total   *)
(* with it.                                                                *)
LEMMA GrownFacts ==
  ASSUME NEW clip \in Clip, NEW chunk \in Chunk
  PROVE  LET g == Grown(clip, chunk) IN
         /\ g \in Clip /\ g.clipId = clip.clipId /\ g.session = clip.session
         /\ g.chunks = Append(clip.chunks, chunk)
         /\ g.bytes = clip.bytes + chunk.byteLength
<1> DEFINE chunks == Append(clip.chunks, chunk)
           bytes == clip.bytes + chunk.byteLength
<1>1. chunks \in Seq(Chunk)
  BY AppendProperties DEF Clip
<1>2. bytes \in Nat
  BY DEF Clip, Chunk
<1>3. Grown(clip, chunk) = [clip EXCEPT !.chunks = chunks, !.bytes = bytes]
  BY DEF Grown
<1> HIDE DEF chunks, bytes
<1>4. LET g == Grown(clip, chunk) IN
      /\ g \in Clip /\ g.clipId = clip.clipId /\ g.session = clip.session
      /\ g.chunks = chunks /\ g.bytes = bytes
  BY <1>1, <1>2, <1>3 DEF Clip
<1> QED BY <1>4 DEF chunks, bytes

LEMMA GrownSize ==
  ASSUME NEW chunks \in Seq(Chunk), NEW chunk \in Chunk
  PROVE  Total(ChunkSizes(Append(chunks, chunk))) = Total(ChunkSizes(chunks)) + chunk.byteLength
<1> DEFINE grown == Append(chunks, chunk)
           s == ChunkSizes(chunks)
           t == ChunkSizes(grown)
<1>1. /\ grown \in Seq(Chunk) /\ Len(grown) = Len(chunks) + 1
      /\ \A j \in 1..Len(chunks) : grown[j] = chunks[j]
      /\ grown[Len(chunks) + 1] = chunk
  BY AppendProperties
<1>2. Len(chunks) \in Nat /\ chunk.byteLength \in Nat
  BY LenProperties DEF Chunk
<1> HIDE DEF grown
<1>3. /\ s \in Seq(Nat) /\ Len(s) = Len(chunks)
      /\ \A j \in 1..Len(chunks) : s[j] = chunks[j].byteLength
  BY ChunkSizesFacts
<1>4. /\ t \in Seq(Nat) /\ Len(t) = Len(chunks) + 1
      /\ \A j \in 1..Len(chunks) + 1 : t[j] = grown[j].byteLength
  BY <1>1, ChunkSizesFacts
<1> HIDE DEF s, t
<1>5. ASSUME NEW j \in 1..Len(s) PROVE t[j] = s[j]
  <2>1. j \in 1..Len(chunks) /\ j \in 1..Len(chunks) + 1
    BY <1>2, <1>3
  <2> QED BY <1>1, <1>3, <1>4, <2>1
<1>6. t[Len(t)] = chunk.byteLength
  BY <1>1, <1>2, <1>4
<1>7. Total(t) = Total(s) + chunk.byteLength
  BY <1>2, <1>3, <1>4, <1>5, <1>6, TotalAppend
<1> QED BY <1>7 DEF s, t, grown

(* The one clip that takes a chunk. *)
LEMMA WithChunkFacts ==
  ASSUME NEW r \in ReplayRecorder, ClipIdsInv(r), NEW chunk \in Chunk, r.currentClip # NoClip
  PROVE  /\ WithChunk(r, chunk) \in Seq(Clip)
         /\ Len(WithChunk(r, chunk)) = Len(r.buffered)
         /\ \E at \in 1..Len(r.buffered) :
              /\ r.buffered[at].clipId = r.currentClip
              /\ WithChunk(r, chunk)[at] = Grown(r.buffered[at], chunk)
              /\ \A i \in 1..Len(r.buffered) :
                   i # at => WithChunk(r, chunk)[i] = r.buffered[i]
<1> DEFINE b == WithChunk(r, chunk)
<1>1. /\ DOMAIN r.buffered = 1..Len(r.buffered) /\ Len(r.buffered) \in Nat
      /\ \A i \in 1..Len(r.buffered) : r.buffered[i] \in Clip
  BY BufferFacts
<1>2. PICK at \in 1..Len(r.buffered) : r.buffered[at].clipId = r.currentClip
  BY DEF ClipIdsInv
<1>3. \A i \in 1..Len(r.buffered) : r.buffered[i].clipId = r.currentClip <=> i = at
  BY <1>2 DEF ClipIdsInv
<1>4. \A i \in 1..Len(r.buffered) :
        b[i] = IF i = at THEN Grown(r.buffered[i], chunk) ELSE r.buffered[i]
  BY <1>1, <1>3 DEF WithChunk
<1>5. DOMAIN b = 1..Len(r.buffered) /\ b = [i \in 1..Len(r.buffered) |-> b[i]]
  BY <1>1 DEF WithChunk
<1> HIDE DEF b
<1>6. \A i \in 1..Len(r.buffered) : b[i] \in Clip
  BY <1>1, <1>4, GrownFacts
<1>7. b \in Seq(Clip)
  BY <1>1, <1>5, <1>6, SeqDef
<1>8. Len(b) = Len(r.buffered)
  BY <1>1, <1>5, <1>7, LenProperties
<1> QED BY <1>2, <1>4, <1>7, <1>8 DEF b

LEMMA BufferChunkAccount ==
  ASSUME NEW r \in ReplayRecorder, AccountInv(r), NEW chunk \in Chunk
  PROVE  AccountInv(BufferChunk(r, chunk))
<1>1. CASE ~Room(r, chunk)
  BY <1>1 DEF BufferChunk
<1>2. CASE Room(r, chunk)
  <2> DEFINE t == BufferChunk(r, chunk)
             b == WithChunk(r, chunk)
             n == Len(r.buffered)
  <2>1. /\ r.buffered \in Seq(Clip) /\ n \in Nat
        /\ \A i \in 1..n : /\ r.buffered[i] \in Clip /\ r.buffered[i].chunks \in Seq(Chunk)
                           /\ r.buffered[i].bytes \in Nat
    BY BufferFacts
  <2>2. chunk.byteLength \in Nat
    BY DEF Chunk
  <2>3. t.buffered = b /\ t.bufferedBytes = r.bufferedBytes + chunk.byteLength
        /\ t.clipCounter = r.clipCounter /\ t.currentClip = r.currentClip
    BY <1>2 DEF BufferChunk, ReplayRecorder
  <2>4. r.currentClip # NoClip /\ r.bufferedBytes + chunk.byteLength <= maxBufferedBytes
    BY <1>2 DEF Room
  <2>5. /\ b \in Seq(Clip) /\ Len(b) = n
        /\ \E at \in 1..n :
             /\ r.buffered[at].clipId = r.currentClip
             /\ b[at] = Grown(r.buffered[at], chunk)
             /\ \A i \in 1..n : i # at => b[i] = r.buffered[i]
    BY <2>4, WithChunkFacts DEF AccountInv
  <2>6. PICK at \in 1..n :
             /\ r.buffered[at].clipId = r.currentClip
             /\ b[at] = Grown(r.buffered[at], chunk)
             /\ \A i \in 1..n : i # at => b[i] = r.buffered[i]
    BY <2>5
  <2> HIDE DEF t, b, n
  <2>7. /\ b[at].clipId = r.buffered[at].clipId
        /\ b[at].chunks = Append(r.buffered[at].chunks, chunk)
        /\ b[at].bytes = r.buffered[at].bytes + chunk.byteLength
    <3> DEFINE clip == r.buffered[at]
    <3>1. clip \in Clip
      BY <2>1
    <3> HIDE DEF clip
    <3>2. /\ Grown(clip, chunk).clipId = clip.clipId
          /\ Grown(clip, chunk).chunks = Append(clip.chunks, chunk)
          /\ Grown(clip, chunk).bytes = clip.bytes + chunk.byteLength
      BY <3>1, GrownFacts
    <3> QED BY <2>6, <3>2 DEF clip
  <2>8. \A i \in 1..n : b[i].clipId = r.buffered[i].clipId
    BY <2>6, <2>7
  <2>9. ClipIdsInv(t)
    BY <2>3, <2>5, <2>8 DEF ClipIdsInv, AccountInv, n
  <2>10. ASSUME NEW i \in 1..n PROVE b[i].bytes = Total(ChunkSizes(b[i].chunks))
    <3>1. r.buffered[i].bytes = Total(ChunkSizes(r.buffered[i].chunks))
      BY DEF AccountInv, SizesInv, n
    <3>2. CASE i = at
      <4>1. Total(ChunkSizes(Append(r.buffered[i].chunks, chunk)))
              = Total(ChunkSizes(r.buffered[i].chunks)) + chunk.byteLength
        BY <2>1, GrownSize
      <4> QED BY <2>7, <3>1, <3>2, <4>1
    <3>3. CASE i # at
      BY <2>6, <3>1, <3>3
    <3> QED BY <3>2, <3>3
  <2>11. Total(ClipSizes(b)) = Total(ClipSizes(r.buffered)) + chunk.byteLength
    <3>1. /\ ClipSizes(b) \in Seq(Nat) /\ Len(ClipSizes(b)) = n
          /\ \A i \in 1..n : ClipSizes(b)[i] = b[i].bytes
      BY <2>5, ClipSizesFacts
    <3>2. /\ ClipSizes(r.buffered) \in Seq(Nat) /\ Len(ClipSizes(r.buffered)) = n
          /\ \A i \in 1..n : ClipSizes(r.buffered)[i] = r.buffered[i].bytes
      BY <2>1, ClipSizesFacts DEF n
    <3> DEFINE s == ClipSizes(r.buffered)
               u == ClipSizes(b)
    <3> HIDE DEF s, u
    <3>3. s \in Seq(Nat) /\ u \in Seq(Nat) /\ Len(s) = n /\ Len(u) = n
      BY <3>1, <3>2 DEF s, u
    <3>4. u[at] = s[at] + chunk.byteLength
      BY <2>7, <3>1, <3>2 DEF s, u
    <3>5. \A i \in 1..Len(s) : i # at => u[i] = s[i]
      BY <2>6, <3>1, <3>2, <3>3 DEF s, u
    <3>6. Total(u) = Total(s) + chunk.byteLength
      <4>1. at \in 1..Len(s)
        BY <3>3
      <4> QED BY <2>2, <3>3, <3>4, <3>5, <4>1, TotalGrown
    <3> QED BY <3>6 DEF s, u
  <2>12. SizesInv(t)
    <3>1. r.bufferedBytes = Total(ClipSizes(r.buffered))
      BY DEF AccountInv, SizesInv
    <3> QED BY <2>3, <2>4, <2>5, <2>10, <2>11, <3>1 DEF SizesInv
  <2> QED BY <2>9, <2>12 DEF AccountInv, t
<1> QED BY <1>1, <1>2

LEMMA DispatchAccount ==
  ASSUME NEW keys, NEW r, RecInv(r, keys), AccountInv(r), HasTail(r)
  PROVE  AccountInv(Dispatch(r))
<1>1. r \in ReplayRecorder /\ CutChunk(r) \in Chunk
  BY CutChunkFacts DEF RecInv
<1>2. Cut(r) \in ReplayRecorder
  BY CutInv DEF RecInv
<1>3. AccountInv(Cut(r))
  BY <1>1, CutAccount
<1>4. AccountInv(BufferChunk(Cut(r), CutChunk(r)))
  BY <1>1, <1>2, <1>3, BufferChunkAccount
<1> QED BY <1>3, <1>4 DEF Dispatch

LEMMA StoppedAccount ==
  ASSUME NEW keys, NEW r, RecInv(r, keys), AccountInv(r)
  PROVE  AccountInv(Stopped(r))
<1>1. r \in ReplayRecorder
  BY DEF RecInv
<1>2. CASE HasTail(r)
  <2>1. Dispatch(r) \in ReplayRecorder
    BY <1>2, DispatchInv DEF RecInv
  <2>2. AccountInv(Dispatch(r))
    BY <1>2, DispatchAccount
  <2> QED BY <1>2, <2>1, <2>2, TeardownAccount DEF Stopped
<1>3. CASE ~HasTail(r)
  BY <1>1, <1>3, TeardownAccount DEF Stopped
<1> QED BY <1>2, <1>3

(* remove(): the clips before it keep their places, those after move down. *)
LEMMA RemoveAtFacts ==
  ASSUME NEW S, NEW b \in Seq(S), NEW i \in 1..Len(b)
  PROVE  /\ RemoveAt(b, i) \in Seq(S)
         /\ Len(RemoveAt(b, i)) = Len(b) - 1
         /\ \A j \in 1..Len(b) - 1 : RemoveAt(b, i)[j] = IF j < i THEN b[j] ELSE b[j + 1]
<1> DEFINE n == Len(b)
           head == SubSeq(b, 1, i - 1)
           rest == SubSeq(b, i + 1, n)
           c == RemoveAt(b, i)
<1>1. n \in Nat /\ i \in 1..n /\ \A j \in 1..n : b[j] \in S
  BY LenProperties, ElementOfSeq
<1>2. c = head \o rest
  BY DEF RemoveAt
<1> HIDE DEF c, n
<1>3. /\ head \in Seq(S) /\ Len(head) = i - 1
      /\ \A j \in 1..i - 1 : head[j] = b[j]
  <2>1. 1 \in Int /\ i - 1 \in Int /\ \A j \in 1..i - 1 : b[j] \in S
    BY <1>1
  <2>2. /\ head \in Seq(S) /\ Len(head) = IF 1 <= i - 1 THEN (i - 1) - 1 + 1 ELSE 0
        /\ \A j \in 1..(i - 1) - 1 + 1 : head[j] = b[1 + j - 1]
    <3> DEFINE m == i - 1
    <3> HIDE DEF m
    <3>1. m \in Int /\ \A j \in 1..m : b[j] \in S
      BY <2>1 DEF m
    <3>2. /\ SubSeq(b, 1, m) \in Seq(S) /\ Len(SubSeq(b, 1, m)) = IF 1 <= m THEN m - 1 + 1 ELSE 0
          /\ \A j \in 1..m - 1 + 1 : SubSeq(b, 1, m)[j] = b[1 + j - 1]
      BY <2>1, <3>1, SubSeqProperties
    <3> QED BY <3>2 DEF m
  <2> HIDE DEF head
  <2> QED BY <1>1, <2>2
<1>4. /\ rest \in Seq(S) /\ Len(rest) = n - i
      /\ \A j \in 1..n - i : rest[j] = b[i + j]
  <2> DEFINE m == i + 1
  <2>1. m \in Int /\ n \in Int /\ \A j \in m..n : b[j] \in S
    BY <1>1
  <2> HIDE DEF m
  <2>2. /\ SubSeq(b, m, n) \in Seq(S) /\ Len(SubSeq(b, m, n)) = IF m <= n THEN n - m + 1 ELSE 0
        /\ \A j \in 1..n - m + 1 : SubSeq(b, m, n)[j] = b[m + j - 1]
    BY <2>1, SubSeqProperties
  <2>3. rest = SubSeq(b, m, n)
    BY DEF m
  <2> HIDE DEF rest
  <2>4. rest \in Seq(S) /\ Len(rest) = n - i
    BY <1>1, <2>2, <2>3 DEF m
  <2>5. ASSUME NEW j \in 1..n - i PROVE rest[j] = b[i + j]
    <3>1. j \in 1..n - m + 1 /\ m + j - 1 = i + j
      BY <1>1 DEF m
    <3> QED BY <2>2, <2>3, <3>1
  <2> QED BY <2>4, <2>5
<1> HIDE DEF head, rest
<1>5. /\ c \in Seq(S) /\ Len(c) = Len(head) + Len(rest)
      /\ \A j \in 1..Len(head) + Len(rest) :
           c[j] = IF j <= Len(head) THEN head[j] ELSE rest[j - Len(head)]
  BY <1>2, <1>3, <1>4, ConcatProperties
<1>6. Len(c) = n - 1
  BY <1>1, <1>3, <1>4, <1>5
<1>7. ASSUME NEW j \in 1..n - 1 PROVE c[j] = IF j < i THEN b[j] ELSE b[j + 1]
  <2>1. j \in 1..Len(head) + Len(rest)
    BY <1>1, <1>3, <1>4
  <2>2. CASE j < i
    <3>1. j \in 1..i - 1 /\ j <= Len(head)
      BY <1>1, <1>3, <2>2
    <3> QED BY <1>3, <1>5, <2>1, <2>2, <3>1
  <2>3. CASE ~(j < i)
    <3>1. /\ ~(j <= Len(head)) /\ j - Len(head) \in 1..n - i /\ i + (j - Len(head)) = j + 1
      BY <1>1, <1>3, <2>3
    <3>2. c[j] = rest[j - Len(head)]
      BY <1>5, <2>1, <3>1
    <3>3. rest[j - Len(head)] = b[i + (j - Len(head))]
      BY <1>4, <3>1
    <3> QED BY <2>3, <3>1, <3>2, <3>3
  <2> QED BY <2>2, <2>3
<1> QED BY <1>5, <1>6, <1>7 DEF c, n

LEMMA WithoutClipAccount ==
  ASSUME NEW r \in ReplayRecorder, AccountInv(r), NEW i \in 1..Len(r.buffered)
  PROVE  AccountInv(WithoutClip(r, i)) /\ WithoutClip(r, i).buffered = RemoveAt(r.buffered, i)
<1> DEFINE t == WithoutClip(r, i)
           b == RemoveAt(r.buffered, i)
           n == Len(r.buffered)
           size == r.buffered[i].bytes
           left == IF size <= r.bufferedBytes THEN r.bufferedBytes - size ELSE 0
           open == IF r.currentClip = r.buffered[i].clipId THEN NoClip ELSE r.currentClip
<1>1. /\ r.buffered \in Seq(Clip) /\ n \in Nat /\ i \in 1..n
      /\ \A j \in 1..n : r.buffered[j].clipId \in Nat
      /\ size \in Nat
  BY BufferFacts
<1>2. t = [r EXCEPT !.buffered = b, !.bufferedBytes = left, !.currentClip = open]
  BY DEF WithoutClip, ReplayRecorder
<1>3. /\ b \in Seq(Clip) /\ Len(b) = n - 1
      /\ \A j \in 1..n - 1 : b[j] = IF j < i THEN r.buffered[j] ELSE r.buffered[j + 1]
  BY <1>1, RemoveAtFacts
<1>4. /\ t.buffered = b /\ t.bufferedBytes = left /\ t.currentClip = open
      /\ t.clipCounter = r.clipCounter
  <2> HIDE DEF t, b, left, open
  <2> QED BY <1>2 DEF ReplayRecorder
<1> HIDE DEF t, b, left, open, n
<1>5. ASSUME NEW j \in 1..n - 1
      PROVE  \E k \in 1..n : k # i /\ b[j] = r.buffered[k] /\ k = IF j < i THEN j ELSE j + 1
  <2>1. CASE j < i
    BY <1>1, <1>3, <2>1
  <2>2. CASE ~(j < i)
    <3>1. j + 1 \in 1..n /\ j + 1 # i
      BY <1>1, <2>2
    <3> QED BY <1>3, <2>2, <3>1
  <2> QED BY <2>1, <2>2
<1>6. ClipIdsInv(t)
  <2>1. ASSUME NEW j \in 1..n - 1 PROVE b[j].clipId < r.clipCounter
    BY <1>5 DEF AccountInv, ClipIdsInv, n
  <2>2. ASSUME NEW j1 \in 1..n - 1, NEW j2 \in 1..n - 1, b[j1].clipId = b[j2].clipId
        PROVE  j1 = j2
    <3>1. PICK k1 \in 1..n : b[j1] = r.buffered[k1] /\ k1 = IF j1 < i THEN j1 ELSE j1 + 1
      BY <1>5
    <3>2. PICK k2 \in 1..n : b[j2] = r.buffered[k2] /\ k2 = IF j2 < i THEN j2 ELSE j2 + 1
      BY <1>5
    <3>3. k1 = k2
      BY <2>2, <3>1, <3>2 DEF AccountInv, ClipIdsInv, n
    <3> QED BY <1>1, <3>1, <3>2, <3>3
  <2>3. ASSUME open # NoClip PROVE \E j \in 1..n - 1 : b[j].clipId = open
    <3>1. open = r.currentClip /\ r.currentClip # r.buffered[i].clipId
      BY <2>3 DEF open
    <3>2. PICK k \in 1..n : r.buffered[k].clipId = r.currentClip
      BY <2>3, <3>1 DEF AccountInv, ClipIdsInv, n
    <3>3. k # i
      BY <3>1, <3>2
    <3>4. CASE k < i
      <4>1. k \in 1..n - 1
        BY <1>1, <3>4
      <4> QED BY <1>3, <3>1, <3>2, <3>4, <4>1
    <3>5. CASE ~(k < i)
      <4>1. k - 1 \in 1..n - 1 /\ ~(k - 1 < i) /\ (k - 1) + 1 = k
        BY <1>1, <3>3, <3>5
      <4> QED BY <1>3, <3>1, <3>2, <4>1
    <3> QED BY <3>4, <3>5
  <2> QED BY <1>3, <1>4, <2>1, <2>2, <2>3 DEF ClipIdsInv
<1>7. SizesInv(t)
  <2>1. ASSUME NEW j \in 1..n - 1 PROVE b[j].bytes = Total(ChunkSizes(b[j].chunks))
    BY <1>5 DEF AccountInv, SizesInv, n
  <2> DEFINE s == ClipSizes(r.buffered)
             u == ClipSizes(b)
  <2>2. s \in Seq(Nat) /\ Len(s) = n /\ \A j \in 1..n : s[j] = r.buffered[j].bytes
    BY <1>1, ClipSizesFacts DEF n
  <2>3. u \in Seq(Nat) /\ Len(u) = n - 1 /\ \A j \in 1..n - 1 : u[j] = b[j].bytes
    BY <1>3, ClipSizesFacts
  <2> HIDE DEF s, u
  <2>4. ASSUME NEW j \in 1..Len(u) PROVE u[j] = IF j < i THEN s[j] ELSE s[j + 1]
    <3>1. j \in 1..n - 1 /\ u[j] = b[j].bytes
      BY <2>3
    <3>2. PICK k \in 1..n : b[j] = r.buffered[k] /\ k = IF j < i THEN j ELSE j + 1
      BY <1>5, <3>1
    <3>3. u[j] = s[k]
      BY <2>2, <3>1, <3>2
    <3> QED BY <3>2, <3>3
  <2>5. Total(s) = Total(u) + s[i]
    BY <1>1, <2>2, <2>3, <2>4, TotalRemoved
  <2>6. Total(u) \in Nat
    BY <2>3, TotalNat
  <2>7. r.bufferedBytes = Total(s) /\ r.bufferedBytes <= maxBufferedBytes /\ s[i] = size
    BY <1>1, <2>2 DEF AccountInv, SizesInv, s
  <2>8. left = Total(u)
    <3> DEFINE total == Total(u)
    <3>1. total \in Nat /\ r.bufferedBytes = total + size
      BY <2>5, <2>6, <2>7
    <3> HIDE DEF total, size
    <3>2. size \in Nat
      BY <1>1 DEF size
    <3>3. left = total
      BY <3>1, <3>2 DEF left
    <3> QED BY <3>3 DEF total
  <2>9. left <= maxBufferedBytes
    BY <1>1, <2>5, <2>6, <2>7, <2>8, ReplayAssumption
  <2> QED BY <1>3, <1>4, <2>1, <2>8, <2>9 DEF SizesInv, u
<1> QED BY <1>4, <1>6, <1>7 DEF AccountInv, t, b

(* start(): a clip of no chunks and a new id, recorded from now on. *)
LEMMA PreparedAccount ==
  ASSUME NEW r \in ReplayRecorder, AccountInv(r), NEW s \in Nat
  PROVE  AccountInv(Prepared(r, s))
<1> DEFINE clip == [clipId |-> r.clipCounter, session |-> s, chunks |-> <<>>, bytes |-> 0]
           b == Append(r.buffered, clip)
           t == Prepared(r, s)
           n == Len(r.buffered)
<1>1. CASE ~Reviewing(r)
  <2>1. /\ t.buffered = r.buffered /\ t.bufferedBytes = r.bufferedBytes
        /\ t.clipCounter = r.clipCounter /\ t.currentClip = r.currentClip
    BY <1>1 DEF Prepared, ReplayRecorder
  <2> HIDE DEF t
  <2> QED BY <2>1, SameAccount DEF t
<1>2. CASE Reviewing(r)
  <2>1. /\ t.buffered = b /\ t.bufferedBytes = r.bufferedBytes
        /\ t.clipCounter = r.clipCounter + 1 /\ t.currentClip = r.clipCounter
    BY <1>2 DEF Prepared, ReplayRecorder
  <2>2. r.buffered \in Seq(Clip) /\ r.clipCounter \in Nat /\ <<>> \in Seq(Chunk)
    BY EmptySeq DEF ReplayRecorder
  <2>3. clip \in Clip /\ clip.clipId = r.clipCounter /\ clip.bytes = 0 /\ clip.chunks = <<>>
    BY <2>2 DEF Clip
  <2> HIDE DEF clip, t
  <2>4. /\ b \in Seq(Clip) /\ Len(b) = n + 1 /\ n \in Nat
        /\ \A j \in 1..n : b[j] = r.buffered[j]
        /\ b[n + 1] = clip
    BY <2>2, <2>3, AppendProperties, LenProperties
  <2> HIDE DEF b, n
  <2>5. \A j \in 1..n + 1 : j \in 1..n \/ j = n + 1
    BY <2>4
  <2>6. \A j \in 1..n : r.buffered[j].clipId < r.clipCounter /\ r.buffered[j].clipId \in Nat
    BY BufferFacts DEF AccountInv, ClipIdsInv, n
  <2>7. ClipIdsInv(t)
    <3>1. ASSUME NEW j \in 1..n + 1 PROVE b[j].clipId < r.clipCounter + 1
      <4>1. CASE j \in 1..n
        BY <2>2, <2>4, <2>6, <4>1
      <4>2. CASE j = n + 1
        BY <2>2, <2>3, <2>4, <4>2
      <4> QED BY <2>5, <4>1, <4>2
    <3>2. ASSUME NEW j \in 1..n + 1, NEW k \in 1..n + 1, b[j].clipId = b[k].clipId
          PROVE  j = k
      <4>1. CASE j \in 1..n /\ k \in 1..n
        BY <2>4, <3>2, <4>1 DEF AccountInv, ClipIdsInv, n
      <4>2. CASE j \in 1..n /\ k = n + 1
        BY <2>2, <2>3, <2>4, <2>6, <3>2, <4>2
      <4>3. CASE j = n + 1 /\ k \in 1..n
        BY <2>2, <2>3, <2>4, <2>6, <3>2, <4>3
      <4> QED BY <2>5, <4>1, <4>2, <4>3
    <3>3. n + 1 \in 1..n + 1 /\ b[n + 1].clipId = r.clipCounter
      BY <2>3, <2>4
    <3> QED BY <2>1, <2>4, <3>1, <3>2, <3>3 DEF ClipIdsInv
  <2>8. SizesInv(t)
    <3>1. ASSUME NEW j \in 1..n + 1 PROVE b[j].bytes = Total(ChunkSizes(b[j].chunks))
      <4>1. CASE j \in 1..n
        BY <2>4, <4>1 DEF AccountInv, SizesInv, n
      <4>2. CASE j = n + 1
        BY <2>3, <2>4, <4>2, SizesOfNothing
      <4> QED BY <2>5, <4>1, <4>2
    <3> DEFINE v == ClipSizes(r.buffered)
               u == ClipSizes(b)
    <3>2. v \in Seq(Nat) /\ Len(v) = n /\ \A j \in 1..n : v[j] = r.buffered[j].bytes
      BY <2>2, ClipSizesFacts DEF n
    <3>3. u \in Seq(Nat) /\ Len(u) = n + 1 /\ \A j \in 1..n + 1 : u[j] = b[j].bytes
      BY <2>4, ClipSizesFacts
    <3> HIDE DEF u, v
    <3>4. ASSUME NEW j \in 1..Len(v) PROVE u[j] = v[j]
      <4>1. j \in 1..n /\ j \in 1..n + 1
        BY <2>4, <3>2
      <4> QED BY <2>4, <3>2, <3>3, <4>1
    <3>5. u[Len(u)] = 0 /\ Len(u) = Len(v) + 1
      BY <2>3, <2>4, <3>2, <3>3
    <3>6. Total(u) = Total(v) + 0 /\ Total(v) \in Nat
      BY <3>2, <3>3, <3>4, <3>5, TotalAppend, TotalNat
    <3>7. r.bufferedBytes = Total(v) /\ r.bufferedBytes <= maxBufferedBytes
      BY DEF AccountInv, SizesInv, v
    <3>8. Total(u) = r.bufferedBytes
      BY <3>6, <3>7
    <3> QED BY <2>1, <2>4, <3>1, <3>7, <3>8 DEF SizesInv, u
  <2> QED BY <2>7, <2>8 DEF AccountInv, t
<1> QED BY <1>1, <1>2

-----------------------------------------------------------------------------
(* The places a chunk can be in (PlacesInv): the keys held by the buffer,  *)
(* waiting in a submit(), being sent, and of each fate share no key and    *)
(* make up all keys cut, and no key is twice in one place.                 *)

(* Seven sets of keys that share none and make up keys. *)
Apart(B, S, U, D, F, W, X, keys) ==
  /\ keys = B \cup S \cup U \cup D \cup F \cup W \cup X
  /\ B \cap (S \cup U \cup D \cup F \cup W \cup X) = {}
  /\ S \cap (U \cup D \cup F \cup W \cup X) = {}
  /\ U \cap (D \cup F \cup W \cup X) = {}
  /\ D \cap (F \cup W \cup X) = {}
  /\ F \cap (W \cup X) = {}
  /\ W \cap X = {}

LEMMA ApartNewHeld ==
  ASSUME NEW B, NEW S, NEW U, NEW D, NEW F, NEW W, NEW X, NEW keys,
         Apart(B, S, U, D, F, W, X, keys), NEW k, k \notin keys
  PROVE  /\ Apart(B \cup {k}, S, U, D, F, W, X, keys \cup {k})
         /\ Apart(B, S, U \cup {k}, D, F, W, X, keys \cup {k})
         /\ Apart(B, S, U, D, F, W, X \cup {k}, keys \cup {k})
BY DEF Apart

LEMMA ApartWithdrawn ==
  ASSUME NEW B, NEW S, NEW U, NEW D, NEW F, NEW W, NEW X, NEW keys,
         Apart(B, S, U, D, F, W, X, keys), NEW M, M \subseteq B
  PROVE  Apart(B \ M, S, U, D, F, W \cup M, X, keys)
BY DEF Apart

LEMMA ApartSubmitted ==
  ASSUME NEW B, NEW S, NEW U, NEW D, NEW F, NEW W, NEW X, NEW keys,
         Apart(B, S, U, D, F, W, X, keys), NEW h \in B
  PROVE  Apart({}, S \cup (B \ {h}), U \cup {h}, D, F, W, X, keys)
BY DEF Apart

LEMMA ApartNext ==
  ASSUME NEW B, NEW S, NEW U, NEW D, NEW F, NEW W, NEW X, NEW keys,
         Apart(B, S, U, D, F, W, X, keys), NEW h \in S
  PROVE  Apart(B, S \ {h}, U \cup {h}, D, F, W, X, keys)
BY DEF Apart

LEMMA ApartOver ==
  ASSUME NEW B, NEW S, NEW U, NEW D, NEW F, NEW W, NEW X, NEW keys,
         Apart(B, S, U, D, F, W, X, keys), NEW k \in U
  PROVE  /\ Apart(B, S, U \ {k}, D \cup {k}, F, W, X, keys)
         /\ Apart(B, S, U \ {k}, D, F \cup {k}, W, X, keys)
BY DEF Apart

-----------------------------------------------------------------------------
(* The places of the chunks, and the places within each.                   *)

(* The keys in the buffer, in the submit() calls and in the uploads. *)
ClipChunks(b) == [i \in DOMAIN b |-> b[i].chunks]
Held(b) == UNION {KeysOf(b[i].chunks) : i \in DOMAIN b}
Waiting(sub) == UNION {KeysOf(sub[s]) : s \in Submitter}
Sent(ups) == {u.chunk.key : u \in ups}

(* What became of the chunks that are nowhere any more. *)
Fate == [durable : SUBSET Key, failed : SUBSET Key, withdrawn : SUBSET Key, dropped : SUBSET Key]

(* No chunk waits in two submit() calls, or twice in one; none has two uploads. *)
WaitingApart(sub) ==
  \A s1, s2 \in Submitter : \A j1 \in 1..Len(sub[s1]), j2 \in 1..Len(sub[s2]) :
    sub[s1][j1].key = sub[s2][j2].key => s1 = s2 /\ j1 = j2

SentApart(ups) == \A u, v \in ups : u.chunk.key = v.chunk.key => u = v

(* Every key of keys is in one place, and once in it. *)
PlacesInv(b, sub, ups, f, keys) ==
  /\ sub \in [Submitter -> Seq(Chunk)]
  /\ ups \in SUBSET Upload
  /\ f \in Fate
  /\ ListsApart(ClipChunks(b))
  /\ WaitingApart(sub)
  /\ SentApart(ups)
  /\ Apart(Held(b), Waiting(sub), Sent(ups), f.durable, f.failed, f.withdrawn, f.dropped, keys)

LEMMA ListKeys ==
  ASSUME NEW chunks \in Seq(Chunk)
  PROVE  /\ \A j \in 1..Len(chunks) : chunks[j].key \in KeysOf(chunks)
         /\ \A k \in KeysOf(chunks) : \E j \in 1..Len(chunks) : chunks[j].key = k
BY LenProperties DEF KeysOf

LEMMA ClipsFacts ==
  ASSUME NEW b \in Seq(Clip)
  PROVE  /\ Len(b) \in Nat /\ DOMAIN b = 1..Len(b)
         /\ \A i \in 1..Len(b) : b[i] \in Clip /\ b[i].chunks \in Seq(Chunk)
         /\ ClipChunks(b) \in Seq(Seq(Chunk)) /\ Len(ClipChunks(b)) = Len(b)
         /\ \A i \in 1..Len(b) : ClipChunks(b)[i] = b[i].chunks
<1> DEFINE c == ClipChunks(b)
<1>1. Len(b) \in Nat /\ DOMAIN b = 1..Len(b)
  BY LenProperties
<1>2. \A i \in 1..Len(b) : b[i] \in Clip
  BY ElementOfSeq
<1>3. \A i \in 1..Len(b) : b[i].chunks \in Seq(Chunk)
  BY <1>2 DEF Clip
<1>4. c \in [1..Len(b) -> Seq(Chunk)] /\ DOMAIN c = 1..Len(b)
  BY <1>1, <1>3 DEF ClipChunks
<1>5. \A i \in 1..Len(b) : c[i] = b[i].chunks
  BY <1>1 DEF ClipChunks
<1> HIDE DEF c
<1>6. c \in Seq(Seq(Chunk))
  BY <1>1, <1>4, SeqDef
<1>7. Len(c) = Len(b)
  BY <1>1, <1>4, <1>6, LenProperties
<1> QED BY <1>1, <1>2, <1>3, <1>5, <1>6, <1>7 DEF c

(* A key is held when some chunk of some clip has it. *)
LEMMA HeldKeys ==
  ASSUME NEW b \in Seq(Clip)
  PROVE  /\ \A i \in 1..Len(b) : KeysOf(b[i].chunks) \subseteq Held(b)
         /\ \A i \in 1..Len(b) : \A j \in 1..Len(b[i].chunks) : b[i].chunks[j].key \in Held(b)
         /\ \A k \in Held(b) : \E i \in 1..Len(b) : \E j \in 1..Len(b[i].chunks) :
              b[i].chunks[j].key = k
<1>1. /\ DOMAIN b = 1..Len(b)
      /\ \A i \in 1..Len(b) : b[i].chunks \in Seq(Chunk)
  BY ClipsFacts
<1>2. \A i \in 1..Len(b) : KeysOf(b[i].chunks) \subseteq Held(b)
  BY <1>1 DEF Held
<1>3. \A i \in 1..Len(b) : \A j \in 1..Len(b[i].chunks) : b[i].chunks[j].key \in Held(b)
  BY <1>1, <1>2, ListKeys
<1>4. ASSUME NEW k \in Held(b)
      PROVE  \E i \in 1..Len(b) : \E j \in 1..Len(b[i].chunks) : b[i].chunks[j].key = k
  <2>1. PICK i \in 1..Len(b) : k \in KeysOf(b[i].chunks)
    BY <1>1 DEF Held
  <2>2. b[i].chunks \in Seq(Chunk)
    BY <1>1
  <2> QED BY <2>1, <2>2, ListKeys
<1> QED BY <1>2, <1>3, <1>4

(* Two clips' worth of chunks, place by place. *)
LEMMA ClipsApart ==
  ASSUME NEW b \in Seq(Clip)
  PROVE  ListsApart(ClipChunks(b)) <=>
           \A i1, i2 \in 1..Len(b) :
             \A j1 \in 1..Len(b[i1].chunks), j2 \in 1..Len(b[i2].chunks) :
               b[i1].chunks[j1].key = b[i2].chunks[j2].key => i1 = i2 /\ j1 = j2
<1> DEFINE lists == ClipChunks(b)
<1>1. /\ Len(lists) = Len(b)
      /\ \A i \in 1..Len(b) : lists[i] = b[i].chunks
  BY ClipsFacts
<1> HIDE DEF lists
<1>2. ASSUME ListsApart(lists), NEW i1 \in 1..Len(b), NEW i2 \in 1..Len(b),
             NEW j1 \in 1..Len(b[i1].chunks), NEW j2 \in 1..Len(b[i2].chunks),
             b[i1].chunks[j1].key = b[i2].chunks[j2].key
      PROVE  i1 = i2 /\ j1 = j2
  <2>1. lists[i1] = b[i1].chunks /\ lists[i2] = b[i2].chunks
    BY <1>1
  <2> QED BY <1>1, <1>2, <2>1 DEF ListsApart
<1>3. ASSUME \A i1, i2 \in 1..Len(b) :
               \A j1 \in 1..Len(b[i1].chunks), j2 \in 1..Len(b[i2].chunks) :
                 b[i1].chunks[j1].key = b[i2].chunks[j2].key => i1 = i2 /\ j1 = j2,
             NEW i1 \in 1..Len(lists), NEW i2 \in 1..Len(lists),
             NEW j1 \in 1..Len(lists[i1]), NEW j2 \in 1..Len(lists[i2]),
             lists[i1][j1].key = lists[i2][j2].key
      PROVE  i1 = i2 /\ j1 = j2
  <2>1. lists[i1] = b[i1].chunks /\ lists[i2] = b[i2].chunks
    BY <1>1
  <2> QED BY <1>1, <1>3, <2>1
<1>4. ListsApart(lists) <=>
        \A i1, i2 \in 1..Len(b) :
          \A j1 \in 1..Len(b[i1].chunks), j2 \in 1..Len(b[i2].chunks) :
            b[i1].chunks[j1].key = b[i2].chunks[j2].key => i1 = i2 /\ j1 = j2
  BY <1>2, <1>3 DEF ListsApart
<1> QED BY <1>4 DEF lists

LEMMA NothingHeld == Held(<<>>) = {} /\ ListsApart(ClipChunks(<<>>))
<1>1. <<>> \in Seq(Clip) /\ Len(<<>>) = 0 /\ 1..0 = {}
  BY EmptySeq
<1>2. Held(<<>>) = {}
  BY <1>1, HeldKeys
<1>3. ListsApart(ClipChunks(<<>>))
  BY <1>1, ClipsApart
<1> QED BY <1>2, <1>3

(* A fresh chunk at the end of one clip. *)
LEMMA HeldGrown ==
  ASSUME NEW b \in Seq(Clip), NEW c \in Seq(Clip), Len(c) = Len(b), NEW chunk \in Chunk,
         NEW at \in 1..Len(b), c[at].chunks = Append(b[at].chunks, chunk),
         \A i \in 1..Len(b) : i # at => c[i] = b[i],
         ListsApart(ClipChunks(b)), chunk.key \notin Held(b)
  PROVE  ListsApart(ClipChunks(c)) /\ Held(c) = Held(b) \cup {chunk.key}
<1>1. /\ b[at].chunks \in Seq(Chunk)
      /\ \A i \in 1..Len(b) : b[i].chunks \in Seq(Chunk) /\ c[i].chunks \in Seq(Chunk)
  BY ClipsFacts
<1> DEFINE n == Len(b[at].chunks)
<1>2. /\ Len(c[at].chunks) = n + 1 /\ n \in Nat
      /\ \A j \in 1..n : c[at].chunks[j] = b[at].chunks[j]
      /\ c[at].chunks[n + 1] = chunk
  <2> DEFINE old == b[at].chunks
  <2>1. old \in Seq(Chunk) /\ Len(old) \in Nat
    BY <1>1, LenProperties
  <2> HIDE DEF old
  <2>2. /\ Len(Append(old, chunk)) = Len(old) + 1
        /\ \A j \in 1..Len(old) : Append(old, chunk)[j] = old[j]
        /\ Append(old, chunk)[Len(old) + 1] = chunk
    BY <2>1, AppendProperties
  <2> QED BY <2>1, <2>2 DEF old
<1> HIDE DEF n
(* A place of c is a place of b, or the new one. *)
<1>3. ASSUME NEW i \in 1..Len(b), NEW j \in 1..Len(c[i].chunks)
      PROVE  \/ j \in 1..Len(b[i].chunks) /\ c[i].chunks[j] = b[i].chunks[j]
             \/ i = at /\ j = n + 1 /\ c[i].chunks[j] = chunk
  <2>1. CASE i = at
    <3>1. j \in 1..n \/ j = n + 1
      BY <1>2, <2>1
    <3> QED BY <1>2, <2>1, <3>1 DEF n
  <2>2. CASE i # at
    BY <2>2
  <2> QED BY <2>1, <2>2
<1>4. ASSUME NEW i1 \in 1..Len(b), NEW i2 \in 1..Len(b),
             NEW j1 \in 1..Len(c[i1].chunks), NEW j2 \in 1..Len(c[i2].chunks),
             c[i1].chunks[j1].key = c[i2].chunks[j2].key
      PROVE  i1 = i2 /\ j1 = j2
  <2>1. \A i \in 1..Len(b) : \A j \in 1..Len(b[i].chunks) : b[i].chunks[j].key # chunk.key
    BY HeldKeys
  <2>2. CASE i1 = at /\ j1 = n + 1 /\ c[i1].chunks[j1] = chunk
    <3>1. c[i2].chunks[j2].key = chunk.key
      BY <1>4, <2>2
    <3>2. ~(j2 \in 1..Len(b[i2].chunks) /\ c[i2].chunks[j2] = b[i2].chunks[j2])
      BY <2>1, <3>1
    <3>3. i2 = at /\ j2 = n + 1
      BY <1>3, <3>2
    <3> QED BY <2>2, <3>3
  <2>3. CASE j1 \in 1..Len(b[i1].chunks) /\ c[i1].chunks[j1] = b[i1].chunks[j1]
    <3>1. j2 \in 1..Len(b[i2].chunks) /\ c[i2].chunks[j2] = b[i2].chunks[j2]
      BY <1>3, <1>4, <2>1, <2>3, SMTT(20)
    <3> QED BY <1>4, <2>3, <3>1, ClipsApart, SMTT(20)
  <2> QED BY <1>3, <2>2, <2>3
<1>5. ListsApart(ClipChunks(c))
  BY <1>4, ClipsApart
<1>6. Held(c) \subseteq Held(b) \cup {chunk.key}
  <2> SUFFICES ASSUME NEW k \in Held(c) PROVE k \in Held(b) \cup {chunk.key}
    OBVIOUS
  <2>1. PICK i \in 1..Len(b) : \E j \in 1..Len(c[i].chunks) : c[i].chunks[j].key = k
    BY HeldKeys
  <2>2. PICK j \in 1..Len(c[i].chunks) : c[i].chunks[j].key = k
    BY <2>1
  <2> QED BY <1>3, <2>2, HeldKeys
<1>7. chunk.key \in Held(c)
  <2>1. n + 1 \in 1..Len(c[at].chunks) /\ at \in 1..Len(c)
    BY <1>2
  <2> QED BY <1>2, <2>1, HeldKeys
<1>8. Held(b) \subseteq Held(c)
  <2> SUFFICES ASSUME NEW k \in Held(b) PROVE k \in Held(c)
    OBVIOUS
  <2>1. PICK i \in 1..Len(b) : \E j \in 1..Len(b[i].chunks) : b[i].chunks[j].key = k
    BY HeldKeys
  <2>2. PICK j \in 1..Len(b[i].chunks) : b[i].chunks[j].key = k
    BY <2>1
  <2>3. j \in 1..Len(c[i].chunks) /\ c[i].chunks[j] = b[i].chunks[j]
    <3>1. CASE i = at
      <4>1. j \in 1..n /\ j \in 1..n + 1
        BY <1>2, <3>1 DEF n
      <4> QED BY <1>2, <3>1, <4>1
    <3>2. CASE i # at
      BY <3>2
    <3> QED BY <3>1, <3>2
  <2> QED BY <2>2, <2>3, HeldKeys
<1> QED BY <1>5, <1>6, <1>7, <1>8

(* A clip removed takes its chunks with it, and only those. *)
LEMMA HeldRemoved ==
  ASSUME NEW b \in Seq(Clip), NEW at \in 1..Len(b), ListsApart(ClipChunks(b))
  PROVE  LET c == RemoveAt(b, at) IN
         /\ ListsApart(ClipChunks(c)) /\ Held(c) = Held(b) \ KeysOf(b[at].chunks)
<1> DEFINE c == RemoveAt(b, at)
           n == Len(b)
<1>1. /\ c \in Seq(Clip) /\ Len(c) = n - 1
      /\ \A j \in 1..n - 1 : c[j] = IF j < at THEN b[j] ELSE b[j + 1]
  BY RemoveAtFacts
<1>2. n \in Nat /\ at \in 1..n /\ \A i \in 1..n : b[i].chunks \in Seq(Chunk)
  BY ClipsFacts
<1> HIDE DEF c
<1>3. ASSUME NEW i \in 1..n - 1
      PROVE  \E k \in 1..n : k # at /\ c[i] = b[k] /\ k = IF i < at THEN i ELSE i + 1
  <2>1. CASE i < at
    BY <1>1, <1>2, <2>1
  <2>2. CASE ~(i < at)
    <3>1. i + 1 \in 1..n /\ i + 1 # at
      BY <1>2, <2>2
    <3> QED BY <1>1, <2>2, <3>1
  <2> QED BY <2>1, <2>2
<1>4. ASSUME NEW k \in 1..n, k # at
      PROVE  \E i \in 1..n - 1 : c[i] = b[k]
  <2>1. CASE k < at
    <3>1. k \in 1..n - 1
      BY <1>2, <2>1
    <3> QED BY <1>1, <2>1, <3>1
  <2>2. CASE ~(k < at)
    <3>1. k - 1 \in 1..n - 1 /\ ~(k - 1 < at) /\ (k - 1) + 1 = k
      BY <1>2, <1>4, <2>2
    <3> QED BY <1>1, <3>1
  <2> QED BY <2>1, <2>2
<1>5. ASSUME NEW i1 \in 1..n - 1, NEW i2 \in 1..n - 1,
             NEW j1 \in 1..Len(c[i1].chunks), NEW j2 \in 1..Len(c[i2].chunks),
             c[i1].chunks[j1].key = c[i2].chunks[j2].key
      PROVE  i1 = i2 /\ j1 = j2
  <2>1. PICK k1 \in 1..n : c[i1] = b[k1] /\ k1 = IF i1 < at THEN i1 ELSE i1 + 1
    BY <1>3
  <2>2. PICK k2 \in 1..n : c[i2] = b[k2] /\ k2 = IF i2 < at THEN i2 ELSE i2 + 1
    BY <1>3
  <2>3. k1 = k2 /\ j1 = j2
    <3>1. \A h1, h2 \in 1..n :
            \A g1 \in 1..Len(b[h1].chunks), g2 \in 1..Len(b[h2].chunks) :
              b[h1].chunks[g1].key = b[h2].chunks[g2].key => h1 = h2 /\ g1 = g2
      BY ClipsApart
    <3>2. /\ j1 \in 1..Len(b[k1].chunks) /\ j2 \in 1..Len(b[k2].chunks)
          /\ b[k1].chunks[j1].key = b[k2].chunks[j2].key
      BY <1>5, <2>1, <2>2
    <3> HIDE DEF n
    <3> QED BY <3>1, <3>2
  <2>4. i1 = i2
    BY <1>2, <2>1, <2>2, <2>3
  <2> QED BY <2>3, <2>4
<1>6. ListsApart(ClipChunks(c))
  BY <1>1, <1>5, ClipsApart
<1>7. ASSUME NEW k \in Held(c) PROVE k \in Held(b) /\ k \notin KeysOf(b[at].chunks)
  <2>1. PICK i \in 1..n - 1 : \E j \in 1..Len(c[i].chunks) : c[i].chunks[j].key = k
    BY <1>1, HeldKeys
  <2>2. PICK j \in 1..Len(c[i].chunks) : c[i].chunks[j].key = k
    BY <2>1
  <2>3. PICK m \in 1..n : m # at /\ c[i] = b[m]
    BY <1>3
  <2>4. j \in 1..Len(b[m].chunks) /\ b[m].chunks[j].key = k
    BY <2>2, <2>3
  <2>5. k \in Held(b)
    BY <2>4, HeldKeys
  <2>6. ASSUME k \in KeysOf(b[at].chunks) PROVE FALSE
    <3>1. PICK l \in 1..Len(b[at].chunks) : b[at].chunks[l].key = k
      BY <1>2, <2>6, ListKeys
    <3> QED BY <2>3, <2>4, <3>1, ClipsApart, SMTT(20)
  <2> QED BY <2>5, <2>6
<1>8. ASSUME NEW k \in Held(b), k \notin KeysOf(b[at].chunks) PROVE k \in Held(c)
  <2>1. PICK i \in 1..n : \E j \in 1..Len(b[i].chunks) : b[i].chunks[j].key = k
    BY HeldKeys
  <2>2. PICK j \in 1..Len(b[i].chunks) : b[i].chunks[j].key = k
    BY <2>1
  <2>3. i # at
    BY <1>2, <1>8, <2>2, ListKeys
  <2>4. PICK m \in 1..n - 1 : c[m] = b[i]
    BY <1>4, <2>3
  <2> QED BY <1>1, <2>2, <2>4, HeldKeys
<1> QED BY <1>6, <1>7, <1>8 DEF c

(* submit() takes the chunks of the buffer, each once. *)
LEMMA BufferedChunksFacts ==
  ASSUME NEW r \in ReplayRecorder, ListsApart(ClipChunks(r.buffered))
  PROVE  /\ BufferedChunks(r) \in Seq(Chunk)
         /\ KeysOf(BufferedChunks(r)) = Held(r.buffered)
         /\ ListApart(BufferedChunks(r))
<1> DEFINE b == r.buffered
           lists == ClipChunks(b)
           f == BufferedChunks(r)
<1>1. b \in Seq(Clip)
  BY DEF ReplayRecorder
<1>2. f = FlattenSeq(lists)
  BY DEF BufferedChunks, ClipChunks
<1> HIDE DEF b, f
<1>3. /\ lists \in Seq(Seq(Chunk)) /\ Len(lists) = Len(b)
      /\ \A i \in 1..Len(b) : lists[i] = b[i].chunks /\ b[i].chunks \in Seq(Chunk)
  BY <1>1, ClipsFacts
<1> HIDE DEF lists
<1>4. FlatUpto(lists, Len(lists), f)
  BY <1>2, <1>3, FlattenFacts
<1>5. f \in Seq(Chunk)
  BY <1>4 DEF FlatUpto
<1>6. ASSUME NEW k \in KeysOf(f) PROVE k \in Held(b)
  <2>1. PICK a \in 1..Len(f) : f[a].key = k
    BY <1>5, ListKeys
  <2>2. PICK i \in 1..Len(b) : \E j \in 1..Len(lists[i]) : f[a] = lists[i][j]
    BY <1>3, <1>4 DEF FlatUpto
  <2> QED BY <1>1, <1>3, <2>1, <2>2, HeldKeys
<1>7. ASSUME NEW k \in Held(b) PROVE k \in KeysOf(f)
  <2>1. PICK i \in 1..Len(b) : \E j \in 1..Len(b[i].chunks) : b[i].chunks[j].key = k
    BY <1>1, HeldKeys
  <2>2. PICK j \in 1..Len(b[i].chunks) : b[i].chunks[j].key = k
    BY <2>1
  <2>3. PICK a \in 1..Len(f) : f[a] = b[i].chunks[j]
    <3>1. i \in 1..Len(lists) /\ j \in 1..Len(lists[i]) /\ lists[i][j] = b[i].chunks[j]
      BY <1>3
    <3> QED BY <1>4, <3>1 DEF FlatUpto
  <2> QED BY <1>5, <2>2, <2>3, ListKeys
<1>8. ListApart(f)
  BY <1>4 DEF FlatUpto, lists, b
<1> QED BY <1>5, <1>6, <1>7, <1>8 DEF b, f

(* The fates after an operation of the recorder. *)
After(f, lost, withdrawn) ==
  [f EXCEPT !.dropped = @ \cup lost, !.withdrawn = @ \cup withdrawn]

(* A union a lemma can name without the provers taking it apart. *)
Plus(A, B) == A \cup B

LEMMA NoKeys == {} \in SUBSET Key
OBVIOUS

LEMMA AfterFacts ==
  ASSUME NEW f \in Fate, NEW lost \in SUBSET Key, NEW withdrawn \in SUBSET Key
  PROVE  LET g == After(f, lost, withdrawn) IN
         /\ g \in Fate /\ g.durable = f.durable /\ g.failed = f.failed
         /\ g.withdrawn = Plus(f.withdrawn, withdrawn) /\ g.dropped = Plus(f.dropped, lost)
<1> DEFINE x == f.dropped \cup lost
           w == f.withdrawn \cup withdrawn
<1>1. x \in SUBSET Key /\ w \in SUBSET Key
  BY DEF Fate
<1>2. After(f, lost, withdrawn) = [f EXCEPT !.dropped = x, !.withdrawn = w]
  BY DEF After
<1> HIDE DEF x, w
<1>3. LET g == After(f, lost, withdrawn) IN
      /\ g \in Fate /\ g.durable = f.durable /\ g.failed = f.failed
      /\ g.withdrawn = w /\ g.dropped = x
  BY <1>1, <1>2 DEF Fate
<1> QED BY <1>3 DEF x, w, Plus

LEMMA AfterTwice ==
  ASSUME NEW f \in Fate, NEW lost \in SUBSET Key, NEW withdrawn \in SUBSET Key
  PROVE  After(After(f, lost, {}), {}, withdrawn) = After(f, lost, withdrawn)
<1> DEFINE g == After(f, lost, {})
           h == After(g, {}, withdrawn)
           k == After(f, lost, withdrawn)
<1>1. /\ g \in Fate /\ g.durable = f.durable /\ g.failed = f.failed
      /\ g.withdrawn = f.withdrawn \cup {} /\ g.dropped = f.dropped \cup lost
  <2>1. /\ g \in Fate /\ g.durable = f.durable /\ g.failed = f.failed
        /\ g.withdrawn = Plus(f.withdrawn, {}) /\ g.dropped = Plus(f.dropped, lost)
    BY AfterFacts, NoKeys
  <2> QED BY <2>1 DEF Plus
<1> HIDE DEF g
<1>2. /\ h \in Fate /\ h.durable = g.durable /\ h.failed = g.failed
      /\ h.withdrawn = g.withdrawn \cup withdrawn /\ h.dropped = g.dropped \cup {}
  <2>1. /\ h \in Fate /\ h.durable = g.durable /\ h.failed = g.failed
        /\ h.withdrawn = Plus(g.withdrawn, withdrawn) /\ h.dropped = Plus(g.dropped, {})
    BY <1>1, AfterFacts, NoKeys
  <2> QED BY <2>1 DEF Plus
<1>3. /\ k \in Fate /\ k.durable = f.durable /\ k.failed = f.failed
      /\ k.withdrawn = f.withdrawn \cup withdrawn /\ k.dropped = f.dropped \cup lost
  <2>1. /\ k \in Fate /\ k.durable = f.durable /\ k.failed = f.failed
        /\ k.withdrawn = Plus(f.withdrawn, withdrawn) /\ k.dropped = Plus(f.dropped, lost)
    BY AfterFacts, NoKeys
  <2> QED BY <2>1 DEF Plus
<1> HIDE DEF h, k
<1>4. h = k
  BY <1>1, <1>2, <1>3 DEF Fate
<1> QED BY <1>4 DEF g, h, k

LEMMA AfterNothing ==
  ASSUME NEW f \in Fate
  PROVE  After(f, {}, {}) = f
<1> DEFINE k == After(f, {}, {})
<1>1. /\ k \in Fate /\ k.durable = f.durable /\ k.failed = f.failed
      /\ k.withdrawn = f.withdrawn \cup {} /\ k.dropped = f.dropped \cup {}
  <2>1. /\ k \in Fate /\ k.durable = f.durable /\ k.failed = f.failed
        /\ k.withdrawn = Plus(f.withdrawn, {}) /\ k.dropped = Plus(f.dropped, {})
    BY AfterFacts, NoKeys
  <2> QED BY <2>1 DEF Plus
<1> HIDE DEF k
<1>2. k = f
  BY <1>1 DEF Fate
<1> QED BY <1>2 DEF k

LEMMA LaunchedFacts ==
  ASSUME NEW chunk \in Chunk, NEW owner \in Submitter \cup {"recorder"}
  PROVE  /\ NewUpload(chunk, owner) \in Upload
         /\ NewUpload(chunk, owner).chunk = chunk
         /\ NewUpload(chunk, owner).owner = owner
<1>1. 0 \in 0..REPLAY_RETRY_MAX_ATTEMPTS
  BY ReplayAssumption
<1> QED BY <1>1 DEF NewUpload, Upload, Leg

LEMMA SentFacts ==
  ASSUME NEW ups, SentApart(ups), NEW u, u.chunk.key \notin Sent(ups)
  PROVE  /\ SentApart(ups \cup {u})
         /\ Sent(ups \cup {u}) = Sent(ups) \cup {u.chunk.key}
<1>1. \A v \in ups : v.chunk.key # u.chunk.key
  BY DEF Sent
<1>2. SentApart(ups \cup {u})
  BY <1>1 DEF SentApart
<1>3. Sent(ups \cup {u}) = Sent(ups) \cup {u.chunk.key}
  BY DEF Sent
<1> QED BY <1>2, <1>3

(* A chunk freshly cut is buffered, sent or lost. *)
LEMMA DispatchPlaces ==
  ASSUME NEW keys, NEW r, RecInv(r, keys), AccountInv(r), HasTail(r),
         NEW sub, NEW ups, NEW f, PlacesInv(r.buffered, sub, ups, f, keys)
  PROVE  PlacesInv(Dispatch(r).buffered, sub, ups \cup Launched(r),
                   After(f, Lost(r), {}), keys \cup {CutChunk(r).key})
<1> DEFINE chunk == CutChunk(r)
           key == chunk.key
           c == Cut(r)
           b == r.buffered
           held == Held(b)
           wait == Waiting(sub)
           sent == Sent(ups)
<1>1. chunk \in Chunk /\ key \in Key /\ key \notin keys /\ r \in ReplayRecorder
  BY CutChunkFacts DEF RecInv
<1>2. /\ c \in ReplayRecorder /\ AccountInv(c) /\ c.buffered = b
      /\ c.bufferedBytes = r.bufferedBytes /\ c.currentClip = r.currentClip
  BY <1>1, CutInv, CutAccount DEF RecInv
<1>3. Room(c, chunk) <=> Room(r, chunk)
  BY <1>2 DEF Room
<1>4. /\ f \in Fate /\ ups \in SUBSET Upload /\ sub \in [Submitter -> Seq(Chunk)]
      /\ ListsApart(ClipChunks(b)) /\ WaitingApart(sub) /\ SentApart(ups)
      /\ Apart(held, wait, sent, f.durable, f.failed, f.withdrawn, f.dropped, keys)
  BY DEF PlacesInv
<1>5. key \notin held /\ key \notin sent
  BY <1>1, <1>4 DEF Apart
<1> HIDE DEF chunk, c
<1>6. CASE ~Reviewing(r)
  <2> DEFINE u == NewUpload(chunk, "recorder")
  <2>1. Launched(r) = {u} /\ Lost(r) = {} /\ Dispatch(r) = c
    BY <1>6 DEF Launched, Lost, Dispatch, c, chunk
  <2>2. u \in Upload /\ u.chunk = chunk
    BY <1>1, LaunchedFacts
  <2> HIDE DEF u
  <2>3. SentApart(ups \cup {u}) /\ Sent(ups \cup {u}) = sent \cup {key}
    BY <1>4, <1>5, <2>2, SentFacts
  <2>4. Apart(held, wait, sent \cup {key}, f.durable, f.failed, f.withdrawn, f.dropped,
              keys \cup {key})
    <3> HIDE DEF held, wait, sent, key
    <3> QED BY <1>1, <1>4, ApartNewHeld
  <2>5. After(f, {}, {}) = f
    BY <1>4, AfterNothing
  <2>6. PlacesInv(b, sub, ups \cup {u}, f, keys \cup {key})
    BY <1>4, <2>2, <2>3, <2>4 DEF PlacesInv
  <2> QED BY <1>2, <2>1, <2>5, <2>6 DEF chunk
<1>7. CASE Reviewing(r) /\ Room(r, chunk)
  <2> DEFINE w == WithChunk(c, chunk)
  <2>1. Launched(r) = {} /\ Lost(r) = {} /\ Dispatch(r).buffered = w
    BY <1>2, <1>3, <1>7 DEF Launched, Lost, Dispatch, BufferChunk, c, chunk, ReplayRecorder
  <2>2. c.currentClip # NoClip
    BY <1>3, <1>7 DEF Room
  <2>3. PICK at \in 1..Len(b) : /\ w[at] = Grown(b[at], chunk)
                                /\ \A i \in 1..Len(b) : i # at => w[i] = b[i]
    BY <1>1, <1>2, <2>2, WithChunkFacts DEF AccountInv
  <2>4. w \in Seq(Clip) /\ Len(w) = Len(b)
    BY <1>1, <1>2, <2>2, WithChunkFacts DEF AccountInv
  <2>5. b \in Seq(Clip) /\ b[at] \in Clip
    <3>1. b \in Seq(Clip)
      BY <1>1 DEF ReplayRecorder
    <3> QED BY <3>1, ElementOfSeq
  <2> HIDE DEF w, b
  <2>6. w[at].chunks = Append(b[at].chunks, chunk)
    <3> DEFINE clip == b[at]
    <3>1. clip \in Clip
      BY <2>5
    <3> HIDE DEF clip
    <3>2. Grown(clip, chunk).chunks = Append(clip.chunks, chunk)
      BY <1>1, <3>1, GrownFacts
    <3> QED BY <2>3, <3>2 DEF clip
  <2>7. ListsApart(ClipChunks(w)) /\ Held(w) = held \cup {key}
    BY <1>1, <1>4, <1>5, <2>3, <2>4, <2>5, <2>6, HeldGrown
  <2>8. Apart(held \cup {key}, wait, sent, f.durable, f.failed, f.withdrawn, f.dropped,
              keys \cup {key})
    <3> HIDE DEF held, wait, sent, key
    <3> QED BY <1>1, <1>4, ApartNewHeld
  <2>9. After(f, {}, {}) = f
    BY <1>4, AfterNothing
  <2>10. PlacesInv(w, sub, ups, f, keys \cup {key})
    BY <1>4, <2>7, <2>8 DEF PlacesInv
  <2> QED BY <2>1, <2>9, <2>10 DEF chunk
<1>8. CASE Reviewing(r) /\ ~Room(r, chunk)
  <2>1. Launched(r) = {} /\ Lost(r) = {key} /\ Dispatch(r) = c
    BY <1>3, <1>8 DEF Launched, Lost, Dispatch, BufferChunk, c, chunk
  <2> DEFINE g == After(f, {key}, {})
  <2>2. /\ g \in Fate /\ g.durable = f.durable /\ g.failed = f.failed
        /\ g.withdrawn = f.withdrawn \cup {} /\ g.dropped = f.dropped \cup {key}
    <3>1. /\ g \in Fate /\ g.durable = f.durable /\ g.failed = f.failed
            /\ g.withdrawn = Plus(f.withdrawn, {}) /\ g.dropped = Plus(f.dropped, {key})
      BY <1>1, <1>4, AfterFacts, NoKeys
    <3> QED BY <3>1 DEF Plus
  <2> HIDE DEF g
  <2>3. Apart(held, wait, sent, f.durable, f.failed, f.withdrawn, f.dropped \cup {key},
              keys \cup {key})
    <3> HIDE DEF held, wait, sent, key
    <3> QED BY <1>1, <1>4, ApartNewHeld
  <2>4. f.withdrawn \cup {} = f.withdrawn
    OBVIOUS
  <2>5. PlacesInv(b, sub, ups, g, keys \cup {key})
    BY <1>4, <2>2, <2>3, <2>4 DEF PlacesInv
  <2> QED BY <1>2, <2>1, <2>5 DEF chunk, g
<1> QED BY <1>6, <1>7, <1>8

LEMMA StoppedPlaces ==
  ASSUME NEW keys, NEW r, RecInv(r, keys), AccountInv(r),
         NEW sub, NEW ups, NEW f, PlacesInv(r.buffered, sub, ups, f, keys)
  PROVE  /\ PlacesInv(Stopped(r).buffered, sub, ups \cup TailLaunched(r),
                      After(f, TailLost(r), {}), keys \cup TailKeys(r))
         /\ TailLost(r) \in SUBSET Key
<1>1. r \in ReplayRecorder /\ f \in Fate
  BY DEF RecInv, PlacesInv
<1>2. CASE HasTail(r)
  <2>1. Dispatch(r) \in ReplayRecorder /\ AccountInv(Dispatch(r))
    BY <1>2, DispatchInv, DispatchAccount DEF RecInv
  <2>2. Stopped(r).buffered = Dispatch(r).buffered
    BY <1>2, <2>1, TeardownAccount DEF Stopped
  <2>3. TailLost(r) \in SUBSET Key
    BY <1>2, CutChunkFacts DEF TailLost, Lost
  <2> QED BY <1>2, <2>2, <2>3, DispatchPlaces DEF TailLaunched, TailLost, TailKeys
<1>3. CASE ~HasTail(r)
  <2>1. Stopped(r).buffered = r.buffered
    BY <1>1, <1>3, TeardownAccount DEF Stopped
  <2>2. TailLaunched(r) = {} /\ TailLost(r) = {} /\ TailKeys(r) = {}
    BY <1>3 DEF TailLaunched, TailLost, TailKeys
  <2>3. After(f, {}, {}) = f
    BY <1>1, AfterNothing
  <2> QED BY <2>1, <2>2, <2>3
<1> QED BY <1>2, <1>3

(* Every clip of the buffer is withdrawn. *)
LEMMA WithdrawnPlaces ==
  ASSUME NEW keys, NEW b \in Seq(Clip), NEW sub, NEW ups, NEW f,
         PlacesInv(b, sub, ups, f, keys), keys \in SUBSET Key
  PROVE  PlacesInv(<<>>, sub, ups, After(f, {}, Held(b)), keys) /\ Held(b) \in SUBSET Key
<1> DEFINE held == Held(b)
           wait == Waiting(sub)
           sent == Sent(ups)
           g == After(f, {}, held)
<1>1. /\ f \in Fate
      /\ Apart(held, wait, sent, f.durable, f.failed, f.withdrawn, f.dropped, keys)
  BY DEF PlacesInv
<1>2. held \in SUBSET Key
  BY <1>1 DEF Apart
<1>3. /\ g \in Fate /\ g.durable = f.durable /\ g.failed = f.failed
      /\ g.withdrawn = f.withdrawn \cup held /\ g.dropped = f.dropped \cup {}
  <2>1. /\ g \in Fate /\ g.durable = f.durable /\ g.failed = f.failed
        /\ g.withdrawn = Plus(f.withdrawn, held) /\ g.dropped = Plus(f.dropped, {})
    BY <1>1, <1>2, AfterFacts, NoKeys
  <2> QED BY <2>1 DEF Plus
<1>4. Apart(held \ held, wait, sent, f.durable, f.failed, f.withdrawn \cup held, f.dropped, keys)
  <2> HIDE DEF held, wait, sent
  <2> QED BY <1>1, ApartWithdrawn
<1> HIDE DEF g
<1>5. held \ held = {} /\ f.dropped \cup {} = f.dropped
  OBVIOUS
<1>6. Apart({}, wait, sent, g.durable, g.failed, g.withdrawn, g.dropped, keys)
  <2> HIDE DEF held, wait, sent
  <2> QED BY <1>3, <1>4, <1>5
<1>7. PlacesInv(<<>>, sub, ups, g, keys)
  BY <1>3, <1>6, NothingHeld DEF PlacesInv
<1> QED BY <1>2, <1>7 DEF g

(* One clip is. *)
LEMMA RemovedPlaces ==
  ASSUME NEW keys, NEW b \in Seq(Clip), NEW sub, NEW ups, NEW f,
         PlacesInv(b, sub, ups, f, keys), keys \in SUBSET Key, NEW i \in 1..Len(b)
  PROVE  PlacesInv(RemoveAt(b, i), sub, ups, After(f, {}, KeysOf(b[i].chunks)), keys)
<1> DEFINE held == Held(b)
           wait == Waiting(sub)
           sent == Sent(ups)
           mine == KeysOf(b[i].chunks)
           g == After(f, {}, mine)
           c == RemoveAt(b, i)
<1>1. /\ f \in Fate /\ ListsApart(ClipChunks(b))
      /\ Apart(held, wait, sent, f.durable, f.failed, f.withdrawn, f.dropped, keys)
  BY DEF PlacesInv
<1>2. mine \subseteq held /\ mine \in SUBSET Key
  BY <1>1, HeldKeys DEF Apart
<1>3. /\ g \in Fate /\ g.durable = f.durable /\ g.failed = f.failed
      /\ g.withdrawn = f.withdrawn \cup mine /\ g.dropped = f.dropped \cup {}
  <2>1. /\ g \in Fate /\ g.durable = f.durable /\ g.failed = f.failed
        /\ g.withdrawn = Plus(f.withdrawn, mine) /\ g.dropped = Plus(f.dropped, {})
    BY <1>1, <1>2, AfterFacts, NoKeys
  <2> QED BY <2>1 DEF Plus
<1>4. Apart(held \ mine, wait, sent, f.durable, f.failed, f.withdrawn \cup mine, f.dropped, keys)
  <2> HIDE DEF held, wait, sent, mine
  <2> QED BY <1>1, <1>2, ApartWithdrawn
<1>5. ListsApart(ClipChunks(c)) /\ Held(c) = held \ mine
  BY <1>1, HeldRemoved
<1> HIDE DEF g, c
<1>6. f.dropped \cup {} = f.dropped
  OBVIOUS
<1>7. Apart(Held(c), wait, sent, g.durable, g.failed, g.withdrawn, g.dropped, keys)
  <2> HIDE DEF held, wait, sent, mine
  <2> QED BY <1>3, <1>4, <1>5, <1>6
<1>8. PlacesInv(c, sub, ups, g, keys)
  BY <1>3, <1>5, <1>7 DEF PlacesInv
<1> QED BY <1>8 DEF g, c

(* A clip without chunks changes no place. *)
LEMMA EmptyClipPlaces ==
  ASSUME NEW keys, NEW b \in Seq(Clip), NEW sub, NEW ups, NEW f,
         PlacesInv(b, sub, ups, f, keys), NEW clip \in Clip, clip.chunks = <<>>
  PROVE  PlacesInv(Append(b, clip), sub, ups, f, keys)
<1> DEFINE c == Append(b, clip)
           n == Len(b)
<1>1. /\ c \in Seq(Clip) /\ Len(c) = n + 1 /\ n \in Nat
      /\ \A j \in 1..n : c[j] = b[j]
      /\ c[n + 1] = clip
  BY AppendProperties, LenProperties
<1>2. Len(<<>>) = 0 /\ 1..0 = {}
  BY EmptySeq
<1> HIDE DEF c, n
<1>3. ASSUME NEW i \in 1..n + 1, NEW j \in 1..Len(c[i].chunks) PROVE i \in 1..n /\ c[i] = b[i]
  <2>1. i # n + 1
    BY <1>1, <1>2
  <2> QED BY <1>1, <2>1
<1>4. ListsApart(ClipChunks(b))
  BY DEF PlacesInv
<1>5. ASSUME NEW i1 \in 1..n + 1, NEW i2 \in 1..n + 1,
             NEW j1 \in 1..Len(c[i1].chunks), NEW j2 \in 1..Len(c[i2].chunks),
             c[i1].chunks[j1].key = c[i2].chunks[j2].key
      PROVE  i1 = i2 /\ j1 = j2
  <2>1. i1 \in 1..n /\ c[i1] = b[i1] /\ i2 \in 1..n /\ c[i2] = b[i2]
    BY <1>3
  <2> QED BY <1>4, <1>5, <2>1, ClipsApart DEF n
<1>6. ListsApart(ClipChunks(c))
  BY <1>1, <1>5, ClipsApart
<1>7. ASSUME NEW k \in Held(c) PROVE k \in Held(b)
  <2>1. PICK i \in 1..n + 1 : \E j \in 1..Len(c[i].chunks) : c[i].chunks[j].key = k
    BY <1>1, HeldKeys
  <2>2. PICK j \in 1..Len(c[i].chunks) : c[i].chunks[j].key = k
    BY <2>1
  <2>3. i \in 1..n /\ c[i] = b[i]
    BY <1>3
  <2> QED BY <2>2, <2>3, HeldKeys DEF n
<1>8. ASSUME NEW k \in Held(b) PROVE k \in Held(c)
  <2>1. PICK i \in 1..n : \E j \in 1..Len(b[i].chunks) : b[i].chunks[j].key = k
    BY HeldKeys DEF n
  <2>2. PICK j \in 1..Len(b[i].chunks) : b[i].chunks[j].key = k
    BY <2>1
  <2>3. i \in 1..n + 1 /\ c[i] = b[i]
    BY <1>1
  <2> QED BY <1>1, <2>2, <2>3, HeldKeys
<1>9. Held(c) = Held(b)
  BY <1>7, <1>8
<1> QED BY <1>6, <1>9 DEF PlacesInv, c

LEMMA TailFacts ==
  ASSUME NEW list \in Seq(Chunk), list # <<>>, ListApart(list)
  PROVE  /\ Head(list) \in Chunk /\ Tail(list) \in Seq(Chunk) /\ ListApart(Tail(list))
         /\ Head(list).key \in KeysOf(list)
         /\ KeysOf(Tail(list)) = KeysOf(list) \ {Head(list).key}
<1> DEFINE h == Head(list)
           t == Tail(list)
           n == Len(list)
<1>1. h \in Chunk /\ t \in Seq(Chunk) /\ Len(t) = n - 1
      /\ \A i \in 1..Len(t) : t[i] = list[i + 1]
  BY HeadTailProperties
<1>2. n \in Nat /\ n # 0
  BY LenProperties, EmptySeq
<1>3. h = list[1]
  OBVIOUS
<1> HIDE DEF h, t, n
<1>4. \A i \in 1..n - 1 : t[i] = list[i + 1] /\ i + 1 \in 1..n /\ i + 1 # 1
  BY <1>1, <1>2
<1>5. 1 \in 1..n
  BY <1>2
<1>6. ListApart(t)
  <2> SUFFICES ASSUME NEW a \in 1..n - 1, NEW b \in 1..n - 1, t[a].key = t[b].key PROVE a = b
    BY <1>1 DEF ListApart
  <2>1. a + 1 = b + 1
    BY <1>4 DEF ListApart, n
  <2> QED BY <2>1
<1>7. h.key \in KeysOf(list)
  BY <1>3, <1>5, ListKeys DEF n
<1>8. ASSUME NEW k \in KeysOf(t) PROVE k \in KeysOf(list) /\ k # h.key
  <2>1. PICK j \in 1..n - 1 : t[j].key = k
    BY <1>1, ListKeys
  <2>2. list[j + 1].key = k /\ j + 1 \in 1..n /\ j + 1 # 1
    BY <1>4, <2>1
  <2>3. k \in KeysOf(list)
    BY <2>2, ListKeys DEF n
  <2> QED BY <1>3, <1>5, <2>2, <2>3 DEF ListApart, n
<1>9. ASSUME NEW k \in KeysOf(list), k # h.key PROVE k \in KeysOf(t)
  <2>1. PICK j \in 1..n : list[j].key = k
    BY ListKeys DEF n
  <2>2. j # 1
    BY <1>3, <1>9, <2>1
  <2>3. j - 1 \in 1..n - 1 /\ (j - 1) + 1 = j
    BY <1>2, <2>2
  <2>4. t[j - 1].key = k
    BY <1>4, <2>1, <2>3
  <2> QED BY <1>1, <2>3, <2>4, ListKeys
<1> QED BY <1>1, <1>6, <1>7, <1>8, <1>9 DEF h, t

(* The keys waiting in the other calls of submit(). *)
Others(sub, s) == UNION {KeysOf(sub[t]) : t \in Submitter \ {s}}

LEMMA WaitingFacts ==
  ASSUME NEW sub, NEW s \in Submitter, NEW list, NEW sub2,
         sub2[s] = list, \A t \in Submitter \ {s} : sub2[t] = sub[t]
  PROVE  /\ Waiting(sub) = Plus(Others(sub, s), KeysOf(sub[s]))
         /\ Waiting(sub2) = Plus(Others(sub, s), KeysOf(list))
BY DEF Waiting, Others, Plus

LEMMA OthersKeys ==
  ASSUME NEW sub \in [Submitter -> Seq(Chunk)], NEW s \in Submitter, NEW t \in Submitter, t # s,
         NEW j \in 1..Len(sub[t])
  PROVE  sub[t][j].key \in Others(sub, s)
<1>1. sub[t] \in Seq(Chunk)
  OBVIOUS
<1>2. sub[t][j].key \in KeysOf(sub[t])
  BY <1>1, ListKeys
<1> QED BY <1>2 DEF Others

(* A call of submit() takes a list of keys no other call has. *)
LEMMA WaitingTakes ==
  ASSUME NEW sub \in [Submitter -> Seq(Chunk)], NEW s \in Submitter, NEW list \in Seq(Chunk),
         WaitingApart(sub), ListApart(list), KeysOf(list) \cap Others(sub, s) = {}
  PROVE  WaitingApart([sub EXCEPT ![s] = list])
<1> DEFINE sub2 == [sub EXCEPT ![s] = list]
<1>1. sub2[s] = list /\ \A t \in Submitter : t # s => sub2[t] = sub[t]
  OBVIOUS
<1> HIDE DEF sub2
<1>2. ASSUME NEW j \in 1..Len(list), NEW t \in Submitter, t # s, NEW i \in 1..Len(sub[t])
      PROVE  list[j].key # sub[t][i].key
  <2>1. list[j].key \in KeysOf(list)
    BY ListKeys
  <2>2. sub[t][i].key \in Others(sub, s)
    BY <1>2, OthersKeys
  <2> QED BY <2>1, <2>2
<1>3. ASSUME NEW s1 \in Submitter, NEW s2 \in Submitter,
             NEW j1 \in 1..Len(sub2[s1]), NEW j2 \in 1..Len(sub2[s2]),
             sub2[s1][j1].key = sub2[s2][j2].key
      PROVE  s1 = s2 /\ j1 = j2
  <2>1. CASE s1 = s /\ s2 = s
    BY <1>1, <1>3, <2>1 DEF ListApart
  <2>2. CASE s1 = s /\ s2 # s
    <3>1. sub2[s1] = list /\ sub2[s2] = sub[s2]
      BY <1>1, <2>2
    <3> QED BY <1>2, <1>3, <2>2, <3>1
  <2>3. CASE s1 # s /\ s2 = s
    <3>1. sub2[s2] = list /\ sub2[s1] = sub[s1]
      BY <1>1, <2>3
    <3> QED BY <1>2, <1>3, <2>3, <3>1
  <2>4. CASE s1 # s /\ s2 # s
    <3>1. sub2[s1] = sub[s1] /\ sub2[s2] = sub[s2]
      BY <1>1, <2>4
    <3> QED BY <1>3, <3>1 DEF WaitingApart
  <2> QED BY <2>1, <2>2, <2>3, <2>4
<1>4. WaitingApart(sub2)
  BY <1>3 DEF WaitingApart
<1> QED BY <1>4 DEF sub2

LEMMA SubmittedPlaces ==
  ASSUME NEW keys, NEW r \in ReplayRecorder, NEW sub, NEW ups, NEW f,
         PlacesInv(r.buffered, sub, ups, f, keys), NEW s \in Submitter, sub[s] = <<>>,
         NEW chunks, chunks = BufferedChunks(r)
  PROVE  /\ chunks = <<>> => PlacesInv(<<>>, sub, ups, f, keys)
         /\ chunks # <<>> => PlacesInv(<<>>, [sub EXCEPT ![s] = Tail(chunks)],
                                       ups \cup {NewUpload(Head(chunks), s)}, f, keys)
<1> DEFINE held == Held(r.buffered)
           wait == Waiting(sub)
           sent == Sent(ups)
<1>1. /\ f \in Fate /\ ups \in SUBSET Upload /\ sub \in [Submitter -> Seq(Chunk)]
      /\ ListsApart(ClipChunks(r.buffered)) /\ WaitingApart(sub) /\ SentApart(ups)
      /\ Apart(held, wait, sent, f.durable, f.failed, f.withdrawn, f.dropped, keys)
  BY DEF PlacesInv
<1>2. chunks \in Seq(Chunk) /\ KeysOf(chunks) = held /\ ListApart(chunks)
  BY <1>1, BufferedChunksFacts
<1>3. <<>> \in Seq(Chunk) /\ Len(<<>>) = 0 /\ 1..0 = {}
  BY EmptySeq
<1>4. KeysOf(<<>>) = {}
  BY <1>3, ListKeys
<1>5. ASSUME chunks = <<>> PROVE PlacesInv(<<>>, sub, ups, f, keys)
  <2>1. held = {}
    BY <1>2, <1>4, <1>5
  <2> QED BY <1>1, <2>1, NothingHeld DEF PlacesInv
<1>6. ASSUME chunks # <<>>
      PROVE  PlacesInv(<<>>, [sub EXCEPT ![s] = Tail(chunks)],
                       ups \cup {NewUpload(Head(chunks), s)}, f, keys)
  <2> DEFINE h == Head(chunks)
             t == Tail(chunks)
             u == NewUpload(h, s)
             sub2 == [sub EXCEPT ![s] = t]
  <2>1. /\ h \in Chunk /\ t \in Seq(Chunk) /\ ListApart(t) /\ h.key \in held
        /\ KeysOf(t) = held \ {h.key}
    BY <1>2, <1>6, TailFacts
  <2> HIDE DEF h, t
  <2>2. u \in Upload /\ u.chunk = h
    BY <2>1, LaunchedFacts
  <2>3. h.key \notin sent /\ held \cap wait = {}
    BY <1>1, <2>1 DEF Apart
  <2>4. /\ sub2 \in [Submitter -> Seq(Chunk)]
        /\ wait = Plus(Others(sub, s), KeysOf(sub[s]))
        /\ Waiting(sub2) = Plus(Others(sub, s), KeysOf(t))
    <3>1. /\ sub2 \in [Submitter -> Seq(Chunk)] /\ sub2[s] = t
          /\ \A o \in Submitter \ {s} : sub2[o] = sub[o]
      BY <1>1, <2>1
    <3> HIDE DEF sub2, wait
    <3>2. /\ Waiting(sub) = Plus(Others(sub, s), KeysOf(sub[s]))
          /\ Waiting(sub2) = Plus(Others(sub, s), KeysOf(t))
      BY <3>1, WaitingFacts
    <3> QED BY <3>1, <3>2 DEF wait
  <2> HIDE DEF u
  <2>5. Waiting(sub2) = wait \cup (held \ {h.key})
    BY <1>4, <2>1, <2>4 DEF Plus
  <2>6. KeysOf(t) \cap Others(sub, s) = {}
    BY <2>1, <2>3, <2>4 DEF Plus
  <2>7. WaitingApart(sub2)
    BY <1>1, <2>1, <2>6, WaitingTakes
  <2> HIDE DEF sub2
  <2>8. SentApart(ups \cup {u}) /\ Sent(ups \cup {u}) = sent \cup {h.key}
    BY <1>1, <2>2, <2>3, SentFacts
  <2>9. Apart({}, wait \cup (held \ {h.key}), sent \cup {h.key}, f.durable, f.failed,
              f.withdrawn, f.dropped, keys)
    <3> HIDE DEF held, wait, sent
    <3> QED BY <1>1, <2>1, ApartSubmitted
  <2>10. PlacesInv(<<>>, sub2, ups \cup {u}, f, keys)
    BY <1>1, <2>2, <2>4, <2>5, <2>7, <2>8, <2>9, NothingHeld DEF PlacesInv
  <2> QED BY <2>10 DEF sub2, u, h, t
<1> QED BY <1>5, <1>6

LEMMA SentOver ==
  ASSUME NEW ups, SentApart(ups), NEW u \in ups
  PROVE  /\ SentApart(ups \ {u})
         /\ Sent(ups \ {u}) = Sent(ups) \ {u.chunk.key}
BY DEF SentApart, Sent

(* An upload going on: the same chunk, another leg or attempt. *)
LEMMA SentOn ==
  ASSUME NEW ups, SentApart(ups), NEW u \in ups, NEW v, v.chunk = u.chunk
  PROVE  /\ SentApart((ups \ {u}) \cup {v})
         /\ Sent((ups \ {u}) \cup {v}) = Sent(ups)
BY DEF SentApart, Sent

(* The fate of a chunk whose upload is over. *)
LEMMA FateFacts ==
  ASSUME NEW f \in Fate, NEW k \in Key
  PROVE  LET d == [f EXCEPT !.durable = @ \cup {k}]
             g == [f EXCEPT !.failed = @ \cup {k}]
         IN  /\ d \in Fate /\ d.durable = Plus(f.durable, {k}) /\ d.failed = f.failed
             /\ d.withdrawn = f.withdrawn /\ d.dropped = f.dropped
             /\ g \in Fate /\ g.durable = f.durable /\ g.failed = Plus(f.failed, {k})
             /\ g.withdrawn = f.withdrawn /\ g.dropped = f.dropped
<1> DEFINE x == Plus(f.durable, {k})
           y == Plus(f.failed, {k})
           d == [f EXCEPT !.durable = x]
           g == [f EXCEPT !.failed = y]
<1>1. x \in SUBSET Key /\ y \in SUBSET Key
  BY DEF Fate, Plus
<1>2. d = [f EXCEPT !.durable = @ \cup {k}] /\ g = [f EXCEPT !.failed = @ \cup {k}]
  BY DEF Plus, Fate
<1> HIDE DEF x, y
<1>3. /\ d \in Fate /\ d.durable = x /\ d.failed = f.failed
      /\ d.withdrawn = f.withdrawn /\ d.dropped = f.dropped
      /\ g \in Fate /\ g.durable = f.durable /\ g.failed = y
      /\ g.withdrawn = f.withdrawn /\ g.dropped = f.dropped
  BY <1>1 DEF Fate
<1> HIDE DEF d, g
<1> QED BY <1>2, <1>3 DEF x, y

(* One upload is over and another may begin: who holds which key. *)
LEMMA OverPlaces ==
  ASSUME NEW keys, keys \in SUBSET Key, NEW b, NEW sub, NEW ups, NEW f,
         PlacesInv(b, sub, ups, f, keys), NEW u \in ups, NEW sub2, NEW ups2,
         sub2 \in [Submitter -> Seq(Chunk)], ups2 \in SUBSET Upload,
         WaitingApart(sub2), SentApart(ups2),
         \/ Waiting(sub2) = Waiting(sub) /\ Sent(ups2) = Sent(ups) \ {u.chunk.key}
         \/ \E h \in Waiting(sub) : /\ Waiting(sub2) = Waiting(sub) \ {h}
                                    /\ Sent(ups2) = (Sent(ups) \cup {h}) \ {u.chunk.key}
  PROVE  /\ PlacesInv(b, sub2, ups2, [f EXCEPT !.durable = @ \cup {u.chunk.key}], keys)
         /\ PlacesInv(b, sub2, ups2, [f EXCEPT !.failed = @ \cup {u.chunk.key}], keys)
<1> DEFINE k == u.chunk.key
           held == Held(b)
           wait == Waiting(sub)
           sent == Sent(ups)
           d == [f EXCEPT !.durable = @ \cup {k}]
           g == [f EXCEPT !.failed = @ \cup {k}]
<1>1. /\ f \in Fate /\ ListsApart(ClipChunks(b))
      /\ Apart(held, wait, sent, f.durable, f.failed, f.withdrawn, f.dropped, keys)
  BY DEF PlacesInv
<1>2. k \in sent
  BY DEF Sent
<1>3. k \in Key
  BY <1>1, <1>2 DEF Apart
<1>4. /\ d \in Fate /\ d.durable = Plus(f.durable, {k}) /\ d.failed = f.failed
      /\ d.withdrawn = f.withdrawn /\ d.dropped = f.dropped
      /\ g \in Fate /\ g.durable = f.durable /\ g.failed = Plus(f.failed, {k})
      /\ g.withdrawn = f.withdrawn /\ g.dropped = f.dropped
  BY <1>1, <1>3, FateFacts
<1> HIDE DEF d, g
<1>5. /\ Apart(held, Waiting(sub2), Sent(ups2), Plus(f.durable, {k}), f.failed, f.withdrawn,
               f.dropped, keys)
      /\ Apart(held, Waiting(sub2), Sent(ups2), f.durable, Plus(f.failed, {k}), f.withdrawn,
               f.dropped, keys)
  <2>1. CASE Waiting(sub2) = wait /\ Sent(ups2) = sent \ {k}
    <3> HIDE DEF held, wait, sent, k
    <3>1. /\ Apart(held, wait, sent \ {k}, f.durable \cup {k}, f.failed, f.withdrawn,
                   f.dropped, keys)
          /\ Apart(held, wait, sent \ {k}, f.durable, f.failed \cup {k}, f.withdrawn,
                   f.dropped, keys)
      BY <1>1, <1>2, ApartOver
    <3> QED BY <2>1, <3>1 DEF Plus
  <2>2. CASE \E h \in wait : Waiting(sub2) = wait \ {h} /\ Sent(ups2) = (sent \cup {h}) \ {k}
    <3>1. PICK h \in wait : Waiting(sub2) = wait \ {h} /\ Sent(ups2) = (sent \cup {h}) \ {k}
      BY <2>2
    <3> HIDE DEF held, wait, sent, k
    <3>2. Apart(held, wait \ {h}, sent \cup {h}, f.durable, f.failed, f.withdrawn, f.dropped, keys)
      BY <1>1, ApartNext
    <3> DEFINE left == wait \ {h}
               more == sent \cup {h}
    <3>3. k \in more
      BY <1>2
    <3>4. Apart(held, left, more, f.durable, f.failed, f.withdrawn, f.dropped, keys)
      BY <3>2
    <3>5. Waiting(sub2) = left /\ Sent(ups2) = more \ {k}
      BY <3>1
    <3> HIDE DEF left, more
    <3>6. /\ Apart(held, left, more \ {k}, f.durable \cup {k}, f.failed, f.withdrawn,
                   f.dropped, keys)
          /\ Apart(held, left, more \ {k}, f.durable, f.failed \cup {k}, f.withdrawn,
                   f.dropped, keys)
      BY <3>3, <3>4, ApartOver
    <3> QED BY <3>5, <3>6 DEF Plus
  <2> QED BY <2>1, <2>2
<1>6. PlacesInv(b, sub2, ups2, d, keys) /\ PlacesInv(b, sub2, ups2, g, keys)
  BY <1>1, <1>4, <1>5 DEF PlacesInv
<1> QED BY <1>6 DEF d, g

LEMMA UploadDonePlaces ==
  ASSUME NEW keys, keys \in SUBSET Key, NEW b,
         PlacesInv(b, submits, uploads, fate, keys), NEW u \in uploads, UploadDone(u)
  PROVE  /\ PlacesInv(b, submits', uploads', [fate EXCEPT !.durable = @ \cup {u.chunk.key}], keys)
         /\ PlacesInv(b, submits', uploads', [fate EXCEPT !.failed = @ \cup {u.chunk.key}], keys)
<1>1. /\ uploads \in SUBSET Upload /\ submits \in [Submitter -> Seq(Chunk)]
      /\ WaitingApart(submits) /\ SentApart(uploads)
      /\ Waiting(submits) \cap Sent(uploads) = {}
  BY DEF PlacesInv, Apart
<1>2. SentApart(uploads \ {u}) /\ Sent(uploads \ {u}) = Sent(uploads) \ {u.chunk.key}
  BY <1>1, SentOver
<1>3. CASE submits' = submits /\ uploads' = uploads \ {u}
  <2>1. uploads' \in SUBSET Upload /\ submits' \in [Submitter -> Seq(Chunk)]
    BY <1>1, <1>3
  <2> QED BY <1>1, <1>2, <1>3, <2>1, OverPlaces
<1>4. CASE /\ u.owner \in Submitter /\ submits[u.owner] # <<>>
           /\ uploads' = (uploads \ {u}) \cup {NewUpload(Head(submits[u.owner]), u.owner)}
           /\ submits' = [submits EXCEPT ![u.owner] = Tail(@)]
  <2> DEFINE s == u.owner
             list == submits[s]
             h == Head(list)
             v == NewUpload(h, s)
             ups2 == (uploads \ {u}) \cup {v}
             sub2 == [submits EXCEPT ![s] = Tail(list)]
  <2>1. s \in Submitter /\ list \in Seq(Chunk) /\ list # <<>>
        /\ uploads' = ups2 /\ submits' = sub2
    BY <1>1, <1>4
  <2> HIDE DEF s
  <2>2. ListApart(list)
    BY <1>1, <2>1 DEF WaitingApart, ListApart
  <2>3. /\ h \in Chunk /\ Tail(list) \in Seq(Chunk) /\ ListApart(Tail(list))
        /\ h.key \in KeysOf(list) /\ KeysOf(Tail(list)) = KeysOf(list) \ {h.key}
    <3> HIDE DEF list
    <3> QED BY <2>1, <2>2, TailFacts
  <2>4. /\ sub2 \in [Submitter -> Seq(Chunk)]
        /\ Waiting(submits) = Plus(Others(submits, s), KeysOf(list))
        /\ Waiting(sub2) = Plus(Others(submits, s), KeysOf(Tail(list)))
    <3> DEFINE left == Tail(list)
    <3>1. /\ sub2 \in [Submitter -> Seq(Chunk)] /\ sub2[s] = left
          /\ \A o \in Submitter \ {s} : sub2[o] = submits[o]
      BY <1>1, <2>1, <2>3
    <3> HIDE DEF sub2, left
    <3>2. /\ Waiting(submits) = Plus(Others(submits, s), KeysOf(submits[s]))
          /\ Waiting(sub2) = Plus(Others(submits, s), KeysOf(left))
      BY <2>1, <3>1, WaitingFacts
    <3> QED BY <3>1, <3>2 DEF left
  <2>5. KeysOf(list) \cap Others(submits, s) = {}
    <3> SUFFICES ASSUME NEW k \in KeysOf(list), k \in Others(submits, s) PROVE FALSE
      OBVIOUS
    <3>1. PICK t \in Submitter \ {s} : k \in KeysOf(submits[t])
      BY DEF Others
    <3>2. submits[t] \in Seq(Chunk)
      BY <1>1
    <3>3. PICK i \in 1..Len(submits[t]) : submits[t][i].key = k
      BY <3>1, <3>2, ListKeys
    <3>4. PICK j \in 1..Len(list) : list[j].key = k
      BY <2>1, ListKeys
    <3> QED BY <1>1, <2>1, <3>3, <3>4 DEF WaitingApart
  <2>6. WaitingApart(sub2)
    <3>1. KeysOf(Tail(list)) \cap Others(submits, s) = {}
      BY <2>3, <2>5
    <3> QED BY <1>1, <2>1, <2>3, <3>1, WaitingTakes
  <2>7. v \in Upload /\ v.chunk = h
    BY <2>1, <2>3, LaunchedFacts
  <2> HIDE DEF h, v, list, sub2
  <2>8. h.key \in Waiting(submits) /\ h.key \notin Sent(uploads)
    BY <1>1, <2>3, <2>4 DEF Plus
  <2>9. /\ SentApart(ups2) /\ Sent(ups2) = (Sent(uploads) \ {u.chunk.key}) \cup {h.key}
    <3> DEFINE rest == uploads \ {u}
    <3>1. v.chunk.key \notin Sent(rest)
      BY <1>2, <2>7, <2>8
    <3> HIDE DEF rest
    <3>2. SentApart(rest \cup {v}) /\ Sent(rest \cup {v}) = Sent(rest) \cup {v.chunk.key}
      BY <1>2, <3>1, SentFacts DEF rest
    <3> QED BY <1>2, <2>7, <3>2 DEF rest
  <2>10. u.chunk.key \in Sent(uploads)
    BY DEF Sent
  <2>11. Sent(ups2) = (Sent(uploads) \cup {h.key}) \ {u.chunk.key}
    BY <2>8, <2>9, <2>10
  <2>12. Waiting(sub2) = Waiting(submits) \ {h.key}
    BY <2>3, <2>4, <2>5 DEF Plus
  <2>13. ups2 \in SUBSET Upload
    BY <1>1, <2>7
  <2> HIDE DEF ups2
  <2>14. \E k \in Waiting(submits) : /\ Waiting(sub2) = Waiting(submits) \ {k}
                                     /\ Sent(ups2) = (Sent(uploads) \cup {k}) \ {u.chunk.key}
    BY <2>8, <2>11, <2>12
  <2> QED BY <2>1, <2>4, <2>6, <2>9, <2>13, <2>14, OverPlaces
<1> QED BY <1>3, <1>4 DEF UploadDone

-----------------------------------------------------------------------------
(* The actions.  What they preserve:                                       *)
BufferInv ==
  /\ AccountInv(rec)
  /\ PlacesInv(rec.buffered, submits, uploads, fate, cut)

LEMMA FreshBuffer ==
  ASSUME NEW m \in Mode,
         NEW sub, sub = [s \in Submitter |-> <<>>]
  PROVE  /\ AccountInv(Recorder(m))
         /\ PlacesInv(Recorder(m).buffered, sub, {}, EmptyFate, {})
<1>1. /\ Recorder(m).buffered = <<>> /\ Recorder(m).bufferedBytes = 0
      /\ Recorder(m).currentClip = NoClip
  BY DEF Recorder
<1>2. AccountInv(Recorder(m))
  BY <1>1, EmptyAccount
<1>3. <<>> \in Seq(Chunk) /\ Len(<<>>) = 0 /\ 1..0 = {}
  BY EmptySeq
<1>4. sub \in [Submitter -> Seq(Chunk)] /\ \A s \in Submitter : sub[s] = <<>>
  BY <1>3
<1>5. KeysOf(<<>>) = {}
  BY <1>3, ListKeys
<1>6. Waiting(sub) = {} /\ WaitingApart(sub)
  BY <1>3, <1>4, <1>5 DEF Waiting, WaitingApart
<1>7. Sent({}) = {} /\ SentApart({})
  BY DEF Sent, SentApart
<1>8. /\ EmptyFate \in Fate /\ EmptyFate.durable = {} /\ EmptyFate.failed = {}
      /\ EmptyFate.withdrawn = {} /\ EmptyFate.dropped = {}
  BY DEF EmptyFate, Fate
<1>9. Apart({}, {}, {}, {}, {}, {}, {}, {})
  BY DEF Apart
<1> QED BY <1>1, <1>2, <1>4, <1>6, <1>7, <1>8, <1>9, NothingHeld DEF PlacesInv

LEMMA InitBuffer == Init => BufferInv
<1> SUFFICES ASSUME Init PROVE BufferInv
  OBVIOUS
<1>1. PICK m \in Mode : rec = Recorder(m)
  BY DEF Init
<1>2. /\ submits = [s \in Submitter |-> <<>>] /\ uploads = {} /\ fate = EmptyFate /\ cut = {}
  BY DEF Init
<1> QED BY <1>1, <1>2, FreshBuffer DEF BufferInv

LEMMA ReloadBuffer == ASSUME Reload PROVE BufferInv'
<1>1. PICK m \in Mode : rec' = Recorder(m)
  BY DEF Reload, FreshPage
<1>2. /\ submits' = [s \in Submitter |-> <<>>] /\ uploads' = {} /\ fate' = EmptyFate /\ cut' = {}
  BY DEF Reload, FreshPage
<1> QED BY <1>1, <1>2, FreshBuffer DEF BufferInv

(* What submit(), discard(), a stop and a session change start with. *)
LEMMA StopFirstBuffer ==
  ASSUME IInv, BufferInv
  PROVE  LET r == IF isRecording(rec) THEN Stopped(rec) ELSE rec IN
         /\ r \in ReplayRecorder /\ AccountInv(r)
         /\ PlacesInv(r.buffered, submits, uploads \cup TailLaunched(rec),
                      After(fate, TailLost(rec), {}), cut \cup TailKeys(rec))
         /\ TailLost(rec) \in SUBSET Key
         /\ cut \cup TailKeys(rec) \in SUBSET Key
<1> DEFINE r == IF isRecording(rec) THEN Stopped(rec) ELSE rec
<1>1. RecInv(rec, cut) /\ AccountInv(rec) /\ rec \in ReplayRecorder /\ fate \in Fate
      /\ PlacesInv(rec.buffered, submits, uploads, fate, cut)
  BY DEF IInv, RecInv, BufferInv, PlacesInv
<1>2. r \in ReplayRecorder /\ cut \cup TailKeys(rec) \in SUBSET Key
  BY StopFirstInv DEF RecInv, KeysBelow
<1>3. CASE isRecording(rec)
  <2>1. AccountInv(Stopped(rec))
    BY <1>1, StoppedAccount
  <2>2. /\ PlacesInv(Stopped(rec).buffered, submits, uploads \cup TailLaunched(rec),
                     After(fate, TailLost(rec), {}), cut \cup TailKeys(rec))
        /\ TailLost(rec) \in SUBSET Key
    BY <1>1, StoppedPlaces
  <2> QED BY <1>2, <1>3, <2>1, <2>2
<1>4. CASE ~isRecording(rec)
  <2>1. ~HasTail(rec)
    BY <1>4, NoSpanFacts DEF HasTail, isRecording
  <2>2. TailLaunched(rec) = {} /\ TailLost(rec) = {} /\ TailKeys(rec) = {}
    BY <2>1 DEF TailLaunched, TailLost, TailKeys
  <2>3. After(fate, {}, {}) = fate
    BY <1>1, AfterNothing
  <2>4. uploads \cup {} = uploads /\ cut \cup {} = cut /\ {} \in SUBSET Key
    OBVIOUS
  <2> QED BY <1>1, <1>2, <1>4, <2>2, <2>3, <2>4
<1> QED BY <1>3, <1>4

LEMMA StopNowBuffer ==
  ASSUME IInv, BufferInv, StopNow, submits' = submits
  PROVE  BufferInv'
<1> DEFINE r == IF isRecording(rec) THEN Stopped(rec) ELSE rec
<1>1. /\ RecInv(rec, cut) /\ AccountInv(rec)
      /\ PlacesInv(rec.buffered, submits, uploads, fate, cut)
  BY DEF IInv, BufferInv
<1>2. AccountInv(Stopped(rec))
  BY <1>1, StoppedAccount
<1>3. PlacesInv(Stopped(rec).buffered, submits, uploads \cup TailLaunched(rec),
                After(fate, TailLost(rec), {}), cut \cup TailKeys(rec))
  BY <1>1, StoppedPlaces
<1>4. /\ rec' = Stopped(rec) /\ uploads' = uploads \cup TailLaunched(rec)
      /\ cut' = cut \cup TailKeys(rec) /\ fate' = After(fate, TailLost(rec), {})
  BY DEF StopNow, Recorded, After
<1> QED BY <1>2, <1>3, <1>4 DEF BufferInv

(* In review mode nothing is uploaded at once. *)
LEMMA ReviewLaunchesNothing == ASSUME Reviewing(rec) PROVE TailLaunched(rec) = {}
BY DEF TailLaunched, Launched

(* All clips withdrawn after the stop. *)
LEMMA StoppedThenWithdrawn ==
  ASSUME NEW r \in ReplayRecorder, NEW ups, NEW lost \in SUBSET Key, NEW keys \in SUBSET Key,
         fate \in Fate, PlacesInv(r.buffered, submits, ups, After(fate, lost, {}), keys)
  PROVE  PlacesInv(<<>>, submits, ups, After(fate, lost, BufferedKeys(r)), keys)
<1> DEFINE b == r.buffered
           g == After(fate, lost, {})
<1>1. b \in Seq(Clip) /\ BufferedKeys(r) = Held(b)
  BY DEF ReplayRecorder, BufferedKeys, Held
<1> HIDE DEF b
<1>2. PlacesInv(<<>>, submits, ups, After(g, {}, Held(b)), keys) /\ Held(b) \in SUBSET Key
  <2>1. PlacesInv(b, submits, ups, g, keys)
    BY DEF b
  <2> HIDE DEF g
  <2> QED BY <1>1, <2>1, WithdrawnPlaces
<1>3. After(g, {}, Held(b)) = After(fate, lost, Held(b))
  BY <1>2, AfterTwice
<1> QED BY <1>1, <1>2, <1>3

LEMMA DiscardBufferInv == ASSUME IInv, BufferInv, Discard PROVE BufferInv'
<1> DEFINE r == IF isRecording(rec) THEN Stopped(rec) ELSE rec
           keys == cut \cup TailKeys(rec)
           lost == TailLost(rec)
<1>1. /\ rec' = DiscardBuffer(r) /\ cut' = keys
      /\ fate' = After(fate, lost, BufferedKeys(r))
      /\ submits' = submits /\ uploads' = uploads
  BY DEF Discard, Recorded, After, sending
<1>2. /\ r \in ReplayRecorder /\ keys \in SUBSET Key /\ lost \in SUBSET Key
      /\ PlacesInv(r.buffered, submits, uploads \cup TailLaunched(rec), After(fate, lost, {}), keys)
  BY StopFirstBuffer
<1>3. uploads \cup TailLaunched(rec) = uploads
  BY ReviewLaunchesNothing DEF Discard
<1>4. fate \in Fate
  BY DEF BufferInv, PlacesInv
<1> HIDE DEF r, keys, lost
<1>5. PlacesInv(<<>>, submits, uploads, After(fate, lost, BufferedKeys(r)), keys)
  BY <1>2, <1>3, <1>4, StoppedThenWithdrawn
<1>6. AccountInv(DiscardBuffer(r)) /\ DiscardBuffer(r).buffered = <<>>
  BY <1>2, DiscardAccount DEF DiscardBuffer, ReplayRecorder
<1> QED BY <1>1, <1>5, <1>6 DEF BufferInv

LEMMA SubmitBufferInv ==
  ASSUME IInv, BufferInv, NEW s \in Submitter, Submit(s)
  PROVE  BufferInv'
<1> DEFINE r == IF isRecording(rec) THEN Stopped(rec) ELSE rec
           keys == cut \cup TailKeys(rec)
           lost == TailLost(rec)
           g == After(fate, lost, {})
           chunks == BufferedChunks(r)
<1>1. /\ rec' = DiscardBuffer(r) /\ cut' = keys /\ fate' = g /\ submits[s] = <<>>
      /\ \/ chunks = <<>> /\ submits' = submits /\ uploads' = uploads
         \/ /\ chunks # <<>>
            /\ uploads' = uploads \cup {NewUpload(Head(chunks), s)}
            /\ submits' = [submits EXCEPT ![s] = Tail(chunks)]
  BY DEF Submit, Drained, Recorded, After, sending, Busy
<1>2. /\ r \in ReplayRecorder
      /\ PlacesInv(r.buffered, submits, uploads \cup TailLaunched(rec), g, keys)
  BY StopFirstBuffer
<1>3. uploads \cup TailLaunched(rec) = uploads
  BY ReviewLaunchesNothing DEF Submit
<1> HIDE DEF r, keys, lost, g, chunks
<1>4. /\ chunks = <<>> => PlacesInv(<<>>, submits, uploads, g, keys)
      /\ chunks # <<>> => PlacesInv(<<>>, [submits EXCEPT ![s] = Tail(chunks)],
                                    uploads \cup {NewUpload(Head(chunks), s)}, g, keys)
  <2>1. PlacesInv(r.buffered, submits, uploads, g, keys)
    BY <1>2, <1>3
  <2>2. chunks = BufferedChunks(r)
    BY DEF chunks
  <2> QED BY <1>1, <1>2, <2>1, <2>2, SubmittedPlaces
<1>5. PlacesInv(<<>>, submits', uploads', g, keys)
  BY <1>1, <1>4
<1>6. AccountInv(DiscardBuffer(r)) /\ DiscardBuffer(r).buffered = <<>>
  BY <1>2, DiscardAccount DEF DiscardBuffer, ReplayRecorder
<1> QED BY <1>1, <1>5, <1>6 DEF BufferInv

(* start() up to its first await. *)
LEMMA StartCalledAccount ==
  ASSUME NEW r \in ReplayRecorder, AccountInv(r), NEW s, NEW trigger, StartCalled(r, s, trigger)
  PROVE  /\ AccountInv(rec')
         /\ rec'.buffered = IF ~StartRefused(r) /\ Abandons(r, s) THEN <<>> ELSE r.buffered
<1>1. CASE StartRefused(r)
  BY <1>1 DEF StartCalled
<1>2. CASE ~StartRefused(r)
  <2> DEFINE d == IF Abandons(r, s) THEN DiscardBuffer(r) ELSE r
  <2>1. rec' = [d EXCEPT !.boundSession = s, !.starting = TRUE]
    BY <1>2 DEF StartCalled
  <2>2. AccountInv(d)
    BY DiscardAccount
  <2>3. d.buffered = IF Abandons(r, s) THEN <<>> ELSE r.buffered
    BY DEF DiscardBuffer, ReplayRecorder
  <2>4. /\ rec'.buffered = d.buffered /\ rec'.bufferedBytes = d.bufferedBytes
        /\ rec'.clipCounter = d.clipCounter /\ rec'.currentClip = d.currentClip
    BY <2>1 DEF DiscardBuffer, ReplayRecorder
  <2> HIDE DEF d
  <2>5. AccountInv(rec')
    BY <2>2, <2>4, SameAccount
  <2> QED BY <1>2, <2>3, <2>4, <2>5
<1> QED BY <1>1, <1>2

LEMMA OnSessionChangedBuffer ==
  ASSUME IInv, BufferInv, NEW s \in 1..MaxSessions, OnSessionChanged(s)
  PROVE  BufferInv'
<1> DEFINE r == IF isRecording(rec) THEN Stopped(rec) ELSE rec
           keys == cut \cup TailKeys(rec)
           lost == TailLost(rec)
           ups == uploads \cup TailLaunched(rec)
<1>1. /\ StartCalled(r, s, "auto") /\ cut' = keys /\ uploads' = ups /\ submits' = submits
      /\ fate' = After(fate, lost, AbandonedKeys(r, s))
  BY DEF OnSessionChanged, Recorded, After
<1>2. /\ r \in ReplayRecorder /\ AccountInv(r) /\ keys \in SUBSET Key /\ lost \in SUBSET Key
      /\ PlacesInv(r.buffered, submits, ups, After(fate, lost, {}), keys)
  BY StopFirstBuffer
<1>3. fate \in Fate
  BY DEF BufferInv, PlacesInv
<1> HIDE DEF r, keys, lost, ups
<1>4. /\ AccountInv(rec')
      /\ rec'.buffered = IF ~StartRefused(r) /\ Abandons(r, s) THEN <<>> ELSE r.buffered
  BY <1>1, <1>2, StartCalledAccount
<1>5. PlacesInv(rec'.buffered, submits, ups, fate', keys)
  <2>1. CASE ~StartRefused(r) /\ Abandons(r, s)
    <3>1. AbandonedKeys(r, s) = BufferedKeys(r)
      BY <2>1 DEF AbandonedKeys
    <3>2. PlacesInv(<<>>, submits, ups, After(fate, lost, BufferedKeys(r)), keys)
      BY <1>2, <1>3, StoppedThenWithdrawn
    <3> QED BY <1>1, <1>4, <2>1, <3>1, <3>2
  <2>2. CASE ~(~StartRefused(r) /\ Abandons(r, s))
    <3>1. AbandonedKeys(r, s) = {}
      BY <2>2 DEF AbandonedKeys
    <3> QED BY <1>1, <1>2, <1>4, <2>2, <3>1
  <2> QED BY <2>1, <2>2
<1> QED BY <1>1, <1>4, <1>5 DEF BufferInv

(* A step that leaves the buffer and the uploads alone. *)
LEMMA BufferStands ==
  ASSUME BufferInv, AccountInv(rec'), rec'.buffered = rec.buffered,
         UNCHANGED <<submits, uploads, fate, cut>>
  PROVE  BufferInv'
BY DEF BufferInv

LEMMA StartManualBuffer == ASSUME IInv, BufferInv, StartManual PROVE BufferInv'
<1> DEFINE s == rec.boundSession
<1>1. StartCalled(rec, s, "manual") /\ UNCHANGED <<submits, uploads, fate, cut>>
  BY DEF StartManual, sending, history
<1>2. rec \in ReplayRecorder /\ AccountInv(rec)
  BY DEF IInv, RecInv, BufferInv
<1>3. ~Abandons(rec, s)
  BY DEF Abandons
<1> HIDE DEF s
<1>4. AccountInv(rec') /\ rec'.buffered = rec.buffered
  BY <1>1, <1>2, <1>3, StartCalledAccount
<1> QED BY <1>1, <1>4, BufferStands

LEMMA PolicyResolvesBuffer ==
  ASSUME IInv, BufferInv, NEW st \in starts, PolicyResolves(st)
  PROVE  BufferInv'
<1>1. rec \in ReplayRecorder /\ AccountInv(rec)
  BY DEF IInv, RecInv, BufferInv
<1>2. UNCHANGED <<submits, uploads, fate, cut>>
  BY DEF PolicyResolves, sending, history
<1>3. PICK m \in Mode : \/ rec' = [rec EXCEPT !.policy = m]
                        \/ rec' = [rec EXCEPT !.policy = m, !.starting = FALSE]
  BY DEF PolicyResolves
<1>4. /\ rec'.buffered = rec.buffered /\ rec'.bufferedBytes = rec.bufferedBytes
      /\ rec'.clipCounter = rec.clipCounter /\ rec'.currentClip = rec.currentClip
  BY <1>1, <1>3 DEF ReplayRecorder
<1>5. AccountInv(rec')
  BY <1>1, <1>4, SameAccount
<1> QED BY <1>2, <1>4, <1>5, BufferStands

LEMMA StartOverAccount ==
  ASSUME NEW r \in ReplayRecorder, AccountInv(r), NEW t, t = [r EXCEPT !.starting = FALSE]
  PROVE  AccountInv(t) /\ t.buffered = r.buffered
<1>1. /\ t.buffered = r.buffered /\ t.bufferedBytes = r.bufferedBytes
      /\ t.clipCounter = r.clipCounter /\ t.currentClip = r.currentClip
  BY DEF ReplayRecorder
<1> QED BY <1>1, SameAccount

LEMMA PreparedPlaces ==
  ASSUME NEW r \in ReplayRecorder, NEW s \in Nat, NEW keys, NEW sub, NEW ups, NEW f,
         PlacesInv(r.buffered, sub, ups, f, keys)
  PROVE  PlacesInv(Prepared(r, s).buffered, sub, ups, f, keys)
<1> DEFINE clip == [clipId |-> r.clipCounter, session |-> s, chunks |-> <<>>, bytes |-> 0]
<1>1. r.buffered \in Seq(Clip) /\ r.clipCounter \in Nat /\ <<>> \in Seq(Chunk)
  BY EmptySeq DEF ReplayRecorder
<1>2. clip \in Clip /\ clip.chunks = <<>>
  BY <1>1 DEF Clip
<1>3. Prepared(r, s).buffered = IF Reviewing(r) THEN Append(r.buffered, clip) ELSE r.buffered
  BY DEF Prepared, ReplayRecorder
<1> HIDE DEF clip
<1>4. PlacesInv(Append(r.buffered, clip), sub, ups, f, keys)
  BY <1>1, <1>2, EmptyClipPlaces
<1> QED BY <1>3, <1>4

LEMMA LoadedBuffer ==
  ASSUME IInv, BufferInv, NEW st \in starts, RecordingBegins(st) \/ RecordingFails(st)
  PROVE  BufferInv'
<1> DEFINE p == Prepared(rec, rec.boundSession)
<1>1. /\ rec \in ReplayRecorder /\ AccountInv(rec) /\ rec.boundSession \in Nat
      /\ PlacesInv(rec.buffered, submits, uploads, fate, cut)
      /\ RecInv(rec, cut) /\ ~isRecording(rec)
      /\ st.session = rec.boundSession /\ rec.boundSession # 0
  BY DEF IInv, StartsInv, RecInv, BufferInv, ReplayRecorder
<1>2. UNCHANGED <<submits, uploads, fate, cut>>
  BY DEF RecordingBegins, RecordingFails, sending, history
<1>3. p \in ReplayRecorder /\ AccountInv(p)
  BY <1>1, PreparedInv, PreparedAccount DEF RecInv
<1>4. PlacesInv(p.buffered, submits, uploads, fate, cut)
  BY <1>1, PreparedPlaces
<1>5. \/ rec' = [p EXCEPT !.starting = FALSE]
      \/ rec' = [rec EXCEPT !.starting = FALSE]
      \/ rec' = [Teardown(p) EXCEPT !.starting = FALSE]
  BY <1>1 DEF RecordingBegins, RecordingFails
<1>6. Teardown(p) \in ReplayRecorder
  BY <1>1, PreparedInv, TeardownInv DEF RecInv
<1>7. AccountInv(Teardown(p)) /\ Teardown(p).buffered = p.buffered
  BY <1>3, TeardownAccount
<1> DEFINE t == Teardown(p)
<1> HIDE DEF p
<1>8. CASE rec' = [p EXCEPT !.starting = FALSE]
  <2>1. AccountInv(rec') /\ rec'.buffered = p.buffered
    BY <1>3, <1>8, StartOverAccount
  <2> QED BY <1>2, <1>4, <2>1 DEF BufferInv
<1>9. CASE rec' = [rec EXCEPT !.starting = FALSE]
  <2>1. AccountInv(rec') /\ rec'.buffered = rec.buffered
    BY <1>1, <1>9, StartOverAccount
  <2> QED BY <1>1, <1>2, <2>1 DEF BufferInv
<1>10. CASE rec' = [t EXCEPT !.starting = FALSE]
  <2>1. t \in ReplayRecorder /\ AccountInv(t) /\ t.buffered = p.buffered
    BY <1>6, <1>7
  <2> HIDE DEF t
  <2>2. AccountInv(rec') /\ rec'.buffered = t.buffered
    BY <1>10, <2>1, StartOverAccount
  <2> QED BY <1>2, <1>4, <2>1, <2>2 DEF BufferInv
<1> QED BY <1>5, <1>8, <1>9, <1>10

LEMMA DispatchBuffer ==
  ASSUME IInv, BufferInv, HasTail(rec), UNCHANGED submits,
         uploads' = uploads \cup Launched(rec), Recorded({CutChunk(rec).key}, Lost(rec), {}),
         rec'.buffered = Dispatch(rec).buffered, AccountInv(Dispatch(rec)) => AccountInv(rec')
  PROVE  BufferInv'
<1>1. /\ RecInv(rec, cut) /\ AccountInv(rec)
      /\ PlacesInv(rec.buffered, submits, uploads, fate, cut)
  BY DEF IInv, BufferInv
<1>2. AccountInv(Dispatch(rec))
  BY <1>1, DispatchAccount
<1>3. PlacesInv(Dispatch(rec).buffered, submits, uploads \cup Launched(rec),
                After(fate, Lost(rec), {}), cut \cup {CutChunk(rec).key})
  BY <1>1, DispatchPlaces
<1>4. fate' = After(fate, Lost(rec), {}) /\ cut' = cut \cup {CutChunk(rec).key}
  BY DEF Recorded, After
<1> QED BY <1>2, <1>3, <1>4 DEF BufferInv

LEMMA EmitBuffer ==
  ASSUME IInv, BufferInv, NEW bytes \in EventBytes, Emit(bytes)
  PROVE  BufferInv'
<1>1. rec \in ReplayRecorder /\ AccountInv(rec) /\ RecInv(rec, cut) /\ submits' = submits
  BY DEF IInv, RecInv, BufferInv, Emit
<1>2. CASE UNCHANGED <<rec, uploads, cut, fate>>
  BY <1>1, <1>2, BufferStands
<1>3. CASE rec' = Added(rec, bytes) /\ UNCHANGED <<uploads, cut, fate>>
  <2>1. AccountInv(rec') /\ rec'.buffered = rec.buffered
    BY <1>1, <1>3, AddedAccount
  <2> QED BY <1>1, <1>3, <2>1, BufferStands
<1>4. CASE /\ HasTail(rec) /\ rec' = Added(Dispatch(rec), bytes)
           /\ uploads' = uploads \cup Launched(rec)
           /\ Recorded({CutChunk(rec).key}, Lost(rec), {})
  <2> DEFINE d == Dispatch(rec)
  <2>1. d \in ReplayRecorder /\ AccountInv(d)
    BY <1>1, <1>4, DispatchInv, DispatchAccount DEF RecInv
  <2>2. rec' = Added(d, bytes)
    BY <1>4
  <2> HIDE DEF d
  <2>3. AccountInv(rec') /\ rec'.buffered = d.buffered
    BY <2>1, <2>2, AddedAccount
  <2> QED BY <1>1, <1>4, <2>3, DispatchBuffer DEF d
<1> QED BY <1>2, <1>3, <1>4 DEF Emit, CutsBefore, HasTail

LEMMA AgeCutBuffer == ASSUME IInv, BufferInv, AgeCut PROVE BufferInv'
BY DispatchBuffer DEF AgeCut

LEMMA RemoveClipBuffer ==
  ASSUME IInv, BufferInv, NEW i \in DOMAIN rec.buffered, RemoveClip(i)
  PROVE  BufferInv'
<1>1. rec \in ReplayRecorder /\ AccountInv(rec) /\ cut \in SUBSET Key
      /\ PlacesInv(rec.buffered, submits, uploads, fate, cut)
  BY DEF IInv, RecInv, BufferInv, KeysBelow
<1>2. rec.buffered \in Seq(Clip) /\ i \in 1..Len(rec.buffered)
  BY <1>1, BufferFacts
<1>3. /\ rec' = WithoutClip(rec, i) /\ cut' = cut
      /\ fate' = After(fate, {}, KeysOf(rec.buffered[i].chunks))
      /\ submits' = submits /\ uploads' = uploads
  BY DEF RemoveClip, Recorded, After, sending
<1>4. AccountInv(rec') /\ rec'.buffered = RemoveAt(rec.buffered, i)
  BY <1>1, <1>2, <1>3, WithoutClipAccount
<1> DEFINE b == rec.buffered
<1>5. PlacesInv(RemoveAt(b, i), submits, uploads, After(fate, {}, KeysOf(b[i].chunks)), cut)
  <2> HIDE DEF b
  <2>1. b \in Seq(Clip) /\ i \in 1..Len(b) /\ PlacesInv(b, submits, uploads, fate, cut)
    BY <1>1, <1>2 DEF b
  <2> QED BY <1>1, <2>1, RemovedPlaces
<1> QED BY <1>3, <1>4, <1>5 DEF BufferInv

LEMMA AnswerBuffer ==
  ASSUME IInv, BufferInv, NEW u \in uploads, Answer(u)
  PROVE  BufferInv'
<1> DEFINE b == rec.buffered
           k == u.chunk.key
<1>1. rec' = rec /\ cut' = cut /\ AccountInv(rec) /\ cut \in SUBSET Key
      /\ cut' = cut /\ PlacesInv(b, submits, uploads, fate, cut)
  BY DEF Answer, LegSucceeds, LegRefused, LegRetryable, capture, IInv, RecInv, KeysBelow, BufferInv
<1>2. CASE /\ UploadDone(u)
           /\ \/ fate' = [fate EXCEPT !.durable = @ \cup {k}]
              \/ fate' = [fate EXCEPT !.failed = @ \cup {k}]
  <2> HIDE DEF b
  <2>1. /\ PlacesInv(b, submits', uploads', [fate EXCEPT !.durable = @ \cup {u.chunk.key}], cut)
        /\ PlacesInv(b, submits', uploads', [fate EXCEPT !.failed = @ \cup {u.chunk.key}], cut)
    BY <1>1, <1>2, UploadDonePlaces
  <2>2. PlacesInv(b, submits', uploads', fate', cut)
    BY <1>2, <2>1
  <2>3. cut' = cut
    BY <1>1
  <2> QED BY <1>1, <2>2, <2>3 DEF BufferInv, b
<1>3. ASSUME NEW v \in Upload, v.chunk = u.chunk, uploads' = (uploads \ {u}) \cup {v},
             UNCHANGED <<submits, fate>>
      PROVE  BufferInv'
  <2>1. SentApart(uploads') /\ Sent(uploads') = Sent(uploads)
    BY <1>1, <1>3, SentOn DEF PlacesInv
  <2>2. PlacesInv(b, submits, uploads', fate, cut)
    BY <1>1, <1>3, <2>1 DEF PlacesInv
  <2> QED BY <1>1, <1>3, <2>2 DEF BufferInv
<1>4. u \in Upload
  BY <1>1 DEF PlacesInv
<1>5. CASE u.leg # "complete" /\ LegSucceeds(u)
  <2> DEFINE leg == IF u.leg = "signed-url" THEN "put" ELSE "complete"
             v == [u EXCEPT !.leg = leg, !.attempt = 0]
  <2>1. uploads' = (uploads \ {u}) \cup {v} /\ UNCHANGED <<submits, fate>>
    BY <1>4, <1>5 DEF LegSucceeds, Upload
  <2>2. leg \in Leg /\ 0 \in 0..REPLAY_RETRY_MAX_ATTEMPTS
    BY ReplayAssumption DEF Leg
  <2> HIDE DEF leg
  <2>3. v \in Upload /\ v.chunk = u.chunk
    BY <1>4, <2>2 DEF Upload
  <2> HIDE DEF v
  <2> QED BY <1>3, <2>1, <2>3
<1>6. CASE ~RetriesExhausted(u) /\ LegRetryable(u)
  <2> DEFINE n == u.attempt + 1
             v == [u EXCEPT !.attempt = n]
  <2>1. uploads' = (uploads \ {u}) \cup {v} /\ UNCHANGED <<submits, fate>>
    BY <1>4, <1>6 DEF LegRetryable, Upload
  <2>2. n \in 0..REPLAY_RETRY_MAX_ATTEMPTS
    <3>1. u.attempt \in 0..REPLAY_RETRY_MAX_ATTEMPTS
      BY <1>4 DEF Upload
    <3> QED BY <1>6, <3>1, ReplayAssumption DEF RetriesExhausted
  <2> HIDE DEF n
  <2>3. v \in Upload /\ v.chunk = u.chunk
    BY <1>4, <2>2 DEF Upload
  <2> HIDE DEF v
  <2> QED BY <1>3, <2>1, <2>3
<1> QED BY <1>2, <1>5, <1>6 DEF Answer, LegSucceeds, LegRefused, LegRetryable, UploadFails

LEMMA NextBuffer == IInv /\ BufferInv /\ [Next]_vars => BufferInv'
<1> SUFFICES ASSUME IInv, BufferInv, [Next]_vars PROVE BufferInv'
  OBVIOUS
<1>1. ASSUME NEW s \in 1..MaxSessions, OnSessionChanged(s) PROVE BufferInv'
  BY <1>1, OnSessionChangedBuffer
<1>2. CASE StartManual
  BY <1>2, StartManualBuffer
<1>3. CASE StopManual
  BY <1>3, StopNowBuffer DEF StopManual
<1>4. CASE Shutdown
  BY <1>4, StopNowBuffer DEF Shutdown
<1>5. CASE Discard
  BY <1>5, DiscardBufferInv
<1>6. ASSUME NEW i \in DOMAIN rec.buffered, RemoveClip(i) PROVE BufferInv'
  BY <1>6, RemoveClipBuffer
<1>7. ASSUME NEW s \in Submitter, Submit(s) PROVE BufferInv'
  BY <1>7, SubmitBufferInv
<1>8. ASSUME NEW st \in starts, PolicyResolves(st) PROVE BufferInv'
  BY <1>8, PolicyResolvesBuffer
<1>9. ASSUME NEW st \in starts, RecordingBegins(st) \/ RecordingFails(st) PROVE BufferInv'
  BY <1>9, LoadedBuffer
<1>10. ASSUME NEW bytes \in EventBytes, Emit(bytes) PROVE BufferInv'
  BY <1>10, EmitBuffer
<1>11. CASE AgeCut
  BY <1>11, AgeCutBuffer
<1>12. ASSUME NEW u \in uploads, Answer(u) PROVE BufferInv'
  BY <1>12, AnswerBuffer
<1>13. CASE Reload
  BY <1>13, ReloadBuffer
<1>14. CASE UNCHANGED vars
  BY <1>14 DEF BufferInv, vars, capture, sending, history
<1> QED BY <1>1, <1>2, <1>3, <1>4, <1>5, <1>6, <1>7, <1>8, <1>9, <1>10, <1>11, <1>12,
           <1>13, <1>14 DEF Next

(* What the two theorems below rest on: the buffer's account and the       *)
(* places of the chunks, on every reachable state.                         *)
THEOREM BufferInvariant == Spec => []BufferInv
<1> QED BY InitBuffer, NextBuffer, InductiveInvariant, PTL DEF Spec

(* The buffer's size is the size of its clips, and theirs that of their    *)
(* chunks, for every cap, size and number of clips and chunks              *)
(* (recorder.ts:375-385, 487-506, 613-617).                                *)
THEOREM BufferAccountingAlways == Spec => []BufferAccounting
<1>1. IInv /\ BufferInv => BufferAccounting
  <2> SUFFICES ASSUME IInv, BufferInv PROVE BufferAccounting
    OBVIOUS
  <2>1. rec \in ReplayRecorder /\ SizesInv(rec)
    BY DEF IInv, RecInv, BufferInv, AccountInv
  <2>2. DOMAIN rec.buffered = 1..Len(rec.buffered)
    BY <2>1, BufferFacts
  <2> QED BY <2>1, <2>2 DEF SizesInv, BufferAccounting
<1> QED BY <1>1, InductiveInvariant, BufferInvariant, PTL

(* Every chunk cut is in exactly one place, for every number of chunks,    *)
(* clips, submits and uploads (recorder.ts:375-453).                       *)
THEOREM ChunkInOnePlaceAlways == Spec => []ChunkInOnePlace
<1>1. BufferInv => ChunkInOnePlace
  <2> SUFFICES ASSUME BufferInv PROVE ChunkInOnePlace
    OBVIOUS
  <2> DEFINE B == Held(rec.buffered)
             S == Waiting(submits)
             U == Sent(uploads)
  <2>1. Apart(B, S, U, fate.durable, fate.failed, fate.withdrawn, fate.dropped, cut)
    BY DEF BufferInv, PlacesInv
  <2>2. Places = <<B, S, U, fate.durable, fate.failed, fate.withdrawn, fate.dropped>>
    BY DEF Places, Held, BufferedKeys, Waiting, Sent
  <2> HIDE DEF B, S, U
  <2>3. /\ DOMAIN Places = 1..7
        /\ Places[1] = B /\ Places[2] = S /\ Places[3] = U /\ Places[4] = fate.durable
        /\ Places[5] = fate.failed /\ Places[6] = fate.withdrawn /\ Places[7] = fate.dropped
    BY <2>2
  <2>4. UNION {Places[i] : i \in DOMAIN Places} = cut
    <3>1. ASSUME NEW k \in cut PROVE \E i \in 1..7 : k \in Places[i]
      <4>1. 1 \in 1..7 /\ 2 \in 1..7 /\ 3 \in 1..7 /\ 4 \in 1..7 /\ 5 \in 1..7 /\ 6 \in 1..7
            /\ 7 \in 1..7
        OBVIOUS
      <4> QED BY <2>1, <2>3, <4>1 DEF Apart
    <3>2. ASSUME NEW i \in 1..7 PROVE Places[i] \subseteq cut
      <4>1. i = 1 \/ i = 2 \/ i = 3 \/ i = 4 \/ i = 5 \/ i = 6 \/ i = 7
        OBVIOUS
      <4> QED BY <2>1, <2>3, <4>1 DEF Apart
    <3> QED BY <2>3, <3>1, <3>2
  <2>5. ASSUME NEW i \in 1..7, NEW j \in 1..7, i # j PROVE Places[i] \cap Places[j] = {}
    <3>1. i = 1 \/ i = 2 \/ i = 3 \/ i = 4 \/ i = 5 \/ i = 6 \/ i = 7
      OBVIOUS
    <3>2. j = 1 \/ j = 2 \/ j = 3 \/ j = 4 \/ j = 5 \/ j = 6 \/ j = 7
      OBVIOUS
    <3> QED BY <2>1, <2>3, <2>5, <3>1, <3>2 DEF Apart
  <2> QED BY <2>3, <2>4, <2>5 DEF ChunkInOnePlace
<1> QED BY <1>1, BufferInvariant, PTL

(* The rest of the types: what the page around the recorder keeps. *)
PageTypes ==
  /\ installed \in BOOLEAN
  /\ replaySessionId \in 0..MaxSessions
  /\ session \in 0..MaxSessions
  /\ restorable \in BOOLEAN
  /\ emitted \in Nat

(* Every variable keeps its type, for every value of the constants. *)
THEOREM TypeCorrect == Spec => []TypeOK
<1>0. 0 \in 0..MaxSessions
  BY ReplayAssumption
<1>1. Init => PageTypes
  <2> SUFFICES ASSUME Init PROVE PageTypes
    OBVIOUS
  <2>1. /\ installed = TRUE /\ replaySessionId = 0 /\ session = 0 /\ restorable = FALSE
        /\ emitted = 0
    BY DEF Init
  <2> QED BY <1>0, <2>1 DEF PageTypes
<1>2. PageTypes /\ [Next]_vars => PageTypes'
  <2> SUFFICES ASSUME PageTypes, [Next]_vars PROVE PageTypes'
    OBVIOUS
  <2>1. ASSUME NEW s \in 1..MaxSessions, OnSessionChanged(s) PROVE PageTypes'
    BY <2>1, ReplayAssumption DEF OnSessionChanged, PageTypes
  <2>2. CASE StartManual
    BY <2>2 DEF StartManual, PageTypes, page, history
  <2>3. CASE StopManual
    BY <2>3 DEF StopManual, PageTypes, page
  <2>4. CASE Shutdown
    <3>1. /\ installed' = FALSE /\ replaySessionId' = 0 /\ restorable' = FALSE
          /\ session' = session /\ emitted' = emitted
      BY <2>4 DEF Shutdown
    <3> QED BY <1>0, <3>1 DEF PageTypes
  <2>5. CASE Discard
    BY <2>5 DEF Discard, PageTypes, page
  <2>6. ASSUME NEW i \in DOMAIN rec.buffered, RemoveClip(i) PROVE PageTypes'
    BY <2>6 DEF RemoveClip, PageTypes, page
  <2>7. ASSUME NEW s \in Submitter, Submit(s) PROVE PageTypes'
    BY <2>7 DEF Submit, PageTypes, page
  <2>8. ASSUME NEW st \in starts, PolicyResolves(st) PROVE PageTypes'
    BY <2>8 DEF PolicyResolves, PageTypes, page, history
  <2>9. ASSUME NEW st \in starts, RecordingBegins(st) \/ RecordingFails(st) PROVE PageTypes'
    BY <2>9 DEF RecordingBegins, RecordingFails, PageTypes, page, history
  <2>10. ASSUME NEW bytes \in EventBytes, Emit(bytes) PROVE PageTypes'
    BY <2>10 DEF Emit, PageTypes, page
  <2>11. CASE AgeCut
    BY <2>11 DEF AgeCut, PageTypes, page
  <2>12. ASSUME NEW u \in uploads, Answer(u) PROVE PageTypes'
    BY <2>12 DEF Answer, LegSucceeds, LegRefused, LegRetryable, PageTypes, page
  <2>13. CASE Reload
    BY <2>13, ReplayAssumption DEF Reload, FreshPage, PageTypes
  <2>14. CASE UNCHANGED vars
    BY <2>14 DEF PageTypes, vars, page, history
  <2> QED BY <2>1, <2>2, <2>3, <2>4, <2>5, <2>6, <2>7, <2>8, <2>9, <2>10, <2>11, <2>12,
             <2>13, <2>14 DEF Next
<1>3. IInv /\ BufferInv /\ PageTypes => TypeOK
  <2> SUFFICES ASSUME IInv, BufferInv, PageTypes PROVE TypeOK
    OBVIOUS
  <2>1. rec \in ReplayRecorder /\ cut \in SUBSET Key /\ starts \in SUBSET Start /\ reloads \in Nat
    BY DEF IInv, RecInv, KeysBelow, StartsInv
  <2>2. observers \in Nat
    BY DEF IInv
  <2>3. uploads \in SUBSET Upload /\ submits \in [Submitter -> Seq(Chunk)] /\ fate \in Fate
    BY DEF BufferInv, PlacesInv
  <2> QED BY <2>1, <2>2, <2>3 DEF PageTypes, TypeOK, Fate
<1> QED BY <1>1, <1>2, <1>3, InductiveInvariant, BufferInvariant, PTL DEF Spec
=============================================================================
