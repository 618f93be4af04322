------------------------------- MODULE Replay -------------------------------
(***************************************************************************)
(* Masked replay in the TypeScript SDK, src/sdk/typescript/src/            *)
(* autocapture/replay/{recorder,chunker,transport}.ts, driven by session   *)
(* changes (autocapture/index.ts) and by the calls of client.replay: the   *)
(* asynchronous start with its policy gate, the chunker, immediate upload  *)
(* (modes auto and manual) or buffered clips (mode review), and the        *)
(* three-leg upload of a chunk with its retries.                           *)
(*                                                                         *)
(* rrweb, the policy provider and the server are external.  A start reads  *)
(* the policy after its first await and finishes after two more (import of *)
(* rrweb, digest), which change nothing and are one wait here; so are a    *)
(* request and the backoff before it.  Left out: clip indexes and          *)
(* summaries, the truncated flag, the scrubber report, and events rrweb    *)
(* emits from within a record() call that then fails.                      *)
(***************************************************************************)
EXTENDS Integers, SequencesExt

CONSTANTS
  REPLAY_CHUNK_SOFT_BYTES,      \* 2 MiB in the code
  REPLAY_MAX_CHUNK_BYTES,       \* 3 MiB
  EMPTY_ENVELOPE_BYTES,         \* 64: what the chunker reckons for the envelope
  EnvelopeBytes,                \* 67: what it takes, for a sequence number of one digit
  maxBufferedBytes,             \* 16 MiB
  REPLAY_RETRY_MAX_ATTEMPTS,    \* 4
  Mode,                         \* modes a policy may have, of "off", "auto", "manual", "review"
  EventBytes,                   \* sizes an rrweb event may have
  Submitter,                    \* bound: submit() calls alive at one time
  MaxEvents,                    \* bound: rrweb events per page
  MaxClips,                     \* bound: spans recorded per page
  MaxSessions,                  \* bound: sessions
  MaxReloads                    \* bound: page reloads

ASSUME ReplayAssumption ==
  /\ REPLAY_CHUNK_SOFT_BYTES \in Nat
  /\ REPLAY_MAX_CHUNK_BYTES \in Nat
  /\ EMPTY_ENVELOPE_BYTES \in Nat \ {0}
  /\ EnvelopeBytes \in Nat
  /\ maxBufferedBytes \in Nat
  /\ REPLAY_RETRY_MAX_ATTEMPTS \in Nat
  /\ Mode \subseteq {"off", "auto", "manual", "review"}
  /\ EventBytes \subseteq Nat \ {0}
  /\ "recorder" \notin Submitter
  /\ MaxSessions \in Nat

VARIABLES
  rec,                          \* the fields of ReplayRecorder
  starts,                       \* the start() calls under way
  observers,                    \* rrweb observers (each with its age timer) alive
  installed,                    \* auto-capture still holds the recorder
  replaySessionId,              \* the session last handed to the recorder, 0 is null
  session,                      \* the client's latest session
  restorable,                   \* a page that loads would restore that session
  uploads,                      \* chunks being uploaded
  submits,                      \* per submit(): the chunks it has still to upload
  (* Bounds and observability. *)
  emitted, reloads,
  cut,                          \* keys of the chunks of this page
  fate                          \* where the keys of this page's chunks ended up

capture == <<rec, starts, observers>>
page == <<installed, replaySessionId, session, restorable, reloads>>
sending == <<uploads, submits>>
history == <<emitted, cut, fate>>
vars == <<capture, page, sending, history>>

-----------------------------------------------------------------------------
(* Chunks.  The server keys a chunk by session and sequence number.        *)

Key == [session : Nat, sequence : Nat]
Chunk == [key : Key, byteLength : Nat]

KeysOf(chunks) == {chunks[i].key : i \in DOMAIN chunks}

(* A recording span: the chunker (its session, next sequence number, number *)
(* of events in the open chunk and its running size) and everything else    *)
(* start() sets and teardownState() clears together with it.                *)
NoSpan == [session |-> 0, next |-> 0, pending |-> 0, bytes |-> 0]

NewSpan(s, mark) == [session |-> s, next |-> mark, pending |-> 0, bytes |-> 0]

Span == [session : Nat, next : Nat, pending : Nat, bytes : Nat]

(* A clip buffered in review mode. *)
Clip == [clipId : Nat, session : Nat, chunks : Seq(Chunk), bytes : Nat]

NoClip == -1

ReplayRecorder ==
  [policy : Mode, boundSession : Nat, replaySequence : Nat, replaySequenceSession : Nat,
   starting : BOOLEAN, span : Span, buffered : Seq(Clip),
   currentClip : Nat \cup {NoClip}, clipCounter : Nat, bufferedBytes : Nat, chunksCut : Nat]

isRecording(r) == r.span # NoSpan

(* cut(): the open events become the next chunk. *)
CutChunk(r) ==
  [key |-> [session |-> r.span.session, sequence |-> r.span.next],
   byteLength |-> r.span.bytes - EMPTY_ENVELOPE_BYTES + EnvelopeBytes]

Cut(r) == [r EXCEPT !.span.next = @ + 1, !.span.pending = 0, !.span.bytes = 0,
                    !.chunksCut = @ + 1]

BufferedKeys(r) == UNION {KeysOf(r.buffered[i].chunks) : i \in DOMAIN r.buffered}

(* bufferChunk(): a chunk is dropped when no clip is open, or when the     *)
(* buffer is full.                                                         *)
Room(r, chunk) ==
  /\ r.currentClip # NoClip
  /\ r.bufferedBytes + chunk.byteLength <= maxBufferedBytes

Grown(clip, chunk) ==
  [clip EXCEPT !.chunks = Append(@, chunk), !.bytes = @ + chunk.byteLength]

WithChunk(r, chunk) ==
  [i \in DOMAIN r.buffered |-> IF r.buffered[i].clipId = r.currentClip
                               THEN Grown(r.buffered[i], chunk) ELSE r.buffered[i]]

BufferChunk(r, chunk) ==
  IF Room(r, chunk)
  THEN [r EXCEPT !.buffered = WithChunk(r, chunk),
                 !.bufferedBytes = @ + chunk.byteLength]
  ELSE r

Reviewing(r) == r.policy = "review"

(* dispatchChunk() of a freshly cut chunk: what happens to the recorder,   *)
(* to the uploads, and to the chunk.                                       *)
Dispatch(r) == IF Reviewing(r) THEN BufferChunk(Cut(r), CutChunk(r)) ELSE Cut(r)

NewUpload(chunk, owner) == [chunk |-> chunk, owner |-> owner, leg |-> "signed-url", attempt |-> 0]

Launched(r) == IF Reviewing(r) THEN {} ELSE {NewUpload(CutChunk(r), "recorder")}

Lost(r) ==
  IF Reviewing(r) /\ ~Room(r, CutChunk(r)) THEN {CutChunk(r).key} ELSE {}

(* Mutant of Teardown: the next span of the session numbers from 0. *)
TeardownRestartsSequence(r) ==
  [r EXCEPT !.span = NoSpan, !.currentClip = NoClip, !.replaySequence = 0]

(* teardownState(): the sequence mark survives the span. *)
Teardown(r) ==
  [r EXCEPT !.replaySequence = IF isRecording(r) THEN r.span.next ELSE @,
            !.span = NoSpan,
            !.currentClip = NoClip]

(* stop(): the open chunk is flushed and dispatched, then the teardown.    *)
HasTail(r) == r.span.pending > 0

Stopped(r) == Teardown(IF HasTail(r) THEN Dispatch(r) ELSE r)

TailLaunched(r) == IF HasTail(r) THEN Launched(r) ELSE {}
TailKeys(r) == IF HasTail(r) THEN {CutChunk(r).key} ELSE {}
TailLost(r) == IF HasTail(r) THEN Lost(r) ELSE {}

ObserverStopped == observers' = IF isRecording(rec) THEN observers - 1 ELSE observers

EmptyFate == [durable |-> {}, failed |-> {}, withdrawn |-> {}, dropped |-> {}]

(* The history of a step that cuts, loses and withdraws chunks. *)
Recorded(keys, lost, withdrawn) ==
  /\ cut' = cut \cup keys
  /\ fate' = [fate EXCEPT !.dropped = @ \cup lost, !.withdrawn = @ \cup withdrawn]

DiscardBuffer(r) == [r EXCEPT !.buffered = <<>>, !.currentClip = NoClip, !.bufferedBytes = 0]

-----------------------------------------------------------------------------
(* start().                                                                *)

Start == [session : Nat, trigger : {"auto", "manual"}, phase : {"policy", "loading"}]

(* Mutant of StartRefused: a start under way does not count. *)
StartRefusedRecording(r) == isRecording(r)

StartRefused(r) == r.starting \/ isRecording(r)

(* Mutant of Abandons: the clips of the previous session are kept. *)
AbandonsNever(r, s) == FALSE

(* A new session abandons the clips of the session bound before.           *)
Abandons(r, s) == r.boundSession # 0 /\ r.boundSession # s /\ r.buffered # <<>>

(* start(s, trigger) up to its first await, on the recorder r. *)
StartCalled(r, s, trigger) ==
  IF StartRefused(r)
  THEN /\ rec' = r
       /\ UNCHANGED starts
  ELSE /\ rec' = [(IF Abandons(r, s) THEN DiscardBuffer(r) ELSE r)
                    EXCEPT !.boundSession = s, !.starting = TRUE]
       /\ starts' = starts \cup {[session |-> s, trigger |-> trigger, phase |-> "policy"]}

AbandonedKeys(r, s) ==
  IF ~StartRefused(r) /\ Abandons(r, s) THEN BufferedKeys(r) ELSE {}

Trigger(mode) == IF mode = "review" THEN "manual" ELSE mode

(* The policy is known: the trigger must match the mode, and the gate      *)
(* (enabled, diagnostics level, route, sampling) must let the span pass.   *)
PolicyResolves(st) ==
  /\ st.phase = "policy"
  /\ \E m \in Mode :
       \/ /\ Trigger(m) = st.trigger
          /\ rec' = [rec EXCEPT !.policy = m]
          /\ starts' = (starts \ {st}) \cup {[st EXCEPT !.phase = "loading"]}
       \/ /\ rec' = [rec EXCEPT !.policy = m, !.starting = FALSE]
          /\ starts' = starts \ {st}
  /\ UNCHANGED <<observers, page, sending, history>>

(* The state start() builds for rrweb to record into. *)
Prepared(r, s) ==
  LET mark == IF r.replaySequenceSession = s THEN r.replaySequence ELSE 0
      ready == [r EXCEPT !.replaySequence = mark,
                         !.replaySequenceSession = s,
                         !.span = NewSpan(s, mark)]
      clip == [clipId |-> r.clipCounter, session |-> s, chunks |-> <<>>, bytes |-> 0]
  IN  IF Reviewing(r)
      THEN [ready EXCEPT !.buffered = Append(@, clip),
                         !.currentClip = r.clipCounter,
                         !.clipCounter = @ + 1]
      ELSE ready

ClipLeft == Reviewing(rec) => rec.clipCounter < MaxClips

RecordingBegins(st) ==
  /\ st.phase = "loading"
  /\ rec' = [Prepared(rec, st.session) EXCEPT !.starting = FALSE]
  /\ ClipLeft
  /\ starts' = starts \ {st}
  /\ observers' = observers + 1
  /\ UNCHANGED <<page, sending, history>>

(* rrweb is not to be had, or record() throws or returns no stop handle.   *)
RecordingFails(st) ==
  /\ st.phase = "loading"
  /\ \/ rec' = [rec EXCEPT !.starting = FALSE]
     \/ /\ ClipLeft
        /\ rec' = [Teardown(Prepared(rec, st.session)) EXCEPT !.starting = FALSE]
  /\ starts' = starts \ {st}
  /\ UNCHANGED <<observers, page, sending, history>>

-----------------------------------------------------------------------------
Recorder(mode) ==
  [policy |-> mode, boundSession |-> 0, replaySequence |-> 0, replaySequenceSession |-> 0,
   starting |-> FALSE, span |-> NoSpan, buffered |-> <<>>, currentClip |-> NoClip,
   clipCounter |-> 0, bufferedBytes |-> 0, chunksCut |-> 0]

FreshPage ==
  /\ rec' \in {Recorder(m) : m \in Mode}
  /\ starts' = {}
  /\ observers' = 0
  /\ installed' = TRUE
  /\ replaySessionId' = 0
  /\ uploads' = {}
  /\ submits' = [s \in Submitter |-> <<>>]
  /\ emitted' = 0
  /\ cut' = {}
  /\ fate' = EmptyFate

Init ==
  /\ rec \in {Recorder(m) : m \in Mode}
  /\ starts = {}
  /\ observers = 0
  /\ installed = TRUE
  /\ replaySessionId = 0
  /\ session = 0
  /\ restorable = FALSE
  /\ uploads = {}
  /\ submits = [s \in Submitter |-> <<>>]
  /\ emitted = 0
  /\ reloads = 0
  /\ cut = {}
  /\ fate = EmptyFate

(* onSessionChanged(), from a capture: a session the page has restored, or *)
(* a new one, is not the session last handed over.                         *)
OnSessionChanged(s) ==
  /\ installed
  /\ s = session + 1 \/ (s = session /\ restorable)
  /\ s \in 1..MaxSessions
  /\ s # replaySessionId
  /\ session' = s
  /\ restorable' = TRUE
  /\ replaySessionId' = s
  /\ LET r == IF isRecording(rec) THEN Stopped(rec) ELSE rec
     IN  /\ StartCalled(r, s, "auto")
         /\ Recorded(TailKeys(rec), TailLost(rec), AbandonedKeys(r, s))
  /\ uploads' = uploads \cup TailLaunched(rec)
  /\ ObserverStopped
  /\ UNCHANGED <<installed, reloads, submits, emitted>>

(* client.replay.start(). *)
StartManual ==
  /\ installed
  /\ rec.boundSession # 0
  /\ ~StartRefused(rec)
  /\ StartCalled(rec, rec.boundSession, "manual")
  /\ UNCHANGED <<observers, page, sending, history>>

(* Recorder.stop(), which does something only while recording. *)
StopNow ==
  /\ rec' = Stopped(rec)
  /\ uploads' = uploads \cup TailLaunched(rec)
  /\ Recorded(TailKeys(rec), TailLost(rec), {})
  /\ ObserverStopped

(* client.replay.stop(). *)
StopManual ==
  /\ installed
  /\ rec.policy \in {"manual", "review"}
  /\ isRecording(rec)
  /\ StopNow
  /\ UNCHANGED <<starts, page, submits, emitted>>

(* client.shutdown(): the recorder is stopped and let go, and the session  *)
(* is ended.                                                               *)
Shutdown ==
  /\ installed
  /\ installed' = FALSE
  /\ replaySessionId' = 0
  /\ restorable' = FALSE
  /\ StopNow
  /\ UNCHANGED <<starts, session, reloads, submits, emitted>>

(* Mutant of WithoutClip: the buffer's size is not brought down. *)
WithoutClipKeepsBytes(r, i) ==
  [r EXCEPT !.buffered = RemoveAt(@, i),
            !.currentClip = IF @ = r.buffered[i].clipId THEN NoClip ELSE @]

WithoutClip(r, i) ==
  [r EXCEPT !.buffered = RemoveAt(@, i),
            !.bufferedBytes = IF r.buffered[i].bytes <= @ THEN @ - r.buffered[i].bytes ELSE 0,
            !.currentClip = IF @ = r.buffered[i].clipId THEN NoClip ELSE @]

RemoveClip(i) ==
  /\ installed
  /\ Reviewing(rec)
  /\ i \in DOMAIN rec.buffered
  /\ rec' = WithoutClip(rec, i)
  /\ Recorded({}, {}, KeysOf(rec.buffered[i].chunks))
  /\ UNCHANGED <<starts, observers, page, sending, emitted>>

Discard ==
  /\ installed
  /\ Reviewing(rec)
  /\ LET r == IF isRecording(rec) THEN Stopped(rec) ELSE rec
     IN  /\ rec' = DiscardBuffer(r)
         /\ Recorded(TailKeys(rec), TailLost(rec), BufferedKeys(r))
  /\ ObserverStopped
  /\ UNCHANGED <<starts, page, sending, emitted>>

(* rrweb emits an event: add() cuts the open chunk first when the event    *)
(* would take it past the soft size, and drops an event over the cap.      *)
Oversize(bytes) == bytes + EMPTY_ENVELOPE_BYTES > REPLAY_MAX_CHUNK_BYTES

CutsBefore(bytes) ==
  /\ rec.span.pending > 0
  /\ rec.span.bytes + bytes + 1 > REPLAY_CHUNK_SOFT_BYTES

Added(r, bytes) ==
  [r EXCEPT !.span.pending = @ + 1,
            !.span.bytes = IF r.span.pending = 0 THEN EMPTY_ENVELOPE_BYTES + bytes
                           ELSE @ + 1 + bytes]

Emit(bytes) ==
  /\ isRecording(rec)
  /\ emitted < MaxEvents
  /\ emitted' = emitted + 1
  /\ \/ /\ Oversize(bytes)
        /\ UNCHANGED <<rec, uploads, cut, fate>>
     \/ /\ ~Oversize(bytes)
        /\ CutsBefore(bytes)
        /\ rec' = Added(Dispatch(rec), bytes)
        /\ uploads' = uploads \cup Launched(rec)
        /\ Recorded({CutChunk(rec).key}, Lost(rec), {})
     \/ /\ ~Oversize(bytes)
        /\ ~CutsBefore(bytes)
        /\ rec' = Added(rec, bytes)
        /\ UNCHANGED <<uploads, cut, fate>>
  /\ UNCHANGED <<starts, observers, page, submits>>

(* The age poll finds the open chunk old enough. *)
AgeCut ==
  /\ HasTail(rec)
  /\ rec' = Dispatch(rec)
  /\ uploads' = uploads \cup Launched(rec)
  /\ Recorded({CutChunk(rec).key}, Lost(rec), {})
  /\ UNCHANGED <<starts, observers, page, submits, emitted>>

-----------------------------------------------------------------------------
(* Uploads: three legs, each with its own retry budget.                    *)

Leg == {"signed-url", "put", "complete"}

Upload == [chunk : Chunk, owner : Submitter \cup {"recorder"}, leg : Leg,
           attempt : 0..REPLAY_RETRY_MAX_ATTEMPTS]

Busy(s) == submits[s] # <<>> \/ \E u \in uploads : u.owner = s

(* Mutant of Drained: the buffer is emptied only once everything is sent.  *)
DrainedLate(r) == r

Drained(r) == DiscardBuffer(r)

BufferedChunks(r) == FlattenSeq([i \in DOMAIN r.buffered |-> r.buffered[i].chunks])

(* submit(): the span is closed, the buffer drained, and its chunks are    *)
(* uploaded one after the other.                                           *)
Submit(s) ==
  /\ installed
  /\ Reviewing(rec)
  /\ ~Busy(s)
  /\ LET r == IF isRecording(rec) THEN Stopped(rec) ELSE rec
         chunks == BufferedChunks(r)
     IN  /\ rec' = Drained(r)
         /\ \/ /\ chunks = <<>>
               /\ UNCHANGED sending
            \/ /\ chunks # <<>>
               /\ uploads' = uploads \cup {NewUpload(Head(chunks), s)}
               /\ submits' = [submits EXCEPT ![s] = Tail(chunks)]
         /\ Recorded(TailKeys(rec), TailLost(rec), {})
  /\ ObserverStopped
  /\ UNCHANGED <<starts, page, emitted>>

(* Mutant of UploadDone: the loop of submit() stops at its first chunk.    *)
UploadDoneStops(u) ==
  /\ uploads' = uploads \ {u}
  /\ UNCHANGED submits

(* An upload is over, one way or the other; a submit() goes on with its    *)
(* next chunk.                                                             *)
UploadDone(u) ==
  \/ /\ u.owner \in Submitter
     /\ submits[u.owner] # <<>>
     /\ uploads' = (uploads \ {u}) \cup {NewUpload(Head(submits[u.owner]), u.owner)}
     /\ submits' = [submits EXCEPT ![u.owner] = Tail(@)]
  \/ /\ u.owner \in Submitter => submits[u.owner] = <<>>
     /\ uploads' = uploads \ {u}
     /\ UNCHANGED submits

UploadFails(u) ==
  /\ UploadDone(u)
  /\ fate' = [fate EXCEPT !.failed = @ \cup {u.chunk.key}]

LegSucceeds(u) ==
  /\ \/ /\ u.leg = "complete"
        /\ UploadDone(u)
        /\ fate' = [fate EXCEPT !.durable = @ \cup {u.chunk.key}]
     \/ /\ u.leg # "complete"
        /\ uploads' = (uploads \ {u}) \cup
             {[u EXCEPT !.leg = IF @ = "signed-url" THEN "put" ELSE "complete", !.attempt = 0]}
        /\ UNCHANGED <<submits, fate>>
  /\ UNCHANGED <<capture, page, emitted, cut>>

(* A status that is neither 2xx nor retryable, or a malformed signed URL.  *)
LegRefused(u) ==
  /\ UploadFails(u)
  /\ UNCHANGED <<capture, page, emitted, cut>>

RetriesExhausted(u) == u.attempt + 1 > REPLAY_RETRY_MAX_ATTEMPTS

(* A failed fetch or a retryable status. *)
LegRetryable(u) ==
  /\ \/ /\ RetriesExhausted(u)
        /\ UploadFails(u)
     \/ /\ ~RetriesExhausted(u)
        /\ uploads' = (uploads \ {u}) \cup {[u EXCEPT !.attempt = @ + 1]}
        /\ UNCHANGED <<submits, fate>>
  /\ UNCHANGED <<capture, page, emitted, cut>>

Answer(u) == LegSucceeds(u) \/ LegRefused(u) \/ LegRetryable(u)

(* The page reloads: memory is lost; a session that has not been ended can *)
(* be restored from the tab's storage.                                     *)
Reload ==
  /\ reloads < MaxReloads
  /\ reloads' = reloads + 1
  /\ FreshPage
  /\ UNCHANGED <<session, restorable>>

Next ==
  \/ \E s \in 1..MaxSessions : OnSessionChanged(s)
  \/ StartManual \/ StopManual \/ Shutdown \/ Discard
  \/ \E i \in DOMAIN rec.buffered : RemoveClip(i)
  \/ \E s \in Submitter : Submit(s)
  \/ \E st \in starts : PolicyResolves(st) \/ RecordingBegins(st) \/ RecordingFails(st)
  \/ \E bytes \in EventBytes : Emit(bytes)
  \/ AgeCut
  \/ \E u \in uploads : Answer(u)
  \/ Reload

Spec == Init /\ [][Next]_vars

(* Every request is answered or fails. *)
NetworkFairness ==
  \A s \in Submitter : WF_vars(\E u \in uploads : u.owner = s /\ Answer(u))

FairSpec == Spec /\ NetworkFairness

-----------------------------------------------------------------------------
(* Properties                                                              *)

TypeOK ==
  /\ rec \in ReplayRecorder
  /\ starts \in SUBSET Start
  /\ observers \in Nat
  /\ installed \in BOOLEAN
  /\ replaySessionId \in 0..MaxSessions
  /\ session \in 0..MaxSessions
  /\ restorable \in BOOLEAN
  /\ uploads \in SUBSET Upload
  /\ submits \in [Submitter -> Seq(Chunk)]
  /\ emitted \in Nat
  /\ reloads \in Nat
  /\ cut \in SUBSET Key
  /\ fate \in [durable : SUBSET Key, failed : SUBSET Key, withdrawn : SUBSET Key,
               dropped : SUBSET Key]

(* However starts, stops, submits, reviews and session changes interleave,  *)
(* every chunk a page cuts is in exactly one place: buffered, waiting in a *)
(* submit, being uploaded, durable, given up, withdrawn by the user or by a *)
(* session change, or dropped by the memory cap.  So nothing is uploaded   *)
(* twice, and nothing withdrawn is ever uploaded (recorder.ts:375-453).    *)
Places ==
  <<BufferedKeys(rec),
    UNION {KeysOf(submits[s]) : s \in Submitter},
    {u.chunk.key : u \in uploads},
    fate.durable, fate.failed, fate.withdrawn, fate.dropped>>

ChunkInOnePlace ==
  /\ UNION {Places[i] : i \in DOMAIN Places} = cut
  /\ \A i, j \in DOMAIN Places : i # j => Places[i] \cap Places[j] = {}

Total(sizes) ==
  LET total[n \in 0..Len(sizes)] == IF n = 0 THEN 0 ELSE total[n - 1] + sizes[n]
  IN  total[Len(sizes)]

ChunkSizes(chunks) == [j \in DOMAIN chunks |-> chunks[j].byteLength]
ClipSizes(clips) == [i \in DOMAIN clips |-> clips[i].bytes]

(* The buffer's running size, which the memory cap is tested against, is   *)
(* the size of the clips it holds, and each clip's that of its chunks,     *)
(* through cap drops, removals, submits and abandoned sessions             *)
(* (recorder.ts:375-385, 487-506, 613-617).                                *)
BufferAccounting ==
  /\ \A i \in DOMAIN rec.buffered :
       rec.buffered[i].bytes = Total(ChunkSizes(rec.buffered[i].chunks))
  /\ rec.bufferedBytes = Total(ClipSizes(rec.buffered))
  /\ rec.bufferedBytes <= maxBufferedBytes

(* At most one rrweb observer is alive and the recorder holds its stop     *)
(* handle, although start() awaits three times between the test of its     *)
(* guard and record() (recorder.ts:195, 286-307).                          *)
OneObserver == observers = IF isRecording(rec) THEN 1 ELSE 0

(* Clips of a past session are gone from the buffer once another session   *)
(* is bound, even when the change arrives during a start                   *)
(* (recorder.ts:196-206, 250-262).                                         *)
ClipsOfBoundSession ==
  \A i \in DOMAIN rec.buffered : rec.buffered[i].session = rec.boundSession

(* No chunk takes the key of a chunk cut before on the same page, across   *)
(* spans, sessions, removed clips and failed starts                        *)
(* (recorder.ts:136-146, 235-248, 595-606).                                *)
ChunkKeysFresh ==
  [][reloads' = reloads /\ rec'.chunksCut # rec.chunksCut => cut' # cut]_vars

(* Recording is tied to the life of the client, and torn down on           *)
(* "shutdown()", as the head comment says (recorder.ts:10).  The code does *)
(* not keep to it: a start under way goes on, and records after the client *)
(* was shut down.                                                          *)
ShutdownIsFinal == isRecording(rec) => installed

(* A submit() always resolves (recorder.ts:387-438).                       *)
SubmitReturns == \A s \in Submitter : Busy(s) ~> ~Busy(s)

=============================================================================
