# A TLA+ verification of the ResolveTrace SDKs

This directory models, model-checks and proves properties of the client
SDKs in this repository: the TypeScript SDK (`sdk/typescript/src`) and the
Python SDK (`sdk/python/resolvetrace`). Paths below are
relative to the repository; `transport.ts` without a directory is
`sdk/typescript/src/transport.ts`, and so on.

`PROJECT.json` is the machine-readable side of this file: every run, every
definition with the lines it models, every mutant, hazard, finding and theorem.

## 1. The system

The SDKs capture events, scrub them, queue them and send them in batches to an
ingest server that is not part of the repository. Each event belongs to a
session that the SDK starts lazily, keeps alive, rolls over and ends. A browser
build adds auto-capture of frustration signals, masked session replay and a
report widget.

| Component | State it keeps | Operations | Talks to |
|---|---|---|---|
| Event transport, `transport.ts` | queue and byte count, back-pressure latch, interval timer, the batch in flight, counters, shutdown flag | `enqueue`, `flush`, `shutdown`, timer, answers, retry, `session_unknown` recovery | server (POST `/v1/events`), session manager (recovery hook) |
| Session manager, `session.ts`, `identity.ts` | state, id, support code, two clocks, two timers, the `sessionStorage` blob, pending identity | `ensureStarted`, `noteActivity`, `restart`, `end`, `shutdown`, `issueStart`, timers, answers to session-start, restore | server (POST session start / end), storage |
| Client facade, `client.ts`, `envelope.ts` | last seen session, widget handle | `capture`, `identify`, `flush`, `shutdown`, `reportProblem` | everything below it |
| Breadcrumbs and reports, `recent-context.ts`, `report.ts` | ring of 20 entries | `record`, `snapshot` | client |
| Auto-capture, `autocapture/*.ts` | per-session budget, burst and window states | gate, click and submit handlers, `onSessionChanged` | client, replay recorder |
| Replay, `autocapture/replay/*.ts` | open chunk, sequence high-water mark, buffered clips, recording flags | `start`, `stop`, `submit`, `discard`, `removeClip`, three-leg upload | server, rrweb |
| Report widget, `report-widget.ts` | record state machine, timers | record, pause, submit, discard, destroy | replay, client |
| Scrubber, config, ULID, schemas | none that changes | pure functions | client |
| Python transport, session, client | as above, with an asyncio lock and real threads | as above | server |
| Conformance harness, scripts, workflows | none at run time | drive and generate | - |

How they interact: `capture()` calls the session manager (which may start a
session and fire its POST), builds an envelope and enqueues it, all in one
synchronous step. The transport calls back into the session manager through the
recovery hook when the server answers 409 `session_unknown`. The session
manager calls back into the client when a start is accepted, which may re-mount
the widget. Auto-capture calls `capture()`; a capture that sees a new session
drives the replay recorder.

What is hard about it: JavaScript runs to completion, so every interleaving
happens at an `await`, a timer or a promise callback, and the code reads a field
before such a point and uses it after. The hard behaviours are several flush
loops sharing one in-flight batch; timers armed and cleared by different paths;
late answers for sessions that are gone; closes that await a request while
captures go on; page reloads that keep storage and lose memory; and, in Python,
timer threads racing the lock. The stateless parts have a difficulty of their
own: they are written twice, in two languages, they stop when a time budget runs
out, and what they produce must be what a schema accepts. `PROJECT.json` lists
each hazard at its line, with the properties that cover it or a note saying why
none does.

### What makes each component correct

* Transport: events leave in order, none is lost silently or sent twice by the
  queue machinery; caps are caps; nothing is stranded in the queue; back-pressure
  lifts; a batch costs a bounded number of requests; flushes return; shutdown is
  final.
* Session manager: an event never belongs to a session already ended; a session
  is not rolled over early and does not live for ever; a reload finds the right
  session; support codes and identities are never mixed up; closes return.
* Replay: a chunk is identified once per session and its clip is complete; what
  is discarded is never uploaded; a stop is a stop.
* Widget: one submit at a time, a visible frame while it records, nothing
  recorded without consent.
* Auto-capture: the ceiling per session holds, a heuristic reports only what
  happened, a report carries the latest entries.
* Python: a rejected batch keeps its place; only rejected events are dropped; a
  session is ended exactly once, whoever ends it.
* Stateless parts: nothing sensitive leaves; the host's options only tighten; the
  two SDKs agree; what is sent is what the schema accepts.

## 2. Modules

| Module | Models | Notes |
|---|---|---|
| `EventPipeline` | nothing; the abstract promise of a transport | accepted, taken, settled, delivered |
| `Transport` | `transport.ts` | refines `EventPipeline` |
| `Session` | `session.ts`, `identity.ts`, the session part of `client.ts` | |
| `Replay` | `autocapture/replay/{recorder,chunker,transport}.ts`, `onSessionChanged` and `shutdown` of `autocapture/index.ts` | |
| `ReportWidget` | `report-widget.ts` in record mode, the remount of `client.ts` | over the recorder's guard |
| `AutoCapture` | `autocapture/*.ts`, `recent-context.ts`, `report.ts`, `capture()` of `client.ts` | |
| `PyTransport` | `transport.py`, `flush()` and `shutdown()` of `client.py` | |
| `PySession` | `session.py` | real threads |
| `ScrubberRules` | `scrubber-rules.ts`, the detectors and checksums of `scrubber.ts` and `scrubber.py` | operators |
| `Scrubber` | the walks of `scrubber.ts` and `scrubber.py` | operators, by depth |
| `Masking` | `shouldMaskElement`, `selector.ts`, `url.ts`, `error-resource.ts` | operators |
| `Config` | `config.ts`, `replay/policy.ts`, `config.py`, `validate_session_config` | operators |
| `Ulid` | `ulid.ts`, `ulid.py` | operators |
| `Envelope` | `envelope.ts`, `envelope.py`, the start payloads, `schemas/src/{events,session}.ts` | operators |
| `Operators` | - | gives the operators their inputs, states what holds of masking and options |
| `Payloads` | - | over `Operators`: what holds of the walks, identifiers and payloads |
| `TransportProofs`, `SessionProofs`, `ReplayProofs`, `PyTransportProofs`, `PySessionProofs`, `ReportWidgetProofs`, `AutoCaptureProofs`, `OperatorProofs` | - | proofs |
| `MC*` | - | constants for TLC; `MCReplayPages` also what the server has of earlier pages |

### Transport

One action is what runs between two awaits. `Enqueue` is `enqueue()` with its
four outcomes, in the order of the code: shut down, too large, back-pressured,
accepted. Acceptance pushes, arms the interval timer if the queue was empty, and
when a batch is full starts a flush loop in the same step, as the code does.
A flush activation (`calls[c]`) is one call of `flush()`: `FlushLoop` is one
turn of its `while`, `awaiting` is `await this.flushInFlight` or `await
pending`, `ready` is the moment its promise has settled and its continuation has
not run, `returned` is a resolved promise its caller has not seen. The batch in
flight (`post`) goes from `wire` to a verdict, to `backoff` and back, or to
`hook` once. A queue slot carries an offset so that the bytes of a run of slots
is a difference of two numbers: the sums of the code need no recursion, which
keeps the module provable.

`counters` keeps the ones the properties use. `captured`, `delivered`, `lost`
and `post.sends` are history.

Abstracted: `lastError`, `onError`, debug output, the totals of `FlushResult`,
`keepalive`, and the content of envelopes. The wall clock is abstracted to "the
budget has run out" (`TimeoutElapses`) and "the timer fires"; `Retry-After` and
the jittered delay become `BackoffElapses`.

The refinement mapping is direct: `accepted` is the counter, `taken` is what has
left the queue, `settled` excludes the batch in flight.

### Session

Sessions are numbered as they are minted, the clock counts ticks, a timer is
the time at which it is due. `Capture`, `Restart`, `End`, `Shutdown`, `Identify`,
`ClearIdentity` and `IssueStart` are the calls; `EndAnswered` and `EndTimesOut`
are the two sides of the race in `end()` and `shutdown()`, whose `finally` block
is `Closed`; `StartAccepted` and `StartUnusable` are answers to session-start,
at any later time; `InactivityTimerFires` and `MaxDurationTimerFires` roll the
session over; `Reload` throws memory away and runs `tryRestore()` on what
storage holds; `Tick` is time, held back only by a timer more than `Lateness`
ticks overdue. `Persist` is `flushStoredSession()`, which may fail without
effect when storage throws.

Abstracted: error reporting, the user agent, the clip capability stored with the
code, blobs of an older format or corrupt ones (both are thrown away by
`tryRestore` or read like the current format), and `removeItem` throwing.

### Replay

`rec` is the `ReplayRecorder`. Its `span` stands for everything `start()` sets
and `teardownState()` clears together: the chunker (session, next sequence
number, open events and running size), the rrweb handle, the upload client and
the age timer. `StartCalled` is `start()` up to its first await;
`PolicyResolves` is what follows the policy provider (trigger and gate, with any
verdict); `RecordingBegins` and `RecordingFails` are what follows the last
await. A start under way is a member of `starts`. `Emit` is an rrweb event
through `add()`, `AgeCut` the age poll, `StopNow` is `stop()` and `Stopped` the
same on a recorder value, for the callers that stop first (`Submit`, `Discard`,
`OnSessionChanged`). A cut chunk is uploaded at once or, in review mode, kept in
the open clip; `Submit` drains the buffer and uploads its chunks one after the
other. An upload is in one of three legs, each with its own retries.
`OnSessionChanged` and `Shutdown` are auto-capture's calls; a capture hands over
a new session or one the page restored. `Reload` drops the page and keeps what
the server has. Keys are (session, sequence number), as on the server.

`cut` and `fate` are history. Abstracted: clip indexes and summaries,
the truncated flag, the digest, the policy gate's inputs, URLs and manifests,
and a wait and the request after it, which are one step.

### ReportWidget

A click handler is async: one action is what it runs up to its next await, and a
handler under way is an entry of `handlers` with the widget it was clicked on.
`w` is the widget now mounted, `r` what it can tell of the recorder. The fields
of `w` are the fields and disabled buttons of the code: `submitting` stands for
the flag and for the three buttons of the controls bar that change with it,
`submitBusy` for the button of the text form, `autoClose` for what the one timer
both forms share will do. `hooks` says whether the host mounted the widget with
its consent hooks; only the client's own widget (without) is mounted again. A
handler of an old widget goes on to run after `Destroy` or `Remount`, and
`IfShown` is what it may still change, as in the code. The history variable `asked`
is what the consent hooks answered since a recording was asked for, and whether the
recorder was off then.

### AutoCapture

One action is one callback of the page, a timer or the application.
`gatedEmit` is the gate: the ceiling is counted first, then `capture()` runs,
which may start a session, and the start resets the count; the whole is one
synchronous step. Clicks feed the rage and dead-click heuristics, submits the
repeated-submit one, errors, requests and long tasks report each occurrence.
`log` records each captured event with its session and, for a report, the trail
it carried; `clicks`, `bursts` and `deads` are history too. Sessions are here only
as the number of the current one.

### PyTransport

There is no timer: events leave when the application awaits `flush()` or
`shutdown()`. A call is `idle`, waiting for the `lock`, on the `wire`, in
`backoff`, or in the session-start of the client's recovery (`start`).
The asyncio lock is the queue of those waiting, holder first. `Answer` takes any outcome
the code tells apart; a 409 puts the batch back at the head (`Requeued`), the
client starts a session and flushes once more, and a second 409 drops the head
of the queue. As in `Transport`, a slot carries an offset so that bytes are a
difference of two numbers. The pipeline is not compared with
`EventPipeline`: a rejected batch returns to the queue, which that abstraction
rules out, and `PipelineInOrder` states the order directly.

### PySession

Threads are real: one action is one section under the `RLock`. What a method does
after it released the lock is a later action of the same thread:
`NoteActivity` of a capture, and the submission of an end (`ThreadSubmitsEnd`,
`CallbackSubmitsEnd`). A timer that fires becomes a callback that may be anywhere before the lock; cancelling
it then does nothing, and `Rollover` ends whatever session it finds active.
`started` and `ends` count.

### The stateless modules

`ScrubberRules` works on texts made of fragments a rule finds or does not (an e-mail,
a social security number, a run of digits, plain words); a rule replaces the
fragments it finds, one pass after another, with both SDKs' checksums. `Scrubber`
has both SDKs' walks over trees of such texts; the time budget is a number of
visits. The recursion of the code is along the depth of a value: a walk over values
nested up to `n` deep is a function that uses the walk over those one less deep, up
to `MaxNesting`, and its loop over the items of a list or bag is one along their
number. `Masking` works on chains of elements. `Config` has
each option's check in the order of the code, in both languages, and the replay
policy with its merge and its gate. `Ulid` has both encoders, with the sizes as
constants: the divisions of `encodeTimestamp()` and `_encode_base32()`, the bit
reader of `encodeRandomness()` byte by byte and character by character, and the one
number Python makes of the bytes. `Envelope` has the payloads both SDKs build and
the schemas as predicates; an object is put together with `Object` from parts that
share no field. `Operators` has one variable, the input given; a step picks one
input of one kind, and an invariant says what the functions make of it; `Payloads`
does the same for bags, identifiers and payloads.
The patterns of `ScrubberRules` are read in two dialects, ECMAScript and Python, which
differ for digits of another script (`Foreign`) and for a letter beside a number that
is not ASCII (`Bordered`). An endpoint keeps its path and the slashes at its end until
an SDK makes an address of it.
An operator that says the same of two inputs, secrets apart, says nothing of the
secrets: this is how `DescriptorsLeakNothing` puts it for the values of queries.

## 3. Runs

All bounds are named constants; the caps of the code are scaled down so that a
handful of captures crosses each of them.

| Run | Checks | Bounds and why they are enough |
|---|---|---|
| `transport` | `PipelineOrder`, `NoStrandedEvents`, `BackpressureHasADrain`, `BoundedPosts`, refinement of `EventPipeline` | four captures of sizes 1 (fits), 2 (the single-event cap) and 3 (too large); a batch of 2 events or 3 bytes, a queue of 3 events or 4 bytes: every cap is met from below and above, alone and together. Three activations, which are interchangeable (symmetry): one owns the batch, two chain behind it. A capture that finds a batch ready starts an activation of its own, so three are needed to fill the queue past one batch. 878 369 states. |
| `transport_live` | `EventsSettle`, `CallsReturn` | three captures into a queue of 2: enough to latch back-pressure and to lift it. 58 253 states. |
| `session` | `SupportCodeIsOwn`, `RolloverIsEarned`, `BlobIsFresh`, `StartNamesIdentity`, `AgeBound`, `EndedStaysEnded` | three sessions, two concurrent closes, one start request per session in flight, eight ticks with an idle time of 2 and a maximum of 3: a session can be kept alive by activity, reach its cap, be restored and reach it again. |
| `session_live` | `SessionsRoll` | two sessions, one close, storage writes that may throw, eight ticks (twice the maximum and a margin). 172 938 states. |
| `replay` | `ChunkInOnePlace`, `BufferAccounting`, `OneObserver`, `ClipsOfBoundSession`, `ChunkKeysFresh` | two events of 1 (small), 2 (with the envelope, more than half a chunk) or 4 bytes (over the cap), two clips, two sessions, two interchangeable submits (symmetry), a buffer of 5 bytes: a chunk is cut before an event, by age and by a stop, and the second chunk may find the buffer full. No retries: `replay_live` has them, they change nothing but the attempt. 153 169 states. |
| `replay_live` | `SubmitReturns` | review mode, three events, two clips, two submits, a reload: a submit with several chunks, each retried in each leg. 20 707 states. |
| `py_transport` | `PipelineInOrder`, `QueueBounded`, `ShutdownCloses`, `CallsReturn` | two concurrent calls, a batch of 2 events or 3 bytes, a queue of 1 event or 3 bytes, sizes 1, 3 (a full batch) and 4 (too large), one retry, three accepted events: a batch is refused while the queue refills, twice, with another call waiting for the lock. 122 426 states. |
| `py_session` | `OneEndPerSession`, `TimersFollowState`, `EverySessionEnds` | two threads, three callbacks (both timers of one session and one of the next), four sessions: a callback that lost its race meets a session it was not armed for. 107 699 states. |
| `widget` | `SubmitsOnce`, `SingleClipIsVisible`, `RecordingIsConsented` | three interchangeable handlers (one awaiting its hook, one its start, one its uploads), three mounts, four recorded spans. 28 114 states. |
| `autocapture` | `CeilingPerSession`, `TrailIsRecent`, `BurstsAreEarned`, `DeadClicksAreSpaced` | two targets, one of them interactive, a form, two interchangeable addresses, a ceiling of 1, thresholds of 2, windows of 1 tick, a ring of 2, two ticks, four clicks or captured events, two sessions, one request in flight: each threshold is met within and across a window, the ring overflows, a session rolls inside an emit. 1.6 million states. |
| `operators` | `NothingRawEscapes`, `DescriptorsLeakNothing`, `SdksAgree`, `OptionsOnlyTighten`, `PayloadsAreAccepted` | one input each: bags of two items that are texts, scalars or trees of depth 2, with budgets of 0 to 8 visits; runs of up to three digits over 0..9 and of nine over {0, 4, 6} (a digit that stays, one that doubles below ten, one that doubles above); chains of up to four elements with masking, selector and form depths of 3, 2 and 2 (32, 4 and 8 in the code), so that each walk ends before, at and past what masks; up to two options off their defaults; times of 13 bits in 3 characters, past either end too, and five 4-bit bytes in 4 characters, so that bytes and characters do not line up; a page address at and over the 2048 characters the schema allows; host attributes that are empty, known or not; texts in either dialect, endpoints with slashes at their end. 93 601 states. |
| `py_overdrop` | `OnlyPostedEventsAreDropped`, refuted: see section 5 | as `py_transport` |

Ten more configurations refute one documented statement each; they are no part of the
regular runs, and section 5 says what each shows.

Deadlock is checked in the runs of `Transport` and `Session`: some call can
always be made, or time passes. The other runs do not check it, because there the
model really comes to rest: a page or client that is shut down or destroyed with
nothing in flight, or the input that `Operators` was given.

### Fairness

* Transport, `SchedulerFairness`: timers fire, settled promises run their
  continuations, the sleep of a backoff ends, the recovery hook settles (it makes
  one request and catches its failure), callers resume. The event loop
  guarantees these. `NetworkFairness` adds that a request is answered or fails.
  Nothing obliges the application to capture, flush or shut down.
* Session: the clock and the timers of the session. No
  request need ever be answered. `SessionsRoll` covers sessions whose last
  deadline is within the clock's bound.
* Replay: for each submit, a request of its current upload is answered or fails
  (`NetworkFairness`). Nothing else is fair.
* PyTransport: every request is answered or times out (the HTTP client has a
  timeout), a sleep ends, a session-start settles, the lock wakes its first waiter.
  The application is not obliged to flush again.
* PySession: threads run on to the end of the method they are in, callbacks get
  the lock, and an armed maximum-duration timer fires. The inactivity timer need
  not, since captures may postpone it for ever.
* The widget, auto-capture and the operators are checked for safety only.

## 4. Proofs

TLC checks the instances above; TLAPS proves the following for every value of
the constants that satisfies the assumption of the module
(`TransportAssumption` and so on). The assumptions say that counts are natural
numbers and caps positive; that the TypeScript queue holds at least one event and
one batch and a single event fits a batch; that the timers of `Session` have
positive lengths; that the Python resume fraction is below one; that the threads
and callbacks of `PySession` are finitely many; for `Operators`, what any
input is: chains, hooks, classes and queries are sequences, the name of an attribute
has no blanks, a number is a number of tenths, a policy has its fields; for
`Payloads`, that a bag is nested at most `MaxNesting` deep (any natural number, two
at least, since `context` may be added to the attributes), that digits are digits, a
byte has its bits and a page its fields; and for `Ulid`, that the largest time is
below the power of two its characters can hold and that the random bytes and the
random characters have the same number of bits (48 in 50, 80 in 80 in the code).
Nothing else.

`TransportProofs`: type correctness, `PipelineOrder`, `NoStrandedEvents`,
`QueueWithinCaps`, `BatchWithinCaps`, `BackpressureHasADrain`, `BoundedPosts`,
`ClosedAfterShutdown`, and `Spec => PipelineSpec`. None of the invariants is
inductive alone. The inductive invariant says that the slots of the queue are
contiguous (each offset is the end of the slot before it), so that `queueBytes`
is the last end minus the first offset (`BufferInv`); that the batch in flight is
such a run too, with at most one retry envelope of requests, two after a
recovery (`PostInv`); that ids are consecutive from the batch through the queue
(`Numbered`); that an activation awaits only while a batch is in flight
(`CallsInv`); that verdicts cover exactly what was taken before (`VerdictInv`);
and that an open transport with a queued event has somebody coming for it
(`Served`). Back-pressure is never latched on an empty queue because an empty
queue is below both resume fractions and has room for any single event: this is
where `MAX_BATCH_BYTES <= MaxQueueBytes` is needed. `QueueWithinCaps`,
`BatchWithinCaps` and `ClosedAfterShutdown` follow closely from the code and are
proved without a run of their own.

`SessionProofs`: type correctness, `SupportCodeIsOwn`, `RolloverIsEarned`,
`BlobIsFresh`, `StartNamesIdentity`, `AgeBound`, `EndedStaysEnded`. The
inductive invariant relates the manager's fields to the clock (`MgrInv`: an
active session's deadlines are between one and two lengths from its start, and
time never passes a deadline by more than the lateness), the blob to the manager
(`BlobInv`), and bounds ids by the number minted.

`ReplayProofs`: type correctness, `OneObserver`, `ClipsOfBoundSession`,
`ChunkKeysFresh`, `BufferAccounting`, `ChunkInOnePlace`. The
inductive invariant says that sessions are bound in increasing order and that the
sequence mark belongs to the last session recorded (`SpanInv`), that every key of
that session is below the mark and no key is of a later session (`KeysBelow`),
that clips are of the bound session (`ClipsInv`), and that at most one start is
under way, for the bound session and while nothing is recorded (`StartsInv`):
this is why the guard tested before three awaits still holds after them. Each
operation on the recorder has a lemma of its own, which the lemmas on the actions
cite. The second part adds `BufferInv`. Its account (`AccountInv`) ties
`bufferedBytes` to the clips and each clip to its chunks: sums are a recursive
function of the length, so lemmas say what appending to, changing one of and
removing one of the summands does to a sum, and the operations only cite those.
Its places (`PlacesInv`) say that the keys buffered, waiting with a submit, with an
upload and settled are apart from each other, within each kind too, and together
are the keys cut. A chunk is never in two places although the code moves it by
reference between clip, submit and upload, because every move is one step that
takes its key from one of these sets to another. Fresh keys are what makes a chunk
that is cut join them without a clash.

`PyTransportProofs`: type correctness, `PipelineInOrder`, `QueueBounded`,
`LockDiscipline` (the calls inside the transport's `flush()` are exactly those
in the lock's queue, and only its head has a batch in flight) and
`ShutdownCloses`. The whole pipeline, the batch in flight followed by the queue, is one
contiguous run of slots (`PipeInv`); posting a batch and putting it back move the
border and not the run, so a step leaves the run alone, appends to it or takes a
prefix off it. `LockInv` ties the lock, the program counters and the batch
together, and needs to hold of any transport record a method passes on between
two awaits, which is how the lemmas on `PostBatch`, `FlushEnds` and `FlushLoop`
state it.

`PySessionProofs`: type correctness, `TimersFollowState`, which is inductive
beside the types, and `OneEndPerSession`. The last counts: the places where the
end of a session may be (current, with a thread, with a callback, submitted) add
up to one (`Tally`), and the lemma `Handover` says what one step of one thread or
callback does to the number of those that hold it. Cardinalities need finite
sets, hence the assumption.

`ReportWidgetProofs`: type correctness, `SubmitsOnce`, `SingleClipIsVisible`,
`RecordingIsConsented`. What a handler finds after its await depends on which
buttons stayed enabled, so the invariant says what is disabled while a submit is
under way (`SubmitInv`, `WidgetInv`), which handlers belong to the widget now
mounted (`HandlersInv`), that at most one start is under way and a resume is one
(`StartsInv`), what has not happened while the recording asked for has no consent
(`ConsentInv`), and how a widget with a single clip and its recorder go together,
start under way included (`SingleInv`).

`AutoCaptureProofs`: type correctness, `CeilingPerSession`, `TrailIsRecent`,
`BurstsAreEarned`, `DeadClicksAreSpaced`. The code keeps a counter, a ring and a few
timestamps; the properties speak of the history. The invariant says what the first
know of the second. `BudgetInv`: the auto-captured events of the session the counter
is for are at most the count, one more if one of them started it, and no event is of a
later session. `RecentInv`: the ring is the latest part of the log, reports left out.
`BurstInv`: a burst being counted stands for that many clicks since it began.
`SpacingInv`: while installed, the last dead click on a target is remembered, and an
armed click comes a window after it or was armed before it was reported. The ceiling
counts a set of log entries, which is why the types include finite sets.

`OperatorProofs`: `OptionsOnlyTighten`, `OptionsAgree` (the options' part of
`SdksAgree`), `DescriptorsLeakNothing`, `NothingRawEscapes`, `SdksAgree`,
`PayloadsAreAccepted`. There is one input and no history, so the
invariant is `Inputs`, and the work is in the operators.

* Options. A resolver's result is known once all its checks are (`ChecksOfClient` for
  the fifteen of `resolveConfig()`), and the limits then follow field by field; that
  both SDKs accept the same common options is shown check by check.
* Descriptors. `Said` is what one element may say, `FlattenIn` carries that over lists
  of any length, and `RedactedIsClean` that after the five passes a fragment is
  untouched and found by no rule of the dialect, or a token, which no rule finds either:
  a later pass cannot bring back what an earlier one removed. Masking needs no fragment
  at all: a masked element among the first `MAX_MASK_DEPTH`, counted from the target
  (`MaskedIsMasked`) or from its form (`FormIsMasked`, which finds where that walk
  starts), leaves nothing but the mask.
* Scrubbing. `WalkScrubs` and `PyWalkScrubs` go down the depths. What a walk of depth
  `n` makes of a value in a context (`WalkDone`) is a value of the same shape whose
  texts are settled, and a context that has only grown; the loop over its items keeps
  that of all items it passed, tripped or not, so nothing is left raw at any depth
  wherever the visits run out. That the rules named include those of all tokens needs
  the context, which only grows, in the statement. Each walk is held to the rules
  of its own dialect. `WalksAgree` is a second descent: without selectors both walks make
  the same of a portable value, in the same context, since both dialects find the same
  in every fragment of it, checksums included (`DetectsAgrees`, pass by pass
  `TextsAgree`). The code
  tests the budget differently (`walk()` also looks at `exceeded`), and the descent
  shows that it makes no difference: once it tripped, neither visits anything.
* Checksums. `LuhnAgrees`: one SDK adds from the right and doubles every second digit,
  the other from the left by the parity of the length; `SumFromRight` turns one sum
  into the other. Of nine digits the weights are those of Luhn (`SinAgrees`).
* Identifiers. `RandomnessFacts` carries through the bit reader that the number its
  characters make, shifted by the bits left, plus the buffer, is the number of the
  bytes read so far, and that the buffer is below the power of its bits, which
  are less than a character's after each byte: at most 12 bits are ever buffered, as the
  comment at `ulid.ts:65-66` claims. At the end no bits are left, and `ReadBack` shows that
  Python, which divides that number, gets the same characters. `TimesSort` compares
  two times at the last division after which what remains of them differs: there the
  remainders decide, and before that character all are equal.
* Payloads. `TsEnvelope`, `PyEnvelope`, `TsStart` and `PyStart` go through the parts of
  each payload: every part has fields the schema knows, with values it accepts. The
  page is the delicate one: `WithPageFits` shows that attributes stay within the
  schema and the depth when a `context` is added to them, and `ContextGetsPage` that a
  context of the caller's gains only fields it did not have and stays valid. This needs
  the address of the page to be at most 2048 characters long (`FitsTheContext`), since
  `enrichPageContext()` does not cut it.

Induction over the natural numbers is written as an argument about the least
counterexample, from the well-foundedness of `<`, since the induction theorems of the
library take an operator. For the same reason the recursion of the code is modelled
along a number: the depth of a value, the items of a list, the bytes of an identifier.
`StepsExist`, `RecursionOnNat` and the lemmas named after them say that the recursive
functions exist, which their definitions do not.

Only model-checked: the liveness properties (`EventsSettle`, `CallsReturn`,
`SessionsRoll`, `SubmitReturns`, `EverySessionEnds`), since the
prover has no practical support for them, and the refutations. Every invariant and
action property of the runs, and the refinement, is proved.

## 5. Where the code and its documents part

The run `py_overdrop` and ten more configurations refute what a comment or docstring
says: TLC gives a counterexample to the property of the module named.

* `EndedIsNotRestored`, `SessionRestore.cfg` of `MCSession`.
  `session.ts:328-329`: shutdown clears the blob "so the next page
  load starts a fresh session". A session-start answer that arrives during the awaited
  session-end passes the current-id guard (line 443) and writes the blob back.
* `SequenceContinues`, `ReplayReload.cfg` of `MCReplayPages`.
  `recorder.ts:139-143`: the sequence must continue within a session,
  or recordings are overwritten. The mark (line 145) is in memory, the session survives
  a reload.
* `ShutdownIsFinal`, `ReplayShutdown.cfg` of `MCReplay`.
  `recorder.ts:10`: tear down on `shutdown()`. A shutdown during an
  awaited start finds nothing to stop; recording then begins.
* `RefusalAborts`, `WidgetRefusal.cfg` of `MCReportWidget`.
  `report-widget.ts:84-88`: a rejected `onRecordStart` aborts
  recording, "fail-closed". A resume whose start is pending survives a discard; the next
  click on record asks its hook, which rejects, and the pending start then records.
  `RecordingIsConsented` is what does hold: a recorder that was off when the recording
  was asked for stays off until a hook asked since resolves.
* `BurstsAreSeen`, `RageWindow.cfg` of `MCAutoCapture`.
  `rage-click.ts:4-5`: clicks within a sliding window. The window is
  anchored at the first click of a burst, and a burst that straddles two is missed.
* `OneDeadClickPerWindow`, `DeadClicks.cfg` of `MCAutoCapture`.
  `dead-click.ts:17`: at most once per target and window. Two clicks on
  one target may both be pending before either is flagged. `DeadClicksAreSpaced` is what
  does hold.
* `MaskedAncestorsMask`, `DeepMasking.cfg` of `MCOperators`.
  `selector.ts:17-20`: an element is masked when an ancestor is. The
  walk ends after 32 elements (line 133), and an element further below is described.
* `TextsAreReadAlike`, `Dialects.cfg` of `MCOperators`.
  `scrubber-rules.ts:49-52`, `scrubber-rules.matrix.json:3`: both engines
  compile identical semantics. `scrubber.py:172` compiles for Unicode, so that `\d` and
  `\b` differ from ECMAScript outside ASCII, and either SDK passes on numbers the other
  redacts.
* `PythonBudgetIsKept`, `NanBudget.cfg` of `MCOperators`.
  `config.py:159-161`: the budget is at most 4.0. NaN passes both
  comparisons (lines 155-156) and is kept. (The budget is only stored: nothing reads
  it yet.)
* `TimersEndTheirOwn`, `PyStaleTimer.cfg` of `MCPySession`.
  `session.py:19-20`: the limit on duration is anchored on the
  session's own start. A fired timer ends whichever session is active when it gets the
  lock (line 407).
* `OnlyPostedEventsAreDropped`, the run `py_overdrop`.
  `client.py:191-192`: after a second 409 "the offending batch is
  dropped". `client.py:221` drops up to a full batch from the head of the queue. Events
  captured since the batch was put back, or the batch of another flush, are among what
  is dropped though no request ever carried them.

The models make more such readings visible; of these there is no counterexample on file.

Transport and sessions (TypeScript):

* `transport.ts:449` promises control back once the timeout elapses; the budget is
  compared between batches only (line 375).
* `flush()` made after the last batch was taken returns `completed: true` while
  that batch is in flight, since the loop is entered only while the queue is
  non-empty (`transport.ts:363-367` speaks of calls made while a flush is running).
* A batch is posted up to six times, not "5 attempts total" (`BoundedPosts` states
  the real bound, `sdk/typescript/README.md:202-203`).
* `sdk/typescript/README.md:151-154`: `end()` clears the current session and later
  captures start a fresh one. A capture during the awaited session-end starts a
  session that the `finally` block (`session.ts:311`) then drops; its blob and
  timers stay.
* A reload restarts the maximum-duration timer, so "hard-capped at 12 hours"
  (`sdk/typescript/README.md:134-137`) is really just under 24 (`AgeBound`).

Replay:

* `recorder.ts:10`: tie start and stop to the session lifecycle. A session change
  during an awaited start is refused by the guard at line 195, and recording then
  begins for the old session.
* `chunker.ts:11-13`: no chunk over the cap. The envelope is reckoned at 64 bytes
  (line 195) and takes 67 or more.
* A chunk whose third leg fails leaves an object on the server that no manifest names,
  and one cut after its open clip was removed is dropped; no document rules either out.

Report widget:

* Both forms share one auto-close timer (`report-widget.ts:516-545`). A text submit
  within 1.5 s of a clip submit replaces the reset of the clip form; a click on
  record clears the timer of the text form and leaves its button disabled.
* `destroy()` during a start in flight stops nothing; recording then begins with no
  frame to show it.
* A late session-start acceptance mounts the widget again after
  `client.shutdown()` (`client.ts:223`).

Auto-capture:

* The first auto-captured event is counted before the session it starts resets the
  count, so that session gets one more than the ceiling (`CeilingPerSession` states
  the real bound). After the ceiling is reached and the session has ended, nothing
  is auto-captured until the application captures something.
* A `fetch` in flight at shutdown may report afterwards.
* `reportProblem()` reads the support code before the capture that may start a new
  session (`client.ts:461`).

Python:

* `issue_start()` on a closed manager starts a session, where `session.py:309` calls it
  inert.
* `client.py:231` closes the HTTP client right after the last session-end was
  submitted to it.

Where the two SDKs differ; `CommonOptions` of `Operators`, and `FollowsTheSchema` and
`KnownAttributes` of `Payloads`, name what `SdksAgree` and `PayloadsAreAccepted` leave
out for it:

* Endpoints. Python strips the slashes at the end (`config.py:178`) and writes the path
  behind what is left, a prefix included (`transport.py:250`); TypeScript keeps the
  endpoint as given and replaces its path (`transport.ts:509`). Without a prefix both
  post to the same address, which is what `OptionsAgree` states. The key of the stored
  session is a hash of the endpoint as given (`session.ts:129-131`), slashes included.
* Options. Python takes NaN and True for the hook's timeout and rejects one over
  the maximum, which TypeScript clamps; Python wants whole session timeouts;
  TypeScript ignores a `debug` that is no boolean; plain http is allowed for `.local`
  (TypeScript) or `.localhost` (Python); a key of blanks; handlers that are no
  function.
* Events. Python drops a duration or status of 0 (`envelope.py:132-133`) and passes
  on the caller's session id and time unchecked; TypeScript lets a reserved type such
  as `view.mine` through (`envelope.ts:14`); neither checks lengths and ranges, and a
  page address longer than 2048 characters makes a context the schema refuses
  (`client.ts:77-80`). Python's `identify("")` sends an empty user id, a leftover of
  the host's session attributes is sent under a key the schema refuses
  (`session.py:475-476`), and `build_start_payload` empties the host's own dictionary.
* Scrubbing (one SDK against its own comments). When the Python budget
  trips on a bag, a number that a mask selector names and that was not reached stays
  as it is (`scrubber.py:333-340`), where lines 266-270 promise to mask it regardless
  of content. Digit groups next to a card number can join its match and spoil its
  checksum. An address that does not parse and has no `?` keeps its fragment
  (`url.ts:63-70`, where lines 49-55 promise none).

## 6. Plan

Done: every module of section 2, with its runs, mutants and proofs. Left, most
important first:

1. `Session` composed with `Transport` (a server that forgets sessions, the recovery
   hook and the order of `shutdown()`), and with `Replay` (what is recorded between the
   end of a session and the capture that starts the next one). The components are
   large enough that each composition needs smaller abstract versions of its parts.
2. `capture()` of the Python client over `PySession` and `PyTransport`.
3. Liveness of the report widget: a submit whose uploads settle is confirmed.

## 7. Not modelled

* The regular expressions of the scrubber. A text is fragments that a rule finds or
  not; what joins two fragments or splits one is not told apart. Nor are numbers that
  mix digits of several scripts, and letters that are like one of ASCII but for their
  case.
* Queries and hashes of endpoints, and `readMaskedValue()`, which nothing in the SDK
  calls.
* DOM construction, styles and layout of the widget; CSS matching, which is an input
  of `Masking`; the browser's observers.
* The probing of the runtime and the choice of a transport it leads to.
* The conformance harness (a test client that drives requests one after the other),
  build scripts, hooks and workflows: no run-time behaviour of the system. Of the
  schemas, only the two request bodies the SDKs build are modelled; the other
  declarations have no behaviour.
* The server and rrweb are external: they answer with any outcome the code tells
  apart.
