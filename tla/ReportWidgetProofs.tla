-------------------------- MODULE ReportWidgetProofs --------------------------
(***************************************************************************)
(* Machine-checked proofs about ReportWidget, for any number of handlers   *)
(* under way, of mounts and of recorded spans.                             *)
(*                                                                         *)
(* What a handler may find after its await is what the buttons that stayed *)
(* enabled could do meanwhile.  WidgetInv and SubmitInv say which buttons  *)
(* those are while a submit is under way, StartsInv that at most one start *)
(* of the recorder is, ConsentInv what cannot happen as long as no consent *)
(* was given to the recording asked for, SingleInv how a widget with one   *)
(* clip and its recorder go together.                                      *)
(***************************************************************************)
EXTENDS ReportWidget, TLAPS

(* The handler's widget is the one that is mounted. *)
Mine(h) == handlers[h].mount = w.mount /\ w.attached

HandlersInv ==
  \A h \in Handler :
    /\ handlers[h].mount <= w.mount
    /\ handlers[h].kind # "none" => handlers[h].mount >= 1
    /\ handlers[h].pc # "done" => handlers[h].kind # "none"

WidgetInv ==
  /\ w.open => w.attached
  /\ w.ui => w.attached /\ w.recState # "idle"
  /\ w.autoClose = "clips" => w.submitting

(* While a submit is under way the controls are disabled, nothing is going *)
(* to enable them, and the recording is not over.                          *)
SubmitInv ==
  \A h \in Handler :
    handlers[h].kind = "submit" /\ Mine(h) =>
      w.submitting /\ w.autoClose # "clips" /\ w.recState \in {"recording", "paused"}

(* One handler at most has started the recorder, and a resume is nothing   *)
(* but a start.                                                            *)
StartsInv ==
  /\ \A h \in Handler : handlers[h].pc = "start" => r.starting
  /\ \A h, k \in Handler : handlers[h].pc = "start" /\ handlers[k].pc = "start" => h = k
  /\ \A h \in Handler : handlers[h].kind = "resume" => handlers[h].pc = "start"

Unconsented == hooks /\ asked.fresh /\ asked.answer # "given"

ConsentInv ==
  /\ hooks => w.mount = 1
  /\ Unconsented =>
       /\ w.recState \in {"idle", "submitted"}
       /\ ~r.recording /\ ~r.starting
       /\ \A h \in Handler : handlers[h].kind \in {"none", "record"} /\ handlers[h].pc \in {"done", "hook"}

Single == ~w.multi /\ ~hooks /\ w.mount = 1 /\ w.attached

SingleInv ==
  Single =>
    /\ r.recording => w.ui /\ w.recState = "recording"
    /\ r.starting => w.recState \in {"idle", "submitted"} /\ ~r.recording
    /\ r.starting \/ r.recording =>
         w.autoClose # "clips" /\ \A h \in Handler : handlers[h].kind # "submit"
    /\ \A h \in Handler :
         /\ handlers[h].pc # "hook"
         /\ handlers[h].pc = "start" => r.starting /\ handlers[h].kind = "record"
    /\ \A h, k \in Handler : handlers[h].pc = "start" /\ handlers[k].pc = "start" => h = k

IInv ==
  /\ TypeOK /\ HandlersInv /\ WidgetInv /\ SubmitInv /\ SubmitsOnce
  /\ StartsInv /\ ConsentInv /\ SingleInv

-----------------------------------------------------------------------------
(* What the operators on a widget do, field by field.                      *)

Kept(v, u) == u.mount = v.mount /\ u.attached = v.attached /\ u.multi = v.multi

LEMMA ShownFields ==
  ASSUME NEW v \in Widget, NEW kind
  PROVE  /\ Shown(v, kind) \in Widget /\ Kept(v, Shown(v, kind))
         /\ Shown(v, kind).recState = "recording"
         /\ Shown(v, kind).submitting = v.submitting
         /\ Shown(v, kind).autoClose = v.autoClose
         /\ kind = "record" => Shown(v, kind).ui /\ ~Shown(v, kind).open
         /\ kind # "record" => Shown(v, kind).ui = v.ui /\ Shown(v, kind).open = v.open
  BY DEF Shown, Widget, RecState, Kept

LEMMA SubmittedFields ==
  ASSUME NEW v \in Widget
  PROVE  /\ Submitted(v) \in Widget /\ Kept(v, Submitted(v))
         /\ Submitted(v).recState = "submitted" /\ Submitted(v).autoClose = "clips"
         /\ Submitted(v).submitting = v.submitting
         /\ Submitted(v).ui = v.ui /\ Submitted(v).open = v.open
  BY DEF Submitted, Widget, RecState, Kept

LEMMA FreshFields ==
  ASSUME NEW v \in Widget
  PROVE  /\ FreshRecording(v) \in Widget /\ Kept(v, FreshRecording(v))
         /\ FreshRecording(v).autoClose = "none" /\ ~FreshRecording(v).submitting
         /\ FreshRecording(v).recState = v.recState
         /\ FreshRecording(v).ui = v.ui /\ FreshRecording(v).open = v.open
  BY DEF FreshRecording, Widget, Kept

Blank(v, n) ==
  /\ v \in Widget /\ v.mount = n
  /\ ~v.open /\ v.recState = "idle" /\ ~v.submitting /\ ~v.ui /\ v.autoClose = "none"

LEMMA MountedFields ==
  ASSUME NEW n \in 1..MaxMounts, NEW multi \in BOOLEAN
  PROVE  /\ Blank(Mounted(n, multi), n)
         /\ Blank([Mounted(n, multi) EXCEPT !.attached = FALSE], n)
         /\ ~[Mounted(n, multi) EXCEPT !.attached = FALSE].attached
<1>1. Mounted(n, multi) \in Widget
  BY DEF Mounted, Widget, RecState
<1>2. [Mounted(n, multi) EXCEPT !.attached = FALSE] \in Widget
  BY <1>1 DEF Widget
<1> QED
  BY <1>1, <1>2 DEF Mounted, Blank

LEMMA RecorderFields ==
  ASSUME NEW rec \in Recorder
  PROVE  /\ Stopped(rec) \in Recorder /\ ~Stopped(rec).recording
         /\ Stopped(rec).starting = rec.starting /\ Stopped(rec).clips = rec.clips
         /\ Discarded(rec) \in Recorder /\ ~Discarded(rec).recording
         /\ Discarded(rec).starting = rec.starting
         /\ [rec EXCEPT !.starting = TRUE] \in Recorder
         /\ [rec EXCEPT !.starting = TRUE].starting
         /\ [rec EXCEPT !.starting = TRUE].recording = rec.recording
         /\ [rec EXCEPT !.starting = FALSE] \in Recorder
         /\ ~[rec EXCEPT !.starting = FALSE].starting
         /\ [rec EXCEPT !.starting = FALSE].recording = rec.recording
  BY DEF Recorder, Stopped, Discarded

LEMMA InitIInv == Init => IInv
<1> SUFFICES ASSUME Init PROVE IInv
  OBVIOUS
<1>1. PICK multi \in BOOLEAN : w = Mounted(1, multi)
  BY DEF Init
<1>2. 1 \in 1..MaxMounts
  BY ReportWidgetAssumption
<1>3. /\ w \in Widget /\ w.mount = 1 /\ ~w.open /\ w.recState = "idle" /\ ~w.ui
      /\ w.autoClose = "none"
  <2>1. Blank(w, 1)
    BY <1>1, <1>2, MountedFields
  <2> QED
    BY <2>1 DEF Blank
<1>4. r \in Recorder /\ ~r.recording /\ ~r.starting
  BY ReportWidgetAssumption DEF Init, Recorder
<1>5. \A h \in Handler : handlers[h].kind = "none" /\ handlers[h].pc = "done" /\ handlers[h].mount = 0
  BY DEF Init, NoHandler
<1>6. handlers \in [Handler -> HandlerState]
  BY ReportWidgetAssumption DEF Init, NoHandler, HandlerState
<1>7. TypeOK
  BY <1>3, <1>4, <1>6 DEF Init, TypeOK, Asked, AskedAnew
<1>8. HandlersInv /\ WidgetInv /\ SubmitInv /\ SubmitsOnce
  BY <1>3, <1>5 DEF HandlersInv, WidgetInv, SubmitInv, SubmitsOnce
<1>9. StartsInv /\ ConsentInv /\ SingleInv
  BY <1>3, <1>4, <1>5 DEF StartsInv, ConsentInv, SingleInv
<1> QED
  BY <1>7, <1>8, <1>9 DEF IInv

-----------------------------------------------------------------------------
(* Steps                                                                   *)

(* Handler h goes on with d, the others are where they were. *)
Goes(h, d) ==
  /\ d \in HandlerState
  /\ d.mount <= w'.mount
  /\ d.kind # "none" => d.mount >= 1
  /\ d.pc # "done" => d.kind # "none"
  /\ handlers' = [handlers EXCEPT ![h] = d]

LEMMA GoesFields ==
  ASSUME IInv, NEW h \in Handler, NEW d, Goes(h, d), w'.mount \in Nat, w'.mount >= w.mount
  PROVE  /\ handlers' \in [Handler -> HandlerState]
         /\ handlers'[h] = d
         /\ \A k \in Handler : k # h => handlers'[k] = handlers[k]
         /\ HandlersInv'
<1>1. handlers' \in [Handler -> HandlerState] /\ handlers'[h] = d
  BY DEF IInv, TypeOK, Goes
<1>2. \A k \in Handler : k # h => handlers'[k] = handlers[k]
  BY DEF IInv, TypeOK, Goes
<1>3. HandlersInv'
  <2>1. w.mount \in Nat /\ \A k \in Handler : handlers[k].mount \in Nat
    BY ReportWidgetAssumption DEF IInv, TypeOK, Widget, HandlerState
  <2> QED
    BY <1>1, <1>2, <2>1 DEF IInv, HandlersInv, Goes
<1> QED
  BY <1>1, <1>2, <1>3

LEMMA NothingGoes == NoHandler \in HandlerState /\ NoHandler.kind = "none"
                     /\ NoHandler.pc = "done" /\ NoHandler.mount = 0
  BY ReportWidgetAssumption DEF NoHandler, HandlerState

(* The widget a start is called on: the one mounted, or that one made      *)
(* ready for a fresh recording.                                            *)
Ready(v, mount) ==
  /\ v \in Widget /\ Kept(w, v)
  /\ v.recState = w.recState /\ v.ui = w.ui /\ v.open = w.open
  /\ \/ v.submitting = w.submitting /\ v.autoClose = w.autoClose
     \/ v.autoClose = "none" /\ mount = w.mount /\ w.attached /\ w.recState \notin {"recording", "paused"}

LEMMA CallStartKeeps ==
  ASSUME IInv, NEW h \in Handler, NEW kind \in {"record", "resume"}, NEW mount \in 1..w.mount,
         NEW v, Ready(v, mount), CallStart(h, kind, mount, v),
         UNCHANGED hooks, asked' \in Asked, ~Unconsented',
         Single => kind = "record" /\ v.autoClose = "none" /\ w.recState \notin {"recording", "paused"}
  PROVE  IInv'
<1> DEFINE started == [kind |-> kind, pc |-> "start", mount |-> mount]
           u == Shown(v, kind)
<1>1. /\ w \in Widget /\ r \in Recorder /\ w.mount \in 1..MaxMounts
      /\ handlers \in [Handler -> HandlerState] /\ hooks \in BOOLEAN
  BY DEF IInv, TypeOK, Widget
<1>2. /\ u \in Widget /\ Kept(w, u) /\ u.recState = "recording"
      /\ u.submitting = v.submitting /\ u.autoClose = v.autoClose
      /\ kind = "record" => u.ui /\ ~u.open
      /\ kind # "record" => u.ui = v.ui /\ u.open = v.open
  BY ShownFields DEF Ready, Kept
<1>3. /\ w' = w \/ w' = v \/ (w' = u /\ r.recording)
      /\ w' # w => w.attached /\ mount = w.mount
      /\ mount = w.mount /\ w.attached => w' = v \/ (w' = u /\ r.recording)
  BY DEF CallStart, IfShown
<1> HIDE DEF u
<1>4. w' \in Widget /\ Kept(w, w')
  BY <1>1, <1>2, <1>3 DEF Ready, Kept
<1>5. PICK d \in {NoHandler, started} : Goes(h, d)
  <2>1. started \in HandlerState
    BY <1>1, ReportWidgetAssumption DEF HandlerState
  <2>2. handlers' = [handlers EXCEPT ![h] = NoHandler] \/ handlers' = [handlers EXCEPT ![h] = started]
    BY DEF CallStart
  <2> QED
    BY <1>1, <1>4, <2>1, <2>2, NothingGoes, ReportWidgetAssumption DEF Goes, Kept
<1>6. d.kind # "submit" /\ d.pc # "hook"
  BY NothingGoes
<1>7. /\ handlers' \in [Handler -> HandlerState] /\ handlers'[h] = d
      /\ \A k \in Handler : k # h => handlers'[k] = handlers[k]
      /\ HandlersInv'
  BY <1>1, <1>4, <1>5, GoesFields DEF Kept
<1>8. \/ r' = r /\ (r.recording \/ r.starting) /\ d = NoHandler
      \/ r' = [r EXCEPT !.starting = TRUE] /\ ~r.recording /\ ~r.starting
  <2>1. CASE r.recording \/ r.starting
    <3>1. r' = r /\ handlers' = [handlers EXCEPT ![h] = NoHandler]
      BY <2>1 DEF CallStart
    <3>2. handlers'[h] = NoHandler
      BY <1>1, <3>1
    <3> QED
      BY <1>7, <2>1, <3>1, <3>2
  <2>2. CASE ~(r.recording \/ r.starting)
    BY <2>2 DEF CallStart
  <2> QED
    BY <2>1, <2>2
<1>9. r' \in Recorder /\ (r'.recording <=> r.recording) /\ (r.starting => r'.starting)
        <2>1. CASE r' = r
    BY <1>1, <2>1
  <2>2. CASE r' = [r EXCEPT !.starting = TRUE] /\ ~r.recording /\ ~r.starting
    BY <1>1, <2>2, RecorderFields
  <2> QED
    BY <1>8, <2>1, <2>2
<1>10. TypeOK'
  BY <1>1, <1>4, <1>7, <1>9 DEF TypeOK
<1>11. WidgetInv'
  <2>1. /\ w.open => w.attached
        /\ w.ui => w.attached /\ w.recState # "idle"
        /\ w.autoClose = "clips" => w.submitting
    BY DEF IInv, WidgetInv
  <2>2. CASE w' = w
    BY <2>1, <2>2 DEF WidgetInv
  <2>3. CASE w' # w /\ w' = v
    BY <1>3, <2>1, <2>3 DEF WidgetInv, Ready, Kept
  <2>4. CASE w' # w /\ w' = u
    <3>1. w'.attached /\ w'.recState # "idle"
      BY <1>2, <1>3, <2>4 DEF Kept
    <3>2. w'.autoClose = "clips" => w'.submitting
      BY <1>2, <2>1, <2>4 DEF Ready
    <3> QED
      BY <3>1, <3>2 DEF WidgetInv
  <2> QED
    BY <1>3, <2>2, <2>3, <2>4
<1>12. SubmitInv'
  BY <1>2, <1>3, <1>4, <1>6, <1>7 DEF IInv, SubmitInv, Mine, Ready, Kept
<1>13. SubmitsOnce'
  BY <1>6, <1>7 DEF IInv, SubmitsOnce
<1>14. StartsInv' /\ ConsentInv'
  <2>1. d.kind = "resume" => d.pc = "start"
    BY NothingGoes
  <2>2. d.pc = "start" => r'.starting /\ ~r.starting
    <3>1. CASE d = NoHandler
      BY <3>1, NothingGoes
    <3>2. CASE r' = [r EXCEPT !.starting = TRUE] /\ ~r.recording /\ ~r.starting
      BY <1>1, <3>2, RecorderFields
    <3> QED
      BY <1>8, <3>1, <3>2
  <2>3. StartsInv'
    BY <1>7, <1>9, <2>1, <2>2 DEF IInv, StartsInv
  <2> QED
    BY <1>4, <2>3 DEF IInv, ConsentInv, Kept
<1>15. SingleInv'
  <2> SUFFICES ASSUME Single' PROVE SingleInv'
    BY DEF SingleInv
  <2>1. Single
    BY <1>4 DEF Single, Kept
  <2>2. /\ r.recording => w.ui /\ w.recState = "recording"
        /\ r.starting => w.recState \in {"idle", "submitted"} /\ ~r.recording
        /\ r.starting \/ r.recording =>
             w.autoClose # "clips" /\ \A k \in Handler : handlers[k].kind # "submit"
        /\ \A k \in Handler :
             /\ handlers[k].pc # "hook"
             /\ handlers[k].pc = "start" => r.starting /\ handlers[k].kind = "record"
        /\ \A k, l \in Handler : handlers[k].pc = "start" /\ handlers[l].pc = "start" => k = l
    BY <2>1 DEF IInv, SingleInv
  <2>3. kind = "record" /\ v.autoClose = "none" /\ w.recState \notin {"recording", "paused"}
    BY <2>1
  <2>4. ~r.recording
    BY <2>2, <2>3
  <2>5. w' = w \/ w' = v
    BY <1>3, <2>4
  <2>6. w'.recState = w.recState /\ w.recState \in {"idle", "submitted"}
    BY <1>1, <2>3, <2>5 DEF Ready, Widget, RecState
  <2>7. \A k \in Handler : handlers[k].kind # "submit"
    BY <1>1, <2>1, <2>3 DEF IInv, SubmitInv, Mine, Single, HandlersInv, HandlerState
  <2>8. \A k \in Handler : handlers'[k].kind # "submit" /\ handlers'[k].pc # "hook"
    BY <1>6, <1>7, <2>2, <2>7
  <2>9. r'.starting => w'.autoClose # "clips"
    <3>1. CASE w' = v
      BY <2>3, <3>1
    <3>2. CASE w' = w /\ mount = w.mount
      BY <1>3, <2>1, <2>3, <2>4, <3>2 DEF Single
    <3>3. mount = w.mount
      BY <2>1 DEF Single
    <3> QED
      BY <2>5, <3>1, <3>2, <3>3
  <2>10. \A k \in Handler : handlers'[k].pc = "start" => r'.starting /\ handlers'[k].kind = "record"
    <3>1. ASSUME NEW k \in Handler, k # h, handlers'[k].pc = "start"
          PROVE  r'.starting /\ handlers'[k].kind = "record"
      BY <3>1, <1>7, <1>9, <2>2
    <3>2. ASSUME d.pc = "start" PROVE r'.starting /\ d.kind = "record"
      <4>1. d = started /\ d # NoHandler
        BY <3>2, NothingGoes
      <4>2. r' = [r EXCEPT !.starting = TRUE]
        BY <1>8, <4>1
      <4> QED
        BY <1>1, <2>3, <4>1, <4>2, RecorderFields
    <3> QED
      BY <1>7, <3>1, <3>2
  <2>11. \A k, l \in Handler : handlers'[k].pc = "start" /\ handlers'[l].pc = "start" => k = l
    BY <1>7, <1>8, <2>2, NothingGoes
  <2> QED
    BY <1>9, <2>4, <2>6, <2>8, <2>9, <2>10, <2>11 DEF SingleInv
<1> QED
  BY <1>7, <1>10, <1>11, <1>12, <1>13, <1>14, <1>15 DEF IInv

LEMMA ClickRecordKeeps == ASSUME IInv, NEW h \in Handler, ClickRecord(h) PROVE IInv'
<1> DEFINE v == FreshRecording(w)
           d == [kind |-> "record", pc |-> "hook", mount |-> w.mount]
<1>1. /\ w \in Widget /\ r \in Recorder /\ w.mount \in 1..MaxMounts /\ w.mount \in Nat
      /\ handlers \in [Handler -> HandlerState] /\ hooks \in BOOLEAN /\ asked' \in Asked
  BY ReportWidgetAssumption DEF IInv, TypeOK, Widget, ClickRecord, Asked, AskedAnew
<1>2. w.attached /\ w.recState \notin {"recording", "paused"}
  BY DEF ClickRecord, MayRecord, IInv, WidgetInv
<1>3. /\ v \in Widget /\ Kept(w, v) /\ v.autoClose = "none" /\ ~v.submitting
      /\ v.recState = w.recState /\ v.ui = w.ui /\ v.open = w.open
  BY <1>1, FreshFields
<1> HIDE DEF v
<1>4. CASE ~hooks
  <2>1. CallStart(h, "record", w.mount, v)
    BY <1>4 DEF ClickRecord, v
  <2>2. Ready(v, w.mount)
    BY <1>2, <1>3 DEF Ready
  <2> QED
    BY <1>1, <1>2, <1>3, <1>4, <2>1, <2>2, CallStartKeeps DEF ClickRecord, Unconsented
<1>5. CASE hooks
  <2>1. w' = v /\ handlers' = [handlers EXCEPT ![h] = d] /\ UNCHANGED <<r, hooks>>
    BY <1>5 DEF ClickRecord, v
  <2>2. d \in HandlerState
    BY <1>1 DEF HandlerState
  <2>3. w'.mount = w.mount
    BY <1>3, <2>1 DEF Kept
  <2>4. Goes(h, d)
    BY <1>1, <2>1, <2>2, <2>3 DEF Goes
  <2>5. /\ handlers' \in [Handler -> HandlerState] /\ handlers'[h] = d
        /\ \A k \in Handler : k # h => handlers'[k] = handlers[k]
        /\ HandlersInv'
    BY <1>1, <2>3, <2>4, GoesFields
  <2>6. TypeOK'
    BY <1>1, <1>3, <2>1, <2>5 DEF TypeOK
  <2>7. WidgetInv'
    BY <1>3, <2>1 DEF IInv, WidgetInv, Kept
  <2>8. SubmitInv'
    BY <1>2, <1>3, <2>1, <2>5 DEF IInv, SubmitInv, Mine, Kept
  <2>9. SubmitsOnce'
    BY <2>5 DEF IInv, SubmitsOnce
  <2>10. StartsInv' /\ ConsentInv'
    <3>1. StartsInv'
      BY <2>1, <2>5 DEF IInv, StartsInv
    <3>2. hooks' => w'.mount = 1
      BY <2>1, <2>3 DEF IInv, ConsentInv
    <3>3. ASSUME Unconsented'
          PROVE  /\ ~r.recording /\ ~r.starting
                 /\ \A k \in Handler : handlers[k].kind \in {"none", "record"} /\ handlers[k].pc \in {"done", "hook"}
      <4>1. CASE asked' = asked
        BY <2>1, <3>3, <4>1 DEF IInv, ConsentInv, Unconsented
      <4>2. CASE asked' = AskedAnew(r) /\ ~\E k \in Handler : handlers[k].kind = "record"
        <5>1. ~r.recording /\ ~r.starting
          BY <1>1, <3>3, <4>2 DEF Unconsented, AskedAnew, Recorder
        <5>2. \A k \in Handler : handlers[k].kind # "resume" /\ handlers[k].pc # "start"
          BY <5>1 DEF IInv, StartsInv
        <5>3. \A k \in Handler : handlers[k].kind # "submit"
          BY <1>1, <1>2, <1>5 DEF IInv, SubmitInv, Mine, ConsentInv, HandlersInv, HandlerState
        <5>4. \A k \in Handler : handlers[k].kind = "none" /\ handlers[k].pc = "done"
          BY <1>1, <4>2, <5>2, <5>3 DEF IInv, HandlersInv, HandlerState
        <5> QED
          BY <5>1, <5>4
      <4> QED
        BY <4>1, <4>2 DEF ClickRecord
    <3>4. w'.recState \in {"idle", "submitted"}
      BY <1>1, <1>2, <1>3, <2>1 DEF Widget, RecState
    <3> QED
      BY <2>1, <2>5, <3>1, <3>2, <3>3, <3>4 DEF ConsentInv
  <2>11. SingleInv'
    BY <1>5, <2>1 DEF SingleInv, Single
  <2> QED
    BY <2>5, <2>6, <2>7, <2>8, <2>9, <2>10, <2>11 DEF IInv
<1> QED
  BY <1>1, <1>4, <1>5

(* A handler that ends, with nothing else changed. *)
LEMMA HandlerEnds ==
  ASSUME IInv, NEW h \in Handler, handlers' = [handlers EXCEPT ![h] = NoHandler],
         UNCHANGED <<hooks, w>>, r' \in Recorder, asked' \in Asked, Unconsented' => Unconsented,
         r'.recording <=> r.recording, r'.starting => r.starting,
         r.starting /\ ~r'.starting => handlers[h].pc = "start"
  PROVE  IInv'
<1>1. /\ handlers \in [Handler -> HandlerState] /\ w \in Widget /\ w.mount \in Nat
      /\ w.mount \in 1..MaxMounts
  BY ReportWidgetAssumption DEF IInv, TypeOK, Widget
<1>2. Goes(h, NoHandler)
  BY <1>1, NothingGoes DEF Goes
<1>3. /\ handlers' \in [Handler -> HandlerState] /\ handlers'[h] = NoHandler
      /\ \A k \in Handler : k # h => handlers'[k] = handlers[k]
      /\ HandlersInv'
  BY <1>1, <1>2, GoesFields
<1>4. TypeOK'
  BY <1>1, <1>3 DEF IInv, TypeOK
<1>5. WidgetInv'
  BY DEF IInv, WidgetInv
<1>6. SubmitInv'
  BY <1>3, NothingGoes DEF IInv, SubmitInv, Mine
<1>7. SubmitsOnce'
  BY <1>3, NothingGoes DEF IInv, SubmitsOnce
<1>8. StartsInv' /\ ConsentInv'
  <2>1. StartsInv'
    BY <1>3, NothingGoes DEF IInv, StartsInv
  <2> QED
    BY <1>3, <2>1, NothingGoes DEF IInv, ConsentInv
<1>9. SingleInv'
  <2> SUFFICES ASSUME Single' PROVE SingleInv'
    BY DEF SingleInv
  <2>1. Single
    BY DEF Single
  <2>2. /\ r'.recording => w'.ui /\ w'.recState = "recording"
        /\ r'.starting => w'.recState \in {"idle", "submitted"} /\ ~r'.recording
        /\ r'.starting \/ r'.recording => w'.autoClose # "clips"
    BY <2>1 DEF IInv, SingleInv
  <2>3. r'.starting \/ r'.recording => \A k \in Handler : handlers'[k].kind # "submit"
    BY <1>3, <2>1, NothingGoes DEF IInv, SingleInv
  <2>4. \A k \in Handler :
          /\ handlers'[k].pc # "hook"
          /\ handlers'[k].pc = "start" => r'.starting /\ handlers'[k].kind = "record"
    BY <1>3, <2>1, NothingGoes DEF IInv, SingleInv
  <2>5. \A k, l \in Handler : handlers'[k].pc = "start" /\ handlers'[l].pc = "start" => k = l
    BY <1>3, <2>1, NothingGoes DEF IInv, SingleInv
  <2> QED
    BY <2>2, <2>3, <2>4, <2>5 DEF SingleInv
<1> QED
  BY <1>3, <1>4, <1>5, <1>6, <1>7, <1>8, <1>9 DEF IInv

LEMMA RecordHookSettlesKeeps == ASSUME IInv, NEW h \in Handler, RecordHookSettles(h) PROVE IInv'
<1>1. /\ w \in Widget /\ r \in Recorder /\ w.mount \in Nat /\ asked \in Asked
      /\ handlers[h].mount \in 1..w.mount
  BY ReportWidgetAssumption
  DEF IInv, TypeOK, Widget, HandlersInv, HandlerState, RecordHookSettles, At
<1>2. CASE asked' = [asked EXCEPT !.answer = "given"] /\ CallStart(h, "record", handlers[h].mount, w)
  <2>1. Ready(w, handlers[h].mount)
    BY <1>1 DEF Ready, Kept
  <2>2. ~Single
    BY DEF RecordHookSettles, At, IInv, SingleInv
  <2>3. asked' \in Asked /\ ~Unconsented'
    BY <1>1, <1>2 DEF Asked, Unconsented
  <2> QED
    BY <1>1, <1>2, <2>1, <2>2, <2>3, CallStartKeeps DEF RecordHookSettles
<1>3. CASE /\ asked' = [asked EXCEPT !.answer = IF asked.answer = "given" THEN asked.answer ELSE "refused"]
           /\ RecordHookRejects(h)
  <2>1. asked' \in Asked /\ (Unconsented' => Unconsented)
    BY <1>1, <1>3 DEF Asked, Unconsented, RecordHookSettles
  <2> QED
    BY <1>1, <1>3, <2>1, HandlerEnds DEF RecordHookSettles, RecordHookRejects
<1> QED
  BY <1>2, <1>3 DEF RecordHookSettles

LEMMA ClickResumeKeeps == ASSUME IInv, NEW h \in Handler, ClickResume(h) PROVE IInv'
<1>1. /\ w \in Widget /\ w.mount \in 1..w.mount /\ asked \in Asked
  BY DEF IInv, TypeOK, Widget
<1>2. Ready(w, w.mount)
  BY <1>1 DEF Ready, Kept
<1>3. ~Single /\ ~Unconsented /\ UNCHANGED asked
  BY DEF ClickResume, Single, IInv, ConsentInv
<1>4. ~Unconsented'
  BY <1>3 DEF Unconsented, ClickResume
<1> QED
  BY <1>1, <1>2, <1>3, <1>4, CallStartKeeps DEF ClickResume

(* A handler submits on widget v, the one mounted with its controls        *)
(* disabled, or is through with it.                                        *)
LEMMA SubmitStep ==
  ASSUME IInv, NEW h \in Handler, NEW mount \in 1..w.mount, NEW v \in Widget, Kept(w, v),
         v.recState = w.recState, v.autoClose = w.autoClose, v.ui = w.ui, v.open = w.open,
         v # w => mount = w.mount /\ w.attached,
         mount = w.mount /\ w.attached =>
           v.submitting /\ w.autoClose # "clips" /\ w.recState \in {"recording", "paused"},
         \A k \in Handler : k # h /\ handlers[k].kind = "submit" => handlers[k].mount # mount,
         UNCHANGED <<hooks, asked>>, ~Unconsented,
         r' \in Recorder, r'.starting <=> r.starting, Single => ~r'.recording /\ ~r.starting,
         NEW d \in HandlerState, d.kind = "submit" => d.mount = mount,
         d.pc # "start", d.pc # "done" => d.kind = "submit", d.kind # "submit" => d.kind = "none" /\ d.mount = 0,
         d.pc = "hook" => ~Single,
         handlers' = [handlers EXCEPT ![h] = d],
         \/ w' = IfShown(mount, v)
         \/ w' = IfShown(mount, Submitted(v)) /\ d.kind = "none" /\ d.mount = 0
  PROVE  IInv'
<1> DEFINE u == Submitted(v)
<1>1. /\ w \in Widget /\ r \in Recorder /\ w.mount \in 1..MaxMounts /\ w.mount \in Nat
      /\ handlers \in [Handler -> HandlerState] /\ hooks \in BOOLEAN /\ asked \in Asked
  BY ReportWidgetAssumption DEF IInv, TypeOK, Widget
<1>2. /\ u \in Widget /\ Kept(w, u) /\ u.recState = "submitted" /\ u.autoClose = "clips"
      /\ u.submitting = v.submitting /\ u.ui = w.ui /\ u.open = w.open
  BY SubmittedFields DEF Kept
<1>3. /\ w' = w \/ w' = v \/ (w' = u /\ d.kind = "none" /\ mount = w.mount /\ w.attached)
      /\ mount = w.mount /\ w.attached => w' = v \/ (w' = u /\ d.kind = "none")
      /\ ~(mount = w.mount /\ w.attached) => w' = w
  BY DEF IfShown
<1> HIDE DEF u
<1>4. w' \in Widget /\ Kept(w, w')
  BY <1>1, <1>2, <1>3 DEF Kept
<1>5. /\ handlers' \in [Handler -> HandlerState] /\ handlers'[h] = d
      /\ \A k \in Handler : k # h => handlers'[k] = handlers[k]
  BY <1>1
<1>6. TypeOK'
  BY <1>1, <1>4, <1>5 DEF TypeOK
<1>7. HandlersInv'
  <2>1. w'.mount = w.mount /\ mount \in Nat /\ mount >= 1 /\ mount <= w.mount
    BY <1>1, <1>4 DEF Kept
  <2>2. d.mount <= w'.mount /\ (d.kind # "none" => d.mount >= 1)
    BY <1>1, <2>1
  <2> QED
    BY <1>5, <2>1, <2>2 DEF IInv, HandlersInv
<1>8. WidgetInv'
  <2>1. /\ w.open => w.attached
        /\ w.ui => w.attached /\ w.recState # "idle"
        /\ w.autoClose = "clips" => w.submitting
    BY DEF IInv, WidgetInv
  <2>2. CASE w' = w
    BY <2>1, <2>2 DEF WidgetInv
  <2>3. CASE w' = v /\ w' # w
    BY <2>1, <2>3 DEF WidgetInv, Kept
  <2>4. CASE w' = u /\ mount = w.mount /\ w.attached
    BY <1>2, <2>1, <2>4 DEF WidgetInv, Kept
  <2> QED
    BY <1>3, <2>2, <2>3, <2>4
<1>9. SubmitInv'
  <2> SUFFICES ASSUME NEW k \in Handler, handlers'[k].kind = "submit",
                      handlers'[k].mount = w'.mount, w'.attached
               PROVE  w'.submitting /\ w'.autoClose # "clips" /\ w'.recState \in {"recording", "paused"}
    BY DEF SubmitInv, Mine
  <2>1. handlers'[k].mount = w.mount /\ w.attached
    BY <1>4 DEF Kept
  <2>2. CASE k = h
    BY <1>3, <1>5, <2>1, <2>2
  <2>3. CASE k # h
    BY <1>3, <1>5, <2>1, <2>3 DEF IInv, SubmitInv, Mine
  <2> QED
    BY <2>2, <2>3
<1>10. SubmitsOnce'
  BY <1>5 DEF IInv, SubmitsOnce
<1>11. StartsInv' /\ ConsentInv'
  <2>1. StartsInv'
    BY <1>5 DEF IInv, StartsInv
  <2> QED
    BY <1>4, <2>1 DEF IInv, ConsentInv, Kept, Unconsented
<1>12. SingleInv'
  <2> SUFFICES ASSUME Single' PROVE SingleInv'
    BY DEF SingleInv
  <2>1. Single
    BY <1>4 DEF Single, Kept
  <2>2. ~r'.recording /\ ~r'.starting /\ ~r.starting
    BY <2>1
  <2>3. \A k \in Handler : handlers[k].pc # "hook" /\ handlers[k].pc # "start"
    BY <2>1, <2>2 DEF IInv, SingleInv
  <2>4. \A k \in Handler : handlers'[k].pc # "hook" /\ handlers'[k].pc # "start"
    BY <1>5, <2>1, <2>3
  <2> QED
    BY <2>2, <2>4 DEF SingleInv
<1> QED
  BY <1>6, <1>7, <1>8, <1>9, <1>10, <1>11, <1>12 DEF IInv

(* Submitting empties the buffer of a recorder that has been stopped. *)
LEMMA CallSubmitStep ==
  ASSUME IInv, NEW h \in Handler, NEW mount \in 1..w.mount, NEW v \in Widget,
         NEW rec \in Recorder, CallSubmit(h, mount, v, rec)
  PROVE  /\ r' \in Recorder /\ ~r'.recording /\ (r'.starting <=> rec.starting)
         /\ \E d \in HandlerState :
              /\ handlers' = [handlers EXCEPT ![h] = d]
              /\ d.pc \in {"done", "upload"}
              /\ \/ w' = IfShown(mount, v) /\ d.kind = "submit" /\ d.mount = mount
                 \/ w' = IfShown(mount, Submitted(v)) /\ d.kind = "none" /\ d.mount = 0 /\ d.pc = "done"
<1>1. Stopped(rec) \in Recorder /\ ~Stopped(rec).recording /\ Stopped(rec).starting = rec.starting
  BY RecorderFields
<1>2. r' = [Stopped(rec) EXCEPT !.clips = 0]
  BY DEF CallSubmit
<1>3. r' \in Recorder /\ ~r'.recording /\ (r'.starting <=> rec.starting)
  BY <1>1, <1>2 DEF Recorder
<1>4. [kind |-> "submit", pc |-> "upload", mount |-> mount] \in HandlerState
  BY ReportWidgetAssumption DEF HandlerState, IInv, TypeOK, Widget
<1>5. CASE rec.clips = 0
  BY <1>3, <1>5, NothingGoes DEF CallSubmit
<1>6. CASE rec.clips # 0
  BY <1>3, <1>4, <1>6 DEF CallSubmit
<1> QED
  BY <1>5, <1>6

LEMMA ClickSubmitKeeps == ASSUME IInv, NEW h \in Handler, ClickSubmit(h) PROVE IInv'
<1> DEFINE v == [w EXCEPT !.submitting = TRUE]
           rec == IF w.recState = "recording" THEN Stopped(r) ELSE r
           waits == [kind |-> "submit", pc |-> "hook", mount |-> w.mount]
<1>1. /\ w \in Widget /\ r \in Recorder /\ w.mount \in 1..w.mount
      /\ handlers \in [Handler -> HandlerState]
  BY DEF IInv, TypeOK, Widget
<1>2. /\ v \in Widget /\ Kept(w, v) /\ v.recState = w.recState /\ v.autoClose = w.autoClose
      /\ v.ui = w.ui /\ v.open = w.open /\ v.submitting
  BY <1>1 DEF Widget, Kept
<1>3. rec \in Recorder /\ (rec.starting <=> r.starting) /\ (w.recState = "recording" => ~rec.recording)
  BY <1>1, RecorderFields
<1>4. rec.recording => r.recording
  BY <1>1, RecorderFields
<1> HIDE DEF v, rec
<1>5. /\ w.attached /\ w.autoClose # "clips" /\ w.recState \in {"recording", "paused"}
      /\ UNCHANGED <<hooks, asked>>
  BY <1>1 DEF ClickSubmit, IInv, WidgetInv, Widget, RecState
<1>6. \A k \in Handler : handlers[k].kind = "submit" => handlers[k].mount # w.mount
  BY <1>5 DEF ClickSubmit, IInv, SubmitInv, Mine
<1>7. ~Unconsented
  BY <1>5 DEF IInv, ConsentInv
<1>8. Single => ~r.starting
  BY <1>5 DEF IInv, SingleInv
<1>9. CASE hooks
  <2>1. waits \in HandlerState
    BY <1>1, ReportWidgetAssumption DEF HandlerState, IInv, TypeOK, Widget
  <2>2. /\ w' = IfShown(w.mount, v) /\ r' = rec
        /\ handlers' = [handlers EXCEPT ![h] = waits]
    BY <1>5, <1>9 DEF ClickSubmit, IfShown, v, rec
  <2>3. ~Single
    BY <1>9 DEF Single
  <2> HIDE DEF waits
  <2>4. waits.kind = "submit" /\ waits.pc = "hook" /\ waits.mount = w.mount
    BY DEF waits
  <2> QED
    BY <1>1, <1>2, <1>3, <1>5, <1>6, <1>7, <2>1, <2>2, <2>3, <2>4, SubmitStep
<1>10. CASE ~hooks
  <2>1. CallSubmit(h, w.mount, v, rec)
    BY <1>10 DEF ClickSubmit, v, rec
  <2>2. r' \in Recorder /\ ~r'.recording /\ (r'.starting <=> r.starting)
    BY <1>1, <1>2, <1>3, <2>1, CallSubmitStep
  <2>3. PICK d \in HandlerState :
          /\ handlers' = [handlers EXCEPT ![h] = d]
          /\ d.pc \in {"done", "upload"}
          /\ \/ w' = IfShown(w.mount, v) /\ d.kind = "submit" /\ d.mount = w.mount
             \/ w' = IfShown(w.mount, Submitted(v)) /\ d.kind = "none" /\ d.mount = 0 /\ d.pc = "done"
    BY <1>1, <1>2, <1>3, <2>1, CallSubmitStep
  <2> QED
    BY <1>1, <1>2, <1>5, <1>6, <1>7, <1>8, <2>2, <2>3, SubmitStep
<1> QED
  BY <1>1, <1>9, <1>10 DEF IInv, TypeOK

(* A submit under way may go on, whoever it is waiting for. *)
LEMMA SubmitUnderWay ==
  ASSUME IInv, NEW h \in Handler, handlers[h].kind = "submit"
  PROVE  /\ handlers[h].mount \in 1..w.mount
         /\ Mine(h) => w.submitting /\ w.autoClose # "clips" /\ w.recState \in {"recording", "paused"}
         /\ \A k \in Handler : k # h /\ handlers[k].kind = "submit" => handlers[k].mount # handlers[h].mount
         /\ ~Unconsented
         /\ Single => ~r.recording /\ ~r.starting
<1>1. handlers[h].mount \in 1..w.mount
  BY ReportWidgetAssumption DEF IInv, TypeOK, Widget, HandlersInv, HandlerState
<1>2. /\ Mine(h) => w.submitting /\ w.autoClose # "clips" /\ w.recState \in {"recording", "paused"}
      /\ \A k \in Handler : k # h /\ handlers[k].kind = "submit" => handlers[k].mount # handlers[h].mount
  BY DEF IInv, SubmitInv, SubmitsOnce
<1>3. ~Unconsented /\ (Single => ~r.recording /\ ~r.starting)
  BY DEF IInv, ConsentInv, SingleInv
<1> QED
  BY <1>1, <1>2, <1>3

LEMMA SubmitHookSettlesKeeps == ASSUME IInv, NEW h \in Handler, SubmitHookSettles(h) PROVE IInv'
<1> DEFINE mount == handlers[h].mount
<1>1. /\ mount \in 1..w.mount
      /\ mount = w.mount /\ w.attached =>
           w.submitting /\ w.autoClose # "clips" /\ w.recState \in {"recording", "paused"}
      /\ \A k \in Handler : k # h /\ handlers[k].kind = "submit" => handlers[k].mount # mount
      /\ ~Unconsented
  BY SubmitUnderWay DEF SubmitHookSettles, At, Mine
<1>2. ~Single
  BY DEF SubmitHookSettles, At, IInv, SingleInv
<1>3. /\ w \in Widget /\ r \in Recorder /\ Kept(w, w) /\ UNCHANGED <<hooks, asked>>
      /\ handlers \in [Handler -> HandlerState] /\ hooks \in BOOLEAN /\ asked \in Asked
      /\ w.mount \in Nat
  BY ReportWidgetAssumption DEF IInv, TypeOK, Widget, Kept, SubmitHookSettles
<1>4. CASE CallSubmit(h, mount, w, r)
  <2>1. r' \in Recorder /\ ~r'.recording /\ (r'.starting <=> r.starting)
    BY <1>1, <1>3, <1>4, CallSubmitStep
  <2>2. PICK d \in HandlerState :
          /\ handlers' = [handlers EXCEPT ![h] = d]
          /\ d.pc \in {"done", "upload"}
          /\ \/ w' = IfShown(mount, w) /\ d.kind = "submit" /\ d.mount = mount
             \/ w' = IfShown(mount, Submitted(w)) /\ d.kind = "none" /\ d.mount = 0 /\ d.pc = "done"
    BY <1>1, <1>3, <1>4, CallSubmitStep
  <2> HIDE DEF mount
  <2> QED
    BY <1>1, <1>2, <1>3, <2>1, <2>2, SubmitStep
<1>5. CASE /\ w' = IfShown(mount, [w EXCEPT !.submitting = FALSE, !.recState = "paused", !.ui = TRUE])
           /\ handlers' = [handlers EXCEPT ![h] = NoHandler]
           /\ UNCHANGED r
  <2> DEFINE v == [w EXCEPT !.submitting = FALSE, !.recState = "paused", !.ui = TRUE]
  <2>1. CASE ~(mount = w.mount /\ w.attached)
    <3>1. w' = w
      BY <1>5, <2>1 DEF IfShown
    <3>2. asked' \in Asked /\ (Unconsented' => Unconsented)
      BY <1>3 DEF Unconsented
    <3> QED
      BY <1>3, <1>5, <3>1, <3>2, HandlerEnds
  <2>2. CASE mount = w.mount /\ w.attached
    <3>1. w' = v
      BY <1>5, <2>2 DEF IfShown
    <3>2. /\ v \in Widget /\ Kept(w, v) /\ v.recState = "paused" /\ v.autoClose = w.autoClose
          /\ v.ui /\ v.open = w.open
      BY <1>3 DEF Widget, RecState, Kept
    <3> HIDE DEF v
    <3>3. w'.mount = w.mount /\ w'.attached
      BY <2>2, <3>1, <3>2 DEF Kept
    <3>4. /\ handlers' \in [Handler -> HandlerState] /\ handlers'[h] = NoHandler
          /\ \A k \in Handler : k # h => handlers'[k] = handlers[k]
          /\ HandlersInv'
      <4>1. Goes(h, NoHandler)
        BY <1>3, <1>5, <3>3, NothingGoes DEF Goes
      <4> QED
        BY <1>3, <3>3, <4>1, GoesFields
    <3>5. \A k \in Handler : handlers'[k].kind = "submit" => handlers'[k].mount # w.mount
      BY <1>1, <2>2, <3>4, NothingGoes
    <3>6. TypeOK'
      BY <1>3, <1>5, <3>1, <3>2, <3>4 DEF TypeOK
    <3>7. WidgetInv'
      BY <1>1, <2>2, <3>1, <3>2, <3>3 DEF IInv, WidgetInv
    <3>8. SubmitInv'
      BY <3>3, <3>5 DEF SubmitInv, Mine
    <3>9. SubmitsOnce'
      BY <3>4, NothingGoes DEF IInv, SubmitsOnce
    <3>10. StartsInv' /\ ConsentInv'
      <4>1. StartsInv'
        BY <1>5, <3>4, NothingGoes DEF IInv, StartsInv
      <4> QED
        BY <1>1, <1>3, <3>3, <4>1 DEF IInv, ConsentInv, Unconsented
    <3>11. SingleInv'
      BY <1>2, <1>3, <3>1, <3>2 DEF SingleInv, Single, Kept
    <3> QED
      BY <3>4, <3>6, <3>7, <3>8, <3>9, <3>10, <3>11 DEF IInv
  <2> QED
    BY <2>1, <2>2
<1> QED
  BY <1>4, <1>5 DEF SubmitHookSettles

LEMMA UploadSettlesKeeps == ASSUME IInv, NEW h \in Handler, UploadSettles(h) PROVE IInv'
<1> DEFINE mount == handlers[h].mount
<1>1. /\ mount \in 1..w.mount
      /\ mount = w.mount /\ w.attached =>
           w.submitting /\ w.autoClose # "clips" /\ w.recState \in {"recording", "paused"}
      /\ \A k \in Handler : k # h /\ handlers[k].kind = "submit" => handlers[k].mount # mount
      /\ ~Unconsented
      /\ Single => ~r.recording /\ ~r.starting
  BY SubmitUnderWay DEF UploadSettles, At, Mine
<1>2. w \in Widget /\ r \in Recorder /\ Kept(w, w)
  BY DEF IInv, TypeOK, Kept
<1>3. /\ w' = IfShown(mount, Submitted(w)) /\ handlers' = [handlers EXCEPT ![h] = NoHandler]
      /\ UNCHANGED <<hooks, r, asked>>
  BY DEF UploadSettles
<1> HIDE DEF mount
<1> QED
  BY <1>1, <1>2, <1>3, NothingGoes, SubmitStep

LEMMA StartSettlesKeeps == ASSUME IInv, NEW h \in Handler, StartSettles(h) PROVE IInv'
<1> DEFINE kind == handlers[h].kind
           u == Shown(w, kind)
           on == [recording |-> TRUE, starting |-> FALSE, clips |-> r.clips + 1, spans |-> r.spans + 1]
<1>1. /\ w \in Widget /\ r \in Recorder /\ w.mount \in Nat
      /\ handlers \in [Handler -> HandlerState] /\ hooks \in BOOLEAN /\ asked \in Asked
  BY ReportWidgetAssumption DEF IInv, TypeOK, Widget
<1>2. CASE r' = [r EXCEPT !.starting = FALSE] /\ UNCHANGED w
  <2>1. asked' \in Asked /\ (Unconsented' => Unconsented)
    BY <1>1 DEF Unconsented, StartSettles
  <2> QED
    BY <1>1, <1>2, <2>1, RecorderFields, HandlerEnds DEF StartSettles
<1>3. CASE r.spans < MaxClips /\ r' = on /\ w' = IfShown(handlers[h].mount, u)
  <2>1. /\ u \in Widget /\ Kept(w, u) /\ u.recState = "recording"
        /\ u.submitting = w.submitting /\ u.autoClose = w.autoClose
        /\ kind = "record" => u.ui /\ ~u.open
        /\ kind # "record" => u.ui = w.ui /\ u.open = w.open
    BY <1>1, ShownFields
  <2>2. r' \in Recorder /\ r'.recording /\ ~r'.starting
    BY <1>1, <1>3, ReportWidgetAssumption DEF Recorder
  <2>3. /\ w' = w \/ (w' = u /\ w.attached /\ handlers[h].mount = w.mount)
        /\ handlers[h].mount = w.mount /\ w.attached => w' = u
    BY <1>3 DEF IfShown
  <2> HIDE DEF u, on
  <2>4. w' \in Widget /\ Kept(w, w') /\ handlers[h].pc = "start"
        /\ handlers' = [handlers EXCEPT ![h] = NoHandler] /\ UNCHANGED <<hooks, asked>>
    BY <1>1, <2>1, <2>3 DEF Kept, StartSettles
  <2>5. /\ handlers' \in [Handler -> HandlerState] /\ handlers'[h] = NoHandler
        /\ \A k \in Handler : k # h => handlers'[k] = handlers[k]
        /\ HandlersInv'
    <3>1. Goes(h, NoHandler)
      BY <1>1, <2>4, NothingGoes DEF Goes, Kept
    <3> QED
      BY <1>1, <2>4, <3>1, GoesFields DEF Kept
  <2>6. TypeOK'
    BY <1>1, <2>2, <2>4, <2>5 DEF TypeOK
  <2>7. WidgetInv'
    <3>1. CASE w' = w
      BY <3>1 DEF IInv, WidgetInv
    <3>2. CASE w' = u /\ w.attached
      <4>1. w'.attached /\ w'.recState # "idle"
        BY <2>1, <3>2 DEF Kept
      <4>2. w'.autoClose = "clips" => w'.submitting
        BY <2>1, <3>2 DEF IInv, WidgetInv
      <4> QED
        BY <4>1, <4>2 DEF WidgetInv
    <3> QED
      BY <2>3, <3>1, <3>2
  <2>8. SubmitInv'
    BY <2>1, <2>3, <2>4, <2>5, NothingGoes DEF IInv, SubmitInv, Mine, Kept
  <2>9. SubmitsOnce'
    BY <2>5, NothingGoes DEF IInv, SubmitsOnce
  <2>10. StartsInv' /\ ConsentInv'
    <3>1. StartsInv'
      BY <2>4, <2>5, NothingGoes DEF IInv, StartsInv
    <3> QED
      BY <2>4, <3>1 DEF IInv, ConsentInv, Unconsented, Kept
  <2>11. SingleInv'
    <3> SUFFICES ASSUME Single' PROVE SingleInv'
      BY DEF SingleInv
    <3>1. Single
      BY <2>4 DEF Single, Kept
    <3>2. /\ r.starting /\ kind = "record" /\ w.autoClose # "clips"
          /\ \A k \in Handler : handlers[k].kind # "submit" /\ handlers[k].pc # "hook"
          /\ \A k \in Handler : handlers[k].pc = "start" => k = h
      BY <2>4, <3>1 DEF IInv, SingleInv
    <3>3. handlers[h].mount = w.mount /\ w.attached
      BY <1>1, <3>1, <3>2 DEF Single, IInv, HandlersInv, HandlerState
    <3>4. w'.ui /\ w'.recState = "recording" /\ w'.autoClose # "clips"
      BY <2>1, <2>3, <3>2, <3>3
    <3>5. \A k \in Handler : /\ handlers'[k].kind # "submit" /\ handlers'[k].pc # "hook"
                             /\ handlers'[k].pc # "start"
      BY <2>5, <3>2, NothingGoes
    <3> QED
      BY <2>2, <3>4, <3>5 DEF SingleInv
  <2> QED
    BY <2>5, <2>6, <2>7, <2>8, <2>9, <2>10, <2>11 DEF IInv
<1> QED
  BY <1>2, <1>3 DEF StartSettles

-----------------------------------------------------------------------------
(* Steps that no handler takes.                                            *)

LEMMA TogglePanelKeeps == ASSUME IInv, TogglePanel PROVE IInv'
<1>1. /\ w \in Widget /\ w.attached /\ w' = [w EXCEPT !.open = ~w.open]
      /\ UNCHANGED <<hooks, r, handlers, asked>>
  BY DEF IInv, TypeOK, TogglePanel
<1>2. /\ w' \in Widget /\ Kept(w, w') /\ w'.recState = w.recState /\ w'.ui = w.ui
      /\ w'.submitting = w.submitting /\ w'.autoClose = w.autoClose
  BY <1>1 DEF Widget, Kept
<1>3. TypeOK' /\ HandlersInv' /\ SubmitInv' /\ SubmitsOnce'
  BY <1>1, <1>2 DEF IInv, TypeOK, HandlersInv, SubmitInv, SubmitsOnce, Mine, Kept
<1>4. WidgetInv' /\ StartsInv' /\ ConsentInv'
  BY <1>1, <1>2 DEF IInv, WidgetInv, StartsInv, ConsentInv, Unconsented, Kept
<1>5. SingleInv'
  BY <1>1, <1>2 DEF IInv, SingleInv, Single, Kept
<1> QED
  BY <1>3, <1>4, <1>5 DEF IInv

LEMMA SubmitTextKeeps == ASSUME IInv, SubmitText PROVE IInv'
<1>1. /\ w \in Widget /\ w' = [w EXCEPT !.submitBusy = TRUE, !.autoClose = "text"]
      /\ UNCHANGED <<hooks, r, handlers, asked>>
  BY DEF IInv, TypeOK, SubmitText
<1>2. /\ w' \in Widget /\ Kept(w, w') /\ w'.recState = w.recState /\ w'.ui = w.ui
      /\ w'.submitting = w.submitting /\ w'.autoClose = "text" /\ w'.open = w.open
  BY <1>1 DEF Widget, Kept
<1>3. TypeOK' /\ HandlersInv' /\ SubmitInv' /\ SubmitsOnce'
  BY <1>1, <1>2 DEF IInv, TypeOK, HandlersInv, SubmitInv, SubmitsOnce, Mine, Kept
<1>4. WidgetInv' /\ StartsInv' /\ ConsentInv'
  BY <1>1, <1>2 DEF IInv, WidgetInv, StartsInv, ConsentInv, Unconsented, Kept
<1>5. SingleInv'
  BY <1>1, <1>2 DEF IInv, SingleInv, Single, Kept
<1> QED
  BY <1>3, <1>4, <1>5 DEF IInv

LEMMA ClickPauseKeeps == ASSUME IInv, ClickPause PROVE IInv'
<1>1. /\ w \in Widget /\ w' = [w EXCEPT !.recState = "paused"] /\ r' = Stopped(r)
      /\ w.multi /\ w.ui /\ ~w.submitting /\ w.recState = "recording" /\ r \in Recorder
      /\ UNCHANGED <<hooks, handlers, asked>>
  BY DEF IInv, TypeOK, ClickPause
<1>2. /\ w' \in Widget /\ Kept(w, w') /\ w'.recState = "paused" /\ w'.ui = w.ui
      /\ w'.submitting = w.submitting /\ w'.autoClose = w.autoClose /\ w'.open = w.open
  BY <1>1 DEF Widget, RecState, Kept
<1>3. r' \in Recorder /\ r'.starting = r.starting
  BY <1>1, RecorderFields
<1>4. TypeOK' /\ HandlersInv' /\ SubmitInv' /\ SubmitsOnce'
  BY <1>1, <1>2, <1>3 DEF IInv, TypeOK, HandlersInv, SubmitInv, SubmitsOnce, Mine, Kept
<1>5. WidgetInv' /\ StartsInv' /\ ConsentInv'
  BY <1>1, <1>2, <1>3 DEF IInv, WidgetInv, StartsInv, ConsentInv, Unconsented, Kept
<1>6. SingleInv'
  BY <1>1, <1>2 DEF SingleInv, Single, Kept
<1> QED
  BY <1>4, <1>5, <1>6 DEF IInv

LEMMA RemoveClipKeeps == ASSUME IInv, RemoveClip PROVE IInv'
<1>1. /\ r \in Recorder /\ r.clips > 0 /\ r' = [r EXCEPT !.clips = r.clips - 1]
      /\ UNCHANGED <<hooks, w, handlers, asked>> /\ w.multi
  BY DEF IInv, TypeOK, RemoveClip
<1>2. r' \in Recorder /\ r'.recording = r.recording /\ r'.starting = r.starting
  BY <1>1 DEF Recorder
<1>3. TypeOK' /\ HandlersInv' /\ SubmitInv' /\ SubmitsOnce'
  BY <1>1, <1>2 DEF IInv, TypeOK, HandlersInv, SubmitInv, SubmitsOnce, Mine
<1>4. WidgetInv' /\ StartsInv' /\ ConsentInv'
  BY <1>1, <1>2 DEF IInv, WidgetInv, StartsInv, ConsentInv, Unconsented
<1>5. SingleInv'
  BY <1>1 DEF SingleInv, Single
<1> QED
  BY <1>3, <1>4, <1>5 DEF IInv

LEMMA ClickDiscardKeeps == ASSUME IInv, ClickDiscard PROVE IInv'
<1>1. /\ w \in Widget /\ w' = [w EXCEPT !.recState = "idle", !.ui = FALSE] /\ r' = Discarded(r)
      /\ ~w.submitting /\ r \in Recorder
      /\ UNCHANGED <<hooks, handlers, asked>>
  BY DEF IInv, TypeOK, ClickDiscard
<1>2. /\ w' \in Widget /\ Kept(w, w') /\ w'.recState = "idle" /\ ~w'.ui
      /\ w'.submitting = w.submitting /\ w'.autoClose = w.autoClose /\ w'.open = w.open
  BY <1>1 DEF Widget, RecState, Kept
<1>3. r' \in Recorder /\ ~r'.recording /\ r'.starting = r.starting
  BY <1>1, RecorderFields
<1>4. TypeOK' /\ HandlersInv' /\ SubmitInv' /\ SubmitsOnce'
  BY <1>1, <1>2, <1>3 DEF IInv, TypeOK, HandlersInv, SubmitInv, SubmitsOnce, Mine, Kept
<1>5. WidgetInv' /\ StartsInv' /\ ConsentInv'
  BY <1>1, <1>2, <1>3 DEF IInv, WidgetInv, StartsInv, ConsentInv, Unconsented, Kept
<1>6. SingleInv'
  BY <1>1, <1>2, <1>3 DEF IInv, SingleInv, Single, Kept
<1> QED
  BY <1>4, <1>5, <1>6 DEF IInv

LEMMA AutoCloseKeeps == ASSUME IInv, AutoClose PROVE IInv'
<1>1. w \in Widget /\ UNCHANGED <<hooks, r, handlers, asked>>
  BY DEF IInv, TypeOK, AutoClose
<1>2. CASE w.autoClose = "text"
  <2>1. w' = [w EXCEPT !.autoClose = "none", !.submitBusy = FALSE, !.open = FALSE]
    BY <1>2 DEF AutoClose
  <2>2. /\ w' \in Widget /\ Kept(w, w') /\ w'.recState = w.recState /\ w'.ui = w.ui
        /\ w'.submitting = w.submitting /\ w'.autoClose = "none" /\ ~w'.open
    BY <1>1, <2>1 DEF Widget, Kept
  <2>3. TypeOK' /\ HandlersInv' /\ SubmitInv' /\ SubmitsOnce'
    BY <1>1, <2>2 DEF IInv, TypeOK, HandlersInv, SubmitInv, SubmitsOnce, Mine, Kept
  <2>4. WidgetInv' /\ StartsInv' /\ ConsentInv'
    BY <1>1, <2>2 DEF IInv, WidgetInv, StartsInv, ConsentInv, Unconsented, Kept
  <2>5. SingleInv'
    BY <1>1, <2>2 DEF IInv, SingleInv, Single, Kept
  <2> QED
    BY <2>3, <2>4, <2>5 DEF IInv
<1>3. CASE w.autoClose = "clips"
  <2>1. w' = [w EXCEPT !.autoClose = "none", !.ui = FALSE, !.submitting = FALSE, !.recState = "idle"]
    BY <1>3 DEF AutoClose
  <2>2. /\ w' \in Widget /\ Kept(w, w') /\ w'.recState = "idle" /\ ~w'.ui
        /\ w'.autoClose = "none" /\ w'.open = w.open
    BY <1>1, <2>1 DEF Widget, RecState, Kept
  <2>3. TypeOK' /\ HandlersInv' /\ SubmitInv' /\ SubmitsOnce'
    BY <1>1, <1>3, <2>2 DEF IInv, TypeOK, HandlersInv, SubmitInv, SubmitsOnce, Mine, Kept
  <2>4. WidgetInv' /\ StartsInv' /\ ConsentInv'
    BY <1>1, <1>3, <2>2 DEF IInv, WidgetInv, StartsInv, ConsentInv, Unconsented, Kept
  <2>5. SingleInv'
    BY <1>1, <1>3, <2>2 DEF IInv, SingleInv, Single, Kept
  <2> QED
    BY <2>3, <2>4, <2>5 DEF IInv
<1> QED
  BY <1>1, <1>2, <1>3 DEF AutoClose, Widget

(* A blank widget, detached or newer than every handler, is nobody's. *)
LEMMA BlankKeeps ==
  ASSUME IInv, NEW n \in 1..MaxMounts, n >= w.mount, Blank(w', n),
         w'.attached => n > w.mount, hooks => n = w.mount,
         r' \in Recorder, r'.recording => r.recording, r'.starting <=> r.starting,
         UNCHANGED <<hooks, handlers, asked>>
  PROVE  IInv'
<1>1. w'.mount = n /\ w.mount \in Nat /\ w.mount >= 1
  BY DEF Blank, IInv, TypeOK, Widget
<1>2. \A h \in Handler : handlers[h].mount \in Nat /\ handlers[h].mount <= w.mount
  BY ReportWidgetAssumption DEF IInv, TypeOK, HandlersInv, HandlerState
<1>3. TypeOK'
  BY DEF IInv, TypeOK, Blank
<1>4. HandlersInv'
  BY <1>1, <1>2 DEF IInv, HandlersInv
<1>5. SubmitInv'
  BY <1>1, <1>2 DEF SubmitInv, Mine
<1>6. SubmitsOnce'
  BY DEF IInv, SubmitsOnce
<1>7. WidgetInv'
  BY DEF WidgetInv, Blank
<1>8. StartsInv' /\ ConsentInv'
  BY DEF IInv, StartsInv, ConsentInv, Unconsented, Blank
<1>9. SingleInv'
  BY <1>1 DEF SingleInv, Single
<1> QED
  BY <1>3, <1>4, <1>5, <1>6, <1>7, <1>8, <1>9 DEF IInv

LEMMA DestroyKeeps == ASSUME IInv, Destroy \/ Remount PROVE IInv'
<1>1. w \in Widget /\ w.mount \in 1..MaxMounts /\ w.multi \in BOOLEAN /\ r \in Recorder
  BY DEF IInv, TypeOK, Widget
<1>2. UNCHANGED <<hooks, handlers, asked>>
  BY DEF Destroy, Remount
<1>3. r' \in Recorder /\ (r'.recording => r.recording) /\ (r'.starting <=> r.starting)
  <2>1. r' = Stopped(r) \/ r' = r
    BY DEF Destroy, Remount, Released
  <2>2. CASE r' = r
    BY <1>1, <2>2
  <2>3. CASE r' = Stopped(r)
    BY <1>1, <2>3, RecorderFields
  <2> QED
    BY <2>1, <2>2, <2>3
<1>4. CASE Destroy
  <2>1. Blank(w', w.mount) /\ ~w'.attached
    BY <1>1, <1>4, MountedFields DEF Destroy
  <2> QED
    BY <1>1, <1>2, <1>3, <2>1, BlankKeeps
<1>5. CASE Remount
  <2>1. w.mount + 1 \in 1..MaxMounts /\ (~w.multi) \in BOOLEAN
    BY <1>1, <1>5, ReportWidgetAssumption DEF Remount
  <2>2. Blank(w', w.mount + 1)
    BY <1>5, <2>1, MountedFields DEF Remount
  <2> QED
    BY <1>1, <1>2, <1>3, <1>5, <2>1, <2>2, BlankKeeps DEF Remount
<1> QED
  BY <1>4, <1>5

LEMMA StutterKeeps == ASSUME IInv, UNCHANGED vars PROVE IInv'
<1>1. UNCHANGED <<hooks, w, r, handlers, asked>>
  BY DEF vars
<1>2. TypeOK' /\ HandlersInv' /\ WidgetInv' /\ SubmitInv' /\ SubmitsOnce'
  BY <1>1 DEF IInv, TypeOK, HandlersInv, WidgetInv, SubmitInv, SubmitsOnce, Mine
<1>3. StartsInv' /\ ConsentInv' /\ SingleInv'
  BY <1>1 DEF IInv, StartsInv, ConsentInv, Unconsented, SingleInv, Single
<1> QED
  BY <1>2, <1>3 DEF IInv

LEMMA NextKeeps == IInv /\ [Next]_vars => IInv'
<1> SUFFICES ASSUME IInv, [Next]_vars PROVE IInv'
  OBVIOUS
<1>1. ASSUME NEW h \in Handler, HandlerStep(h) PROVE IInv'
  BY <1>1, ClickRecordKeeps, RecordHookSettlesKeeps, StartSettlesKeeps, ClickResumeKeeps,
     ClickSubmitKeeps, SubmitHookSettlesKeeps, UploadSettlesKeeps
  DEF HandlerStep
<1>2. CASE TogglePanel \/ SubmitText \/ ClickPause \/ RemoveClip
  BY <1>2, TogglePanelKeeps, SubmitTextKeeps, ClickPauseKeeps, RemoveClipKeeps
<1>3. CASE ClickDiscard \/ AutoClose \/ Destroy \/ Remount
  BY <1>3, ClickDiscardKeeps, AutoCloseKeeps, DestroyKeeps
<1>4. CASE UNCHANGED vars
  BY <1>4, StutterKeeps
<1> QED
  BY <1>1, <1>2, <1>3, <1>4 DEF Next

LEMMA Invariance == Spec => []IInv
  BY InitIInv, NextKeeps, PTL DEF Spec

-----------------------------------------------------------------------------
(* Every variable has its type. *)
THEOREM TypeCorrect == Spec => []TypeOK
<1>1. IInv => TypeOK
  BY DEF IInv
<1> QED
  BY Invariance, <1>1, PTL

(* No widget has two submits under way, whatever else is clicked while one *)
(* awaits its hook or its uploads (onSubmitClips, report-widget.ts:793).   *)
THEOREM SubmitsOnceHolds == Spec => []SubmitsOnce
<1>1. IInv => SubmitsOnce
  BY DEF IInv
<1> QED
  BY Invariance, <1>1, PTL

(* A widget of a single clip records only under its recording frame, and   *)
(* knows it (onRecordClick, onSubmitClips, onDiscardClick).                *)
THEOREM SingleClipIsVisibleHolds == Spec => []SingleClipIsVisible
<1>1. IInv => SingleClipIsVisible
  BY DEF IInv, SingleInv, Single, SingleClipIsVisible
<1> QED
  BY Invariance, <1>1, PTL

(* With hooks, a recorder that was off when a recording was asked for does *)
(* not record before an onRecordStart hook of that recording has resolved  *)
(* (report-widget.ts:84-88, 729-747).                                      *)
THEOREM RecordingIsConsentedHolds == Spec => []RecordingIsConsented
<1>1. IInv => RecordingIsConsented
  BY DEF IInv, ConsentInv, Unconsented, RecordingIsConsented
<1> QED
  BY Invariance, <1>1, PTL

=============================================================================
