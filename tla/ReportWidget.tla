---------------------------- MODULE ReportWidget ----------------------------
(***************************************************************************)
(* The report widget of the TypeScript SDK                                 *)
(* (sdk/typescript/src/report-widget.ts) in record mode, mounted by the    *)
(* host page with consent hooks, or by the client, which mounts it again   *)
(* when the server grants another clip mode (client.ts).                   *)
(*                                                                         *)
(* The click handlers are async: one action is what a handler runs up to   *)
(* its next await, and every button that is visible and enabled can be     *)
(* clicked meanwhile.  The recorder is client.replay in review mode, of    *)
(* which this module keeps what the widget can tell: see Replay.           *)
(*                                                                         *)
(* Left out: texts, styles, the drag handle, the elapsed time with its     *)
(* one-second tick, and a listener or a hook that throws synchronously.    *)
(***************************************************************************)
EXTENDS Integers, FiniteSets

CONSTANTS
  Handler,                  \* bound: click handlers under way
  MaxMounts,                \* bound: times the widget is mounted
  MaxClips                  \* bound: spans recorded

ASSUME ReportWidgetAssumption ==
  /\ MaxMounts \in Nat \ {0}
  /\ MaxClips \in Nat

VARIABLES
  hooks,                    \* the host has passed onRecordStart and onBeforeSubmit
  w,                        \* the widget now mounted
  r,                        \* the recorder it drives
  handlers,                 \* the click handlers that await something
  (* Observability *)
  asked                     \* what onRecordStart said of the recording asked for last

vars == <<hooks, w, r, handlers, asked>>

-----------------------------------------------------------------------------
RecState == {"idle", "recording", "paused", "submitted"}

(* Widgets are numbered as they are mounted; a destroyed one is detached.  *)
(* submitting stands for the flag and for the three disabled buttons of    *)
(* the controls bar, which change with it; submitBusy for the disabled     *)
(* button of the text form; autoClose for what autoCloseTimer will run.    *)
Widget ==
  [mount : 1..MaxMounts, attached : BOOLEAN, multi : BOOLEAN, open : BOOLEAN, recState : RecState,
   submitting : BOOLEAN, submitBusy : BOOLEAN, ui : BOOLEAN,
   autoClose : {"none", "text", "clips"}]

Mounted(n, multi) ==
  [mount |-> n, attached |-> TRUE, multi |-> multi, open |-> FALSE, recState |-> "idle",
   submitting |-> FALSE, submitBusy |-> FALSE, ui |-> FALSE, autoClose |-> "none"]

Recorder == [recording : BOOLEAN, starting : BOOLEAN, clips : Nat, spans : 0..MaxClips]

NoHandler == [kind |-> "none", pc |-> "done", mount |-> 0]

HandlerState ==
  [kind : {"none", "record", "resume", "submit"},
   pc : {"done", "hook", "start", "upload"}, mount : 0..MaxMounts]

Free(h) == handlers[h] = NoHandler

At(h, kind, pc) == handlers[h].kind = kind /\ handlers[h].pc = pc

(* A handler of a widget since destroyed goes on, but nothing of it shows. *)
IfShown(mount, widget) == IF mount = w.mount /\ w.attached THEN widget ELSE w

Stopped(rec) == [rec EXCEPT !.recording = FALSE]

(* The answer of the hooks since a recording was asked for, and whether    *)
(* the recorder was off then.  A click on record asks for a recording      *)
(* unless another such click is under way; of several it takes one to be   *)
(* granted.                                                                *)
Asked == [answer : {"none", "given", "refused"}, fresh : BOOLEAN]

AskedAnew(rec) == [answer |-> "none", fresh |-> ~(rec.starting \/ rec.recording)]

-----------------------------------------------------------------------------
(* recorder.start() (client.replay.start()).                               *)

Shown(widget, kind) ==
  IF kind = "record"
  THEN [widget EXCEPT !.recState = "recording", !.open = FALSE, !.ui = TRUE]
  ELSE [widget EXCEPT !.recState = "recording"]

(* Called by handler h of the given kind, on the widget so far.  A recorder *)
(* that is starting or recording answers at once.                          *)
CallStart(h, kind, mount, widget) ==
  IF r.starting \/ r.recording
  THEN /\ w' = IF r.recording THEN IfShown(mount, Shown(widget, kind)) ELSE IfShown(mount, widget)
       /\ handlers' = [handlers EXCEPT ![h] = NoHandler]
       /\ UNCHANGED r
  ELSE /\ w' = IfShown(mount, widget)
       /\ handlers' = [handlers EXCEPT ![h] = [kind |-> kind, pc |-> "start", mount |-> mount]]
       /\ r' = [r EXCEPT !.starting = TRUE]

(* The start settles: recording, or refused by the policy or a failure.    *)
StartSettles(h) ==
  LET me == handlers[h] IN
  /\ me.pc = "start"
  /\ \/ /\ r.spans < MaxClips
        /\ r' = [recording |-> TRUE, starting |-> FALSE, clips |-> r.clips + 1,
                 spans |-> r.spans + 1]
        /\ w' = IfShown(me.mount, Shown(w, me.kind))
     \/ /\ r' = [r EXCEPT !.starting = FALSE]
        /\ UNCHANGED w
  /\ handlers' = [handlers EXCEPT ![h] = NoHandler]
  /\ UNCHANGED <<hooks, asked>>

-----------------------------------------------------------------------------
(* The panel and the text form.                                            *)

(* doOpen(), doClose(), onButtonClick(). *)
TogglePanel ==
  /\ w.attached
  /\ w' = [w EXCEPT !.open = ~@]
  /\ UNCHANGED <<hooks, r, handlers, asked>>

(* onSubmit() with a description that the client takes.  Scheduling a      *)
(* close clears the one scheduled before.                                  *)
SubmitText ==
  /\ w.open
  /\ ~w.submitBusy
  /\ w' = [w EXCEPT !.submitBusy = TRUE, !.autoClose = "text"]
  /\ UNCHANGED <<hooks, r, handlers, asked>>

-----------------------------------------------------------------------------
(* The recording controls.                                                 *)

(* Mutant of FreshRecording: the reset of the last submit stays scheduled. *)
FreshRecordingKeepsTimer(widget) == [widget EXCEPT !.submitting = FALSE]

(* A fresh recording cancels the pending close and enables the controls.   *)
FreshRecording(widget) == [widget EXCEPT !.autoClose = "none", !.submitting = FALSE]

(* Mutant of MayRecord: a paused recording does not refuse another. *)
MayRecordPaused == w.recState # "recording"

MayRecord == w.recState \notin {"recording", "paused"}

(* onRecordClick() up to its first await. *)
ClickRecord(h) ==
  /\ Free(h)
  /\ w.open
  /\ MayRecord
  /\ IF hooks
     THEN /\ w' = FreshRecording(w)
          /\ handlers' = [handlers EXCEPT ![h] = [kind |-> "record", pc |-> "hook", mount |-> w.mount]]
          /\ UNCHANGED r
     ELSE CallStart(h, "record", w.mount, FreshRecording(w))
  /\ asked' = IF \E k \in Handler : handlers[k].kind = "record" THEN asked ELSE AskedAnew(r)
  /\ UNCHANGED hooks

(* Mutant of RecordHookRejects: the recorder is started all the same. *)
RecordHookRejectsAndStarts(h) == CallStart(h, "record", handlers[h].mount, w)

(* The click is over and nothing else has changed. *)
RecordHookRejects(h) ==
  /\ handlers' = [handlers EXCEPT ![h] = NoHandler]
  /\ UNCHANGED <<w, r>>

(* onRecordStart resolves, or rejects and aborts the recording.            *)
RecordHookSettles(h) ==
  /\ At(h, "record", "hook")
  /\ \/ /\ asked' = [asked EXCEPT !.answer = "given"]
        /\ CallStart(h, "record", handlers[h].mount, w)
     \/ /\ asked' = [asked EXCEPT !.answer = IF @ = "given" THEN @ ELSE "refused"]
        /\ RecordHookRejects(h)
  /\ UNCHANGED hooks

(* onPauseClick() while recording. *)
ClickPause ==
  /\ w.ui /\ w.multi /\ ~w.submitting
  /\ w.recState = "recording"
  /\ r' = Stopped(r)
  /\ w' = [w EXCEPT !.recState = "paused"]
  /\ UNCHANGED <<hooks, handlers, asked>>

(* onPauseClick() while paused: the recording resumes as a new clip.       *)
ClickResume(h) ==
  /\ Free(h)
  /\ w.ui /\ w.multi /\ ~w.submitting
  /\ w.recState = "paused"
  /\ CallStart(h, "resume", w.mount, w)
  /\ UNCHANGED <<hooks, asked>>

(* The remove button of a clip. *)
RemoveClip ==
  /\ w.ui /\ w.multi
  /\ r.clips > 0
  /\ r' = [r EXCEPT !.clips = @ - 1]
  /\ UNCHANGED <<hooks, w, handlers, asked>>

Submitted(widget) == [widget EXCEPT !.recState = "submitted", !.autoClose = "clips"]

(* recorder.submit() on the recorder rec: the open span is finished, the   *)
(* buffer drained, and what it held uploaded.                              *)
CallSubmit(h, mount, widget, rec) ==
  /\ r' = [Stopped(rec) EXCEPT !.clips = 0]
  /\ IF rec.clips = 0
     THEN /\ w' = IfShown(mount, Submitted(widget))
          /\ handlers' = [handlers EXCEPT ![h] = NoHandler]
     ELSE /\ w' = IfShown(mount, widget)
          /\ handlers' = [handlers EXCEPT ![h] = [kind |-> "submit", pc |-> "upload", mount |-> mount]]

(* onSubmitClips() up to its first await. *)
ClickSubmit(h) ==
  /\ Free(h)
  /\ w.ui /\ ~w.submitting
  /\ w.recState # "submitted"
  /\ LET busy == [w EXCEPT !.submitting = TRUE]
         rec == IF w.recState = "recording" THEN Stopped(r) ELSE r
     IN  IF hooks
         THEN /\ w' = busy
              /\ r' = rec
              /\ handlers' = [handlers EXCEPT ![h] = [kind |-> "submit", pc |-> "hook", mount |-> w.mount]]
         ELSE CallSubmit(h, w.mount, busy, rec)
  /\ UNCHANGED <<hooks, asked>>

(* onBeforeSubmit resolves, or rejects and keeps the clips for a retry.    *)
SubmitHookSettles(h) ==
  /\ At(h, "submit", "hook")
  /\ \/ CallSubmit(h, handlers[h].mount, w, r)
     \/ /\ w' = IfShown(handlers[h].mount,
                        [w EXCEPT !.submitting = FALSE, !.recState = "paused", !.ui = TRUE])
        /\ handlers' = [handlers EXCEPT ![h] = NoHandler]
        /\ UNCHANGED r
  /\ UNCHANGED <<hooks, asked>>

UploadSettles(h) ==
  /\ At(h, "submit", "upload")
  /\ w' = IfShown(handlers[h].mount, Submitted(w))
  /\ handlers' = [handlers EXCEPT ![h] = NoHandler]
  /\ UNCHANGED <<hooks, r, asked>>

(* recorder.discard(): the open span is stopped, the buffer dropped.       *)
Discarded(rec) == [Stopped(rec) EXCEPT !.clips = 0]

(* onDiscardClick(). *)
ClickDiscard ==
  /\ w.ui /\ ~w.submitting
  /\ r' = Discarded(r)
  /\ w' = [w EXCEPT !.recState = "idle", !.ui = FALSE]
  /\ UNCHANGED <<hooks, handlers, asked>>

(* The timer of scheduleClose(). *)
AutoClose ==
  /\ w.autoClose # "none"
  /\ w' = IF w.autoClose = "text"
          THEN [w EXCEPT !.autoClose = "none", !.submitBusy = FALSE, !.open = FALSE]
          ELSE [w EXCEPT !.autoClose = "none", !.ui = FALSE, !.submitting = FALSE,
                         !.recState = "idle"]
  /\ UNCHANGED <<hooks, r, handlers, asked>>

-----------------------------------------------------------------------------
(* destroy(): the widget ends a recording that it knows of.                *)
Released(rec) ==
  IF w.recState \in {"recording", "paused"} THEN Stopped(rec) ELSE rec

(* The host destroys the widget, or shuts the client down. *)
Destroy ==
  /\ w.attached
  /\ r' = Released(r)
  /\ w' = [Mounted(w.mount, w.multi) EXCEPT !.attached = FALSE]
  /\ UNCHANGED <<hooks, handlers, asked>>

(* mountReportWidgetForClips(): the client's widget is mounted again when  *)
(* the server grants another clip mode, also after a shutdown.             *)
Remount ==
  /\ ~hooks
  /\ w.mount < MaxMounts
  /\ r' = Released(r)
  /\ w' = Mounted(w.mount + 1, ~w.multi)
  /\ UNCHANGED <<hooks, handlers, asked>>

-----------------------------------------------------------------------------
Init ==
  /\ hooks \in BOOLEAN
  /\ w \in {Mounted(1, multi) : multi \in BOOLEAN}
  /\ r = [recording |-> FALSE, starting |-> FALSE, clips |-> 0, spans |-> 0]
  /\ handlers = [h \in Handler |-> NoHandler]
  /\ asked = AskedAnew(r)

HandlerStep(h) ==
  \/ ClickRecord(h)
  \/ RecordHookSettles(h)
  \/ StartSettles(h)
  \/ ClickResume(h)
  \/ ClickSubmit(h)
  \/ SubmitHookSettles(h)
  \/ UploadSettles(h)

Next ==
  \/ \E h \in Handler : HandlerStep(h)
  \/ TogglePanel
  \/ SubmitText
  \/ ClickPause
  \/ RemoveClip
  \/ ClickDiscard
  \/ AutoClose
  \/ Destroy
  \/ Remount

Spec == Init /\ [][Next]_vars

-----------------------------------------------------------------------------
(* Every variable has its type. *)
TypeOK ==
  /\ hooks \in BOOLEAN
  /\ w \in Widget
  /\ r \in Recorder
  /\ handlers \in [Handler -> HandlerState]
  /\ asked \in Asked

(* A widget never has two submits under way, whatever the reset of the one *)
(* before and fresh recordings do to the flag that guards them             *)
(* (onSubmitClips, report-widget.ts:793).                                  *)
SubmitsOnce ==
  \A h, k \in Handler :
    (h # k /\ handlers[h].kind = "submit" /\ handlers[k].kind = "submit")
      => handlers[h].mount # handlers[k].mount

(* In a widget that keeps a single clip, has no hooks and was never mounted *)
(* again, the recorder records only under the recording frame, and the     *)
(* widget knows it (onRecordClick, onSubmitClips, onDiscardClick).         *)
SingleClipIsVisible ==
  (~w.multi /\ ~hooks /\ w.mount = 1 /\ w.attached /\ r.recording) => (w.ui /\ w.recState = "recording")

(* With hooks, a recorder that was off when a recording was asked for does *)
(* not record before an onRecordStart hook of that recording has resolved: *)
(* no resume, retry, second click or rejection gets round it               *)
(* (report-widget.ts:84-88, 729-747).                                      *)
RecordingIsConsented == (hooks /\ r.recording /\ asked.fresh) => asked.answer = "given"

(* A recording whose onRecordStart hooks rejected is not made, as the      *)
(* comment on that hook says (report-widget.ts:84-88).  The code does not  *)
(* keep to it: a resume still starting when its recording was discarded    *)
(* records after the hook of the next one has rejected.                    *)
RefusalAborts == (hooks /\ r.recording) => asked.answer # "refused"

=============================================================================
