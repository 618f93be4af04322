----------------------------- MODULE AutoCapture -----------------------------
(***************************************************************************)
(* How the browser client of the TypeScript SDK turns what happens on a    *)
(* page into events: ResolveTraceClient.capture(), reportProblem() and      *)
(* shutdown() (client.ts), the breadcrumb ring (recent-context.ts), and    *)
(* auto-capture (autocapture/*.ts) with its per-session ceiling, its three *)
(* frustration heuristics and the sources that report each occurrence.     *)
(*                                                                         *)
(* Everything runs on one thread: an action is one callback of the page, a *)
(* timer or the application.  Time is a counter of ticks; a timer fires at *)
(* its tick or later, as setTimeout does.                                  *)
(*                                                                         *)
(* The session manager is here only as the session that is current (see    *)
(* Session).  Left out: what an event says besides its kind, identity,     *)
(* support codes, what beforeSend and the transport (see Transport) make   *)
(* of an envelope, the replay recorder (see Replay), errors that a source  *)
(* swallows, and XMLHttpRequest objects that are opened again.             *)
(***************************************************************************)
EXTENDS Integers, Sequences, FiniteSets, SequencesExt

CONSTANTS
  Target,                   \* descriptors of elements: a click hits one
  Form,                     \* descriptors of forms
  Interactive,              \* those that look clickable
  Href,                     \* addresses the page may be at
  maxEventsPerSession,      \* ceiling of auto-captured events
  rageClickThreshold, rageClickWindow,
  deadClickWindow,
  repeatedSubmitThreshold, repeatedSubmitWindow,
  RecentSize,               \* DEFAULT_RECENT_CONTEXT_SIZE, 20 in the code
  MaxTime,                  \* bound: ticks
  MaxHistory,               \* bound: clicks, submits and events captured
  MaxSessions,              \* bound: sessions started
  MaxRequests               \* bound: requests under way

ASSUME AutoCaptureAssumption ==
  /\ Interactive \subseteq Target
  /\ maxEventsPerSession \in Nat \ {0}
  /\ rageClickThreshold \in Nat \ {0}
  /\ repeatedSubmitThreshold \in Nat \ {0}
  /\ deadClickWindow \in Nat \ {0}
  /\ rageClickWindow \in Nat \ {0}
  /\ repeatedSubmitWindow \in Nat \ {0}
  /\ RecentSize \in Nat \ {0}
  /\ MaxTime \in Nat
  /\ MaxSessions \in Nat
  /\ MaxRequests \in Nat

VARIABLES
  autoSession,              \* the option: a capture may start a session
  now,                      \* the clock
  c,                        \* the client
  rage,                     \* rage_click: the burst being counted
  submits,                  \* repeated_submit: the burst of each form
  pending, flagged,         \* dead_click: armed clicks, last flag per target
  href,                     \* location.href
  inflight,                 \* fetch calls that the api source has wrapped
  (* Observability *)
  clicks,                   \* every click and submit: kind, target, time
  bursts,                   \* every burst reported: kind, target, time
  deads,                    \* every dead click reported: which, and when
  log                       \* every event captured, in order

page == <<rage, submits, pending, flagged, href, inflight>>
history == <<clicks, bursts, deads>>
vars == <<autoSession, now, c, page, history, log>>

-----------------------------------------------------------------------------
(* The client.                                                             *)

NoSession == 0

Client ==
  [session : 0..MaxSessions,       \* the session that is active, if any
   started : 0..MaxSessions,       \* sessions started
   lastSeenSessionId : 0..MaxSessions,
   emittedCount : Nat,             \* AutoCapture.emittedCount
   installed : BOOLEAN,            \* auto-capture is installed
   recent : Seq(Nat)]              \* RecentContextBuffer, by place in the log

(* Mutant of Recorded: the newest entry is dropped instead of the oldest. *)
RecordedFirst(recent, n) ==
  IF Len(recent) < RecentSize THEN Append(recent, n) ELSE recent

(* RecentContextBuffer.record(). *)
Recorded(recent, n) ==
  LET all == Append(recent, n)
  IN  IF Len(all) > RecentSize THEN SubSeq(all, Len(all) - RecentSize + 1, Len(all)) ELSE all

(* ensureStarted(): the session an event goes to, or NoSession.            *)
SessionFor(cl) ==
  IF cl.session # NoSession THEN cl.session
  ELSE IF autoSession THEN cl.started + 1 ELSE NoSession

MayStart(cl) == SessionFor(cl) <= MaxSessions

(* capture() under session s: a session not seen before resets the budget. *)
Rolled(cl, s) ==
  [cl EXCEPT !.session = s, !.started = IF s > @ THEN s ELSE @,
             !.lastSeenSessionId = s,
             !.emittedCount = IF s # cl.lastSeenSessionId THEN 0 ELSE @]

Entry == [kind : {"app", "auto", "report"}, session : Nat, trail : Seq(Nat)]

(* capture() of an event of this kind, which carries the trail: the client *)
(* and the log after it.                                                   *)
Capture(cl, kind, trail) ==
  LET s == SessionFor(cl) IN
  IF s = NoSession
  THEN c' = cl /\ UNCHANGED log
  ELSE /\ log' = Append(log, [kind |-> kind, session |-> s, trail |-> trail])
       /\ c' = [Rolled(cl, s) EXCEPT
                  !.recent = IF kind = "report" THEN @ ELSE Recorded(@, Len(log) + 1)]

Room == Len(clicks) + Len(log) < MaxHistory

CanCapture == MayStart(c) /\ Room

(* Mutant of CeilingReached: one event more. *)
CeilingReachedLate(cl) == cl.emittedCount > maxEventsPerSession

CeilingReached(cl) == cl.emittedCount >= maxEventsPerSession

(* gatedEmit(): the event counts before it is captured. *)
GatedEmit ==
  IF CeilingReached(c)
  THEN UNCHANGED <<c, log>>
  ELSE /\ CanCapture
       /\ Capture([c EXCEPT !.emittedCount = @ + 1], "auto", <<>>)

NoEmit == UNCHANGED <<c, log>>

-----------------------------------------------------------------------------
(* The application.                                                        *)

(* capture(), track(). *)
AppCaptures ==
  /\ CanCapture
  /\ Capture(c, "app", <<>>)
  /\ UNCHANGED <<autoSession, now, page, history>>

(* reportProblem(): the trail is read before the report is captured.       *)
ReportProblem ==
  /\ CanCapture
  /\ Capture(c, "report", c.recent)
  /\ UNCHANGED <<autoSession, now, page, history>>

(* The session manager ends the session: a timer, end() or shutdown().     *)
SessionEnds ==
  /\ c.session # NoSession
  /\ c' = [c EXCEPT !.session = NoSession]
  /\ UNCHANGED <<autoSession, now, page, history, log>>

(* session.restart(). *)
SessionRestarts ==
  /\ c.started < MaxSessions
  /\ c' = [c EXCEPT !.session = c.started + 1, !.started = @ + 1]
  /\ UNCHANGED <<autoSession, now, page, history, log>>

(* client.shutdown(): the sources are torn down and the transport closed.  *)
(* A fetch under way is not called off.                                    *)
Shutdown ==
  /\ c.installed
  /\ c' = [c EXCEPT !.installed = FALSE]
  /\ rage' = [target |-> "none", count |-> 0, since |-> 0, emitted |-> FALSE]
  /\ submits' = <<>>
  /\ pending' = <<>>
  /\ flagged' = <<>>
  /\ UNCHANGED <<autoSession, now, href, inflight, history, log>>

-----------------------------------------------------------------------------
(* The heuristics.                                                         *)

Burst == [target : Target \cup Form \cup {"none"}, count : Nat, since : Nat, emitted : BOOLEAN]

NewBurst(t) == [target |-> t, count |-> 1, since |-> now, emitted |-> FALSE]

Raised(burst, threshold) == ~burst.emitted /\ burst.count >= threshold

Logged(kind, t) == clicks' = Append(clicks, [kind |-> kind, target |-> t, at |-> now])

(* The burst with this event counted; when it reaches the threshold it is  *)
(* reported, once.                                                         *)
Settle(burst, kind, threshold) ==
  IF Raised(burst, threshold)
  THEN /\ GatedEmit
       /\ bursts' = Append(bursts, [kind |-> kind, target |-> burst.target, at |-> now])
  ELSE /\ NoEmit
       /\ UNCHANGED bursts

(* Mutant of RageGoesOn: clicks on any target count. *)
RageGoesOnAnywhere(t) ==
  rage.target # "none" /\ now - rage.since <= rageClickWindow

(* A click extends the burst on the same target inside the window that the *)
(* first click of the burst opened.                                        *)
RageGoesOn(t) == rage.target = t /\ now - rage.since <= rageClickWindow

RageAfter(t) ==
  IF RageGoesOn(t) THEN [rage EXCEPT !.target = t, !.count = @ + 1] ELSE NewBurst(t)

(* Mutant of AlreadyFlagged: the flag does not hold clicks back. *)
AlreadyFlaggedNever(t) == FALSE

AlreadyFlagged(t) == t \in DOMAIN flagged /\ now - flagged[t] < deadClickWindow

NewPending(t) ==
  [target |-> t, at |-> now, click |-> Len(clicks) + 1, href |-> href, mutated |-> FALSE]

Armed(t) == t \in Interactive /\ ~AlreadyFlagged(t)

PendingClick == [target : Target, at : Nat, click : Nat, href : Href, mutated : BOOLEAN]

(* A click: the rage_click and the dead_click listeners.                   *)
Click(t) ==
  /\ c.installed
  /\ Room
  /\ Logged("click", t)
  /\ rage' = [RageAfter(t) EXCEPT !.emitted = @ \/ Raised(RageAfter(t), rageClickThreshold)]
  /\ Settle(RageAfter(t), "click", rageClickThreshold)
  /\ pending' = IF Armed(t)
                THEN Append(pending, NewPending(t))
                ELSE pending
  /\ UNCHANGED <<autoSession, now, submits, flagged, href, inflight, deads>>

(* The timer of the click armed first: a page that has neither changed nor *)
(* gone elsewhere makes it dead.                                           *)
IsDead(p) == ~p.mutated /\ p.href = href

FlaggedNow(t) == [x \in DOMAIN flagged \cup {t} |-> IF x = t THEN now ELSE flagged[x]]

DeadTimerFires ==
  /\ pending # <<>>
  /\ now >= Head(pending).at + deadClickWindow
  /\ pending' = Tail(pending)
  /\ IF IsDead(Head(pending))
     THEN /\ flagged' = FlaggedNow(Head(pending).target)
          /\ deads' = Append(deads, [target |-> Head(pending).target,
                                     click |-> Head(pending).click,
                                     at |-> now, seen |-> Len(clicks)])
          /\ GatedEmit
     ELSE /\ NoEmit
          /\ UNCHANGED <<flagged, deads>>
  /\ UNCHANGED <<autoSession, now, rage, submits, href, inflight, clicks, bursts>>

(* The MutationObserver runs. *)
DomMutates ==
  /\ \E i \in DOMAIN pending : ~pending[i].mutated
  /\ pending' = [i \in DOMAIN pending |-> [pending[i] EXCEPT !.mutated = TRUE]]
  /\ UNCHANGED <<autoSession, now, c, rage, submits, flagged, href, inflight, history, log>>

(* The address matters only to the clicks that are armed. *)
Navigate ==
  /\ pending # <<>>
  /\ href' \in Href \ {href}
  /\ UNCHANGED <<autoSession, now, c, rage, submits, pending, flagged, inflight, history, log>>

SubmitsGoOn(f) == f \in DOMAIN submits /\ now - submits[f].since <= repeatedSubmitWindow

SubmitsAfter(f) ==
  IF SubmitsGoOn(f) THEN [submits[f] EXCEPT !.count = @ + 1] ELSE NewBurst(f)

(* A form is submitted: the repeated_submit listener. *)
SubmitForm(f) ==
  /\ c.installed
  /\ Room
  /\ Logged("submit", f)
  /\ submits' = [x \in DOMAIN submits \cup {f} |->
                   IF x # f THEN submits[x]
                   ELSE [SubmitsAfter(f) EXCEPT
                           !.emitted = @ \/ Raised(SubmitsAfter(f), repeatedSubmitThreshold)]]
  /\ Settle(SubmitsAfter(f), "submit", repeatedSubmitThreshold)
  /\ UNCHANGED <<autoSession, now, rage, pending, flagged, href, inflight, deads>>

-----------------------------------------------------------------------------
(* The sources that report each occurrence.                                *)

(* error.js, error.resource, perf.long_task. *)
Occurrence ==
  /\ c.installed
  /\ ~CeilingReached(c)
  /\ GatedEmit
  /\ UNCHANGED <<autoSession, now, page, history>>

(* The page calls the wrapped fetch() or sends an XMLHttpRequest.          *)
RequestSent ==
  /\ c.installed
  /\ inflight < MaxRequests
  /\ inflight' = inflight + 1
  /\ UNCHANGED <<autoSession, now, c, rage, submits, pending, flagged, href, history, log>>

(* A request ends, with a response or an error: one event, also after the  *)
(* wrapper has been taken away.                                            *)
RequestSettles ==
  /\ inflight > 0
  /\ inflight' = inflight - 1
  /\ GatedEmit
  /\ UNCHANGED <<autoSession, now, rage, submits, pending, flagged, href, history>>

Tick ==
  /\ now < MaxTime
  /\ now' = now + 1
  /\ UNCHANGED <<autoSession, c, page, history, log>>

-----------------------------------------------------------------------------
Init ==
  /\ autoSession \in BOOLEAN
  /\ now = 0
  /\ c = [session |-> NoSession, started |-> 0, lastSeenSessionId |-> NoSession,
          emittedCount |-> 0, installed |-> TRUE, recent |-> <<>>]
  /\ rage = [target |-> "none", count |-> 0, since |-> 0, emitted |-> FALSE]
  /\ submits = <<>>
  /\ pending = <<>>
  /\ flagged = <<>>
  /\ href \in Href
  /\ inflight = 0
  /\ clicks = <<>>
  /\ bursts = <<>>
  /\ deads = <<>>
  /\ log = <<>>

Next ==
  \/ AppCaptures
  \/ ReportProblem
  \/ SessionEnds
  \/ SessionRestarts
  \/ Shutdown
  \/ \E t \in Target : Click(t)
  \/ \E f \in Form : SubmitForm(f)
  \/ DeadTimerFires
  \/ DomMutates
  \/ Navigate
  \/ Occurrence
  \/ RequestSent
  \/ RequestSettles
  \/ Tick

Spec == Init /\ [][Next]_vars

-----------------------------------------------------------------------------
(* Every variable has its type. *)
TypeOK ==
  /\ autoSession \in BOOLEAN
  /\ now \in 0..MaxTime
  /\ c \in Client
  /\ rage \in Burst
  /\ DOMAIN submits \subseteq Form
  /\ \A f \in DOMAIN submits : submits[f] \in Burst
  /\ pending \in Seq(PendingClick)
  /\ DOMAIN flagged \subseteq Target
  /\ inflight \in 0..MaxRequests
  /\ log \in Seq(Entry)

InSession(s) == {i \in DOMAIN log : log[i].session = s}

AutoIn(s) == {i \in InSession(s) : log[i].kind = "auto"}

StartedByAuto(s) == \E i \in AutoIn(s) : \A j \in InSession(s) : i <= j

(* A session gets no more auto-captured events than the ceiling, or one    *)
(* more when its first event is auto-captured: that one is counted before  *)
(* the session starts, and the start resets the count (gatedEmit, capture).*)
CeilingPerSession ==
  \A s \in 1..MaxSessions :
    Cardinality(AutoIn(s)) <= maxEventsPerSession + (IF StartedByAuto(s) THEN 1 ELSE 0)

(* The trail holds the latest of the events in before, in their order: it  *)
(* leaves one out only when it is full, and then an older one.             *)
IsRecent(trail, before) ==
  /\ \A a, b \in DOMAIN trail : a < b => trail[a] < trail[b]
  /\ Range(trail) \subseteq before
  /\ Len(trail) <= RecentSize
  /\ before \subseteq Range(trail) \/ Len(trail) = RecentSize
  /\ \A k \in before \ Range(trail) : \A a \in DOMAIN trail : k < trail[a]

NonReports(n) == {k \in 1..n : log[k].kind # "report"}

(* A problem report carries the latest events captured before it, in their *)
(* order and across sessions, and never a report (reportProblem, record).  *)
TrailIsRecent ==
  \A i \in DOMAIN log :
    log[i].kind = "report" => IsRecent(log[i].trail, NonReports(i - 1))

Window(kind) == IF kind = "click" THEN rageClickWindow ELSE repeatedSubmitWindow

Threshold(kind) == IF kind = "click" THEN rageClickThreshold ELSE repeatedSubmitThreshold

(* Every rage click and repeated submit reported stands for as many clicks *)
(* or submits of that very target as its threshold, inside its window.     *)
BurstsAreEarned ==
  \A i \in DOMAIN bursts :
    LET b == bursts[i]
    IN  Cardinality({k \in DOMAIN clicks :
                       /\ clicks[k].kind = b.kind
                       /\ clicks[k].target = b.target
                       /\ clicks[k].at \in (b.at - Window(b.kind))..b.at}) >= Threshold(b.kind)

(* A dead click holds back the clicks on its target for a window: the next *)
(* one reported was clicked after that, or before the first was reported   *)
(* (recentlyFlagged, dead-click.ts:83).                                    *)
DeadClicksAreSpaced ==
  \A i, j \in DOMAIN deads :
    (i < j /\ deads[i].target = deads[j].target)
      => \/ deads[j].click <= deads[i].seen
         \/ clicks[deads[j].click].at >= deads[i].at + deadClickWindow

(* A target clicked often enough within one window has been reported by    *)
(* then, since the window is a sliding one (rage-click.ts:4-5).  The code  *)
(* does not keep to it: the window is the one its first click opened.      *)
BurstsAreSeen ==
  \A t \in Target, k \in DOMAIN clicks :
    Cardinality({j \in 1..k : /\ clicks[j].kind = "click"
                              /\ clicks[j].target = t
                              /\ clicks[j].at >= clicks[k].at - rageClickWindow})
        >= rageClickThreshold
      => \E i \in DOMAIN bursts : bursts[i].kind = "click" /\ bursts[i].target = t

(* A target is reported dead once in a window, as the head comment says    *)
(* (dead-click.ts:17).  The code does not keep to it: of two clicks that   *)
(* are both pending neither has been flagged yet.                          *)
OneDeadClickPerWindow ==
  \A i, j \in DOMAIN deads :
    i < j /\ deads[i].target = deads[j].target => deads[j].at >= deads[i].at + deadClickWindow

=============================================================================
