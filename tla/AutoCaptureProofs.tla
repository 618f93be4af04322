-------------------------- MODULE AutoCaptureProofs --------------------------
(***************************************************************************)
(* Machine-checked proofs about AutoCapture: its four invariants, for any  *)
(* targets, windows, thresholds and ceiling, and for a page that lives as  *)
(* long as it likes.                                                       *)
(*                                                                         *)
(* Each rests on an invariant about the counters and timestamps the code   *)
(* keeps instead of the history: BudgetInv on emittedCount, RecentInv on   *)
(* the ring of recent events, BurstInv on the bursts being counted,        *)
(* SpacingInv on the armed clicks and the last flag per target.            *)
(***************************************************************************)
EXTENDS AutoCapture, FiniteSetTheorems, SequenceTheorems, TLAPS

ClickRecord == [kind : {"click", "submit"}, target : Target \cup Form, at : Nat]

BurstRecord == [kind : {"click", "submit"}, target : Target \cup Form \cup {"none"}, at : Nat]

DeadRecord == [target : Target, click : Nat, at : Nat, seen : Nat]

HistoryOK ==
  /\ href \in Href
  /\ clicks \in Seq(ClickRecord)
  /\ bursts \in Seq(BurstRecord)
  /\ deads \in Seq(DeadRecord)
  /\ \A t \in DOMAIN flagged : flagged[t] \in Nat

(* What the client knows of the log: the session last seen is the latest    *)
(* one with an event, and emittedCount bounds what it has had.              *)
Bonus(s) == IF StartedByAuto(s) THEN 1 ELSE 0

BudgetInv ==
  /\ c.session # NoSession => c.session = c.started
  /\ c.lastSeenSessionId <= c.started
  /\ c.emittedCount <= maxEventsPerSession
  /\ \A i \in DOMAIN log : log[i].session \in 1..c.lastSeenSessionId
  /\ \A s \in 1..MaxSessions :
       s = c.lastSeenSessionId => Cardinality(AutoIn(s)) <= c.emittedCount + Bonus(s)

RecentInv == IsRecent(c.recent, NonReports(Len(log)))

-----------------------------------------------------------------------------
(* What a step does to the client and the log.                             *)

Captures(kind, trail) == MayStart(c) /\ Capture(c, kind, trail)

CapturesAuto ==
  /\ ~CeilingReached(c)
  /\ MayStart(c)
  /\ Capture([c EXCEPT !.emittedCount = @ + 1], "auto", <<>>)

SessionChanges ==
  \/ c' = [c EXCEPT !.session = NoSession]
  \/ /\ c.started < MaxSessions
     /\ c' = [c EXCEPT !.session = c.started + 1, !.started = @ + 1]
  \/ c' = [c EXCEPT !.installed = FALSE]

ClientStep ==
  \/ c' = c /\ log' = log
  \/ Captures("app", <<>>)
  \/ Captures("report", c.recent)
  \/ CapturesAuto
  \/ SessionChanges /\ log' = log

LEMMA EmitSteps == GatedEmit \/ NoEmit => ClientStep
  BY DEF GatedEmit, NoEmit, ClientStep, CapturesAuto, CanCapture

LEMMA ClientSteps == [Next]_vars => ClientStep
<1> SUFFICES ASSUME [Next]_vars PROVE ClientStep
  OBVIOUS
<1>1. CASE AppCaptures
  BY <1>1 DEF AppCaptures, CanCapture, ClientStep, Captures
<1>2. CASE ReportProblem
  BY <1>2 DEF ReportProblem, CanCapture, ClientStep, Captures
<1>3. CASE SessionEnds
  BY <1>3 DEF SessionEnds, ClientStep, SessionChanges
<1>4. CASE SessionRestarts
  BY <1>4 DEF SessionRestarts, ClientStep, SessionChanges
<1>5. CASE Shutdown
  BY <1>5 DEF Shutdown, ClientStep, SessionChanges
<1>6. ASSUME NEW t \in Target, Click(t) PROVE ClientStep
  BY <1>6, EmitSteps DEF Click, Settle
<1>7. ASSUME NEW f \in Form, SubmitForm(f) PROVE ClientStep
  BY <1>7, EmitSteps DEF SubmitForm, Settle
<1>8. CASE DeadTimerFires
  BY <1>8, EmitSteps DEF DeadTimerFires
<1>9. CASE DomMutates
  BY <1>9 DEF DomMutates, ClientStep
<1>10. CASE Navigate
  BY <1>10 DEF Navigate, ClientStep
<1>11. CASE Occurrence
  BY <1>11, EmitSteps DEF Occurrence
<1>12. CASE RequestSent
  BY <1>12 DEF RequestSent, ClientStep
<1>13. CASE RequestSettles
  BY <1>13, EmitSteps DEF RequestSettles
<1>14. CASE Tick
  BY <1>14 DEF Tick, ClientStep
<1>15. CASE UNCHANGED vars
  BY <1>15 DEF vars, ClientStep
<1> QED
  BY <1>1, <1>2, <1>3, <1>4, <1>5, <1>6, <1>7, <1>8, <1>9, <1>10, <1>11, <1>12, <1>13,
     <1>14, <1>15 DEF Next

-----------------------------------------------------------------------------
(* The ring of recent events.                                              *)

(* Recorded keeps a ring a ring when the log grows by an event that is no   *)
(* report.                                                                  *)
LEMMA RecordedIsRecent ==
  ASSUME AutoCaptureAssumption,
         NEW recent \in Seq(Nat), NEW before, NEW n \in Nat,
         before \subseteq 1..n, IsRecent(recent, before)
  PROVE  /\ Recorded(recent, n + 1) \in Seq(Nat)
         /\ IsRecent(Recorded(recent, n + 1), before \cup {n + 1})
<1> DEFINE all == Append(recent, n + 1)
           out == Recorded(recent, n + 1)
           L == Len(recent)
<1>1. /\ all \in Seq(Nat) /\ Len(all) = L + 1 /\ all[L + 1] = n + 1
      /\ \A a \in 1..L : all[a] = recent[a] /\ recent[a] \in Nat
      /\ L \in Nat /\ DOMAIN recent = 1..L /\ DOMAIN all = 1..(L + 1)
  OBVIOUS
<1>2. RecentSize \in Nat /\ RecentSize > 0 /\ L <= RecentSize
  BY DEF AutoCaptureAssumption, IsRecent
<1>3. out = IF L + 1 > RecentSize THEN SubSeq(all, L + 2 - RecentSize, L + 1) ELSE all
  BY <1>1, <1>2 DEF Recorded
<1>4. /\ \A a, b \in 1..L : a < b => recent[a] < recent[b]
      /\ \A a \in 1..L : recent[a] \in before
      /\ L < RecentSize => before \subseteq Range(recent)
      /\ \A k \in before \ Range(recent) : \A a \in 1..L : k < recent[a]
  <2>1. DOMAIN recent = 1..L /\ L = Len(recent)
    BY <1>1
  <2> HIDE DEF all, out, L
  <2>2. \A a \in 1..L : recent[a] \in Range(recent)
    BY <2>1 DEF Range
  <2>3. L < RecentSize => before \subseteq Range(recent)
    <3>1. before \subseteq Range(recent) \/ L = RecentSize
      BY <2>1 DEF IsRecent
    <3> QED
      BY <1>1, <1>2, <3>1
  <2> QED
    BY <2>1, <2>2, <2>3 DEF IsRecent
<1> HIDE DEF all, out, L
<1>5. \A a \in 1..L : recent[a] < n + 1
  BY <1>1, <1>4
<1>6. \A a, b \in 1..(L + 1) : a < b => all[a] < all[b]
  <2> TAKE a, b \in 1..(L + 1)
  <2> HAVE a < b
  <2>1. a \in 1..L
    BY <1>1
  <2>2. CASE b = L + 1
    BY <1>1, <1>5, <2>1, <2>2
  <2>3. CASE b # L + 1
    <3>1. b \in 1..L
      BY <1>1, <2>3
    <3> QED
      BY <1>1, <1>4, <2>1, <3>1
  <2> QED
    BY <2>2, <2>3
<1>7. CASE L < RecentSize
  <2>1. out = all
    BY <1>1, <1>2, <1>3, <1>7
  <2>2. Range(all) = Range(recent) \cup {n + 1}
    <3>1. \A x \in Range(all) : x \in Range(recent) \cup {n + 1}
      BY <1>1 DEF Range
    <3>2. n + 1 \in Range(all)
      BY <1>1 DEF Range
    <3>3. \A x \in Range(recent) : x \in Range(all)
      BY <1>1 DEF Range
    <3> QED
      BY <3>1, <3>2, <3>3
  <2>3. Range(recent) \subseteq before /\ before \subseteq Range(recent)
    BY <1>4, <1>7 DEF IsRecent
  <2>4. Len(all) <= RecentSize
    BY <1>1, <1>2, <1>7
  <2> QED
    BY <1>1, <1>6, <2>1, <2>2, <2>3, <2>4 DEF IsRecent, out
<1>8. CASE L = RecentSize
  <2>1. out = SubSeq(all, 2, L + 1)
    BY <1>1, <1>2, <1>3, <1>8
  <2>2. out \in Seq(Nat) /\ Len(out) = L /\ DOMAIN out = 1..L
    BY <1>1, <1>2, <1>8, <2>1
  <2>3. \A a \in 1..L : out[a] = all[a + 1] /\ a + 1 \in 2..(L + 1)
    BY <1>1, <1>2, <1>8, <2>1
  <2>4. \A a, b \in 1..L : a < b => out[a] < out[b]
    <3> TAKE a, b \in 1..L
    <3> HAVE a < b
    <3>1. a + 1 \in 1..(L + 1) /\ b + 1 \in 1..(L + 1) /\ a + 1 < b + 1
      BY <1>1
    <3> QED
      BY <1>6, <2>3, <3>1
  <2>5. \A a \in 1..L : out[a] \in before \cup {n + 1}
    <3> TAKE a \in 1..L
    <3>1. CASE a = L
      BY <1>1, <2>3, <3>1
    <3>2. CASE a # L
      <4>1. a + 1 \in 1..L
        BY <1>1, <3>2
      <4> QED
        BY <1>1, <1>4, <2>3, <4>1
    <3> QED
      BY <3>1, <3>2
  <2>6. \A a \in 2..L : recent[a] \in Range(out)
    <3> TAKE a \in 2..L
    <3>1. a - 1 \in 1..L /\ (a - 1) + 1 = a /\ a \in 1..L
      BY <1>1
    <3>2. out[a - 1] = recent[a]
      BY <1>1, <2>3, <3>1
    <3> QED
      BY <2>2, <3>1, <3>2 DEF Range
  <2>7. n + 1 \in Range(out)
    <3>1. L \in 1..L /\ out[L] = n + 1
      BY <1>1, <1>2, <1>8, <2>3
    <3> QED
      BY <2>2, <3>1 DEF Range
  <2>8. \A k \in (before \cup {n + 1}) \ Range(out) : \A a \in 1..L : k < out[a]
    <3> TAKE k \in (before \cup {n + 1}) \ Range(out)
    <3> TAKE a \in 1..L
    <3>1. k \in before /\ k \in Nat
      BY <2>7
    <3>2. 1 \in 1..(L + 1) /\ a + 1 \in 1..(L + 1) /\ 1 < a + 1
      BY <1>1
    <3>3. all[1] < out[a]
      BY <1>6, <2>3, <3>2
    <3>4. all[1] = recent[1] /\ all[1] \in Nat /\ out[a] \in Nat /\ 1 \in 1..L
      <4>1. 1 \in 1..L
        BY <1>1, <1>2, <1>8
      <4>2. out[a] \in Nat
        BY <2>2
      <4> QED
        BY <1>1, <4>1, <4>2
    <3>5. k <= all[1]
      <4>1. CASE k \in Range(recent)
        <5>1. PICK e \in 1..L : k = recent[e]
          BY <1>1, <4>1 DEF Range
        <5>2. e \notin 2..L
          BY <2>6, <5>1
        <5>3. e = 1
          BY <1>1, <5>2
        <5> QED
          BY <3>4, <5>1, <5>3
      <4>2. CASE k \notin Range(recent)
        BY <1>4, <3>1, <3>4, <4>2
      <4> QED
        BY <4>1, <4>2
    <3> QED
      BY <3>1, <3>3, <3>4, <3>5
  <2>9. Range(out) \subseteq before \cup {n + 1}
    BY <2>2, <2>5 DEF Range
  <2> QED
    BY <1>8, <2>2, <2>4, <2>8, <2>9 DEF IsRecent, out
<1> QED
  BY <1>1, <1>2, <1>7, <1>8

-----------------------------------------------------------------------------
(* A capture, field by field.                                              *)

SameAs(cl) ==
  /\ cl \in Client
  /\ cl.session = c.session /\ cl.started = c.started
  /\ cl.lastSeenSessionId = c.lastSeenSessionId
  /\ cl.installed = c.installed /\ cl.recent = c.recent

LEMMA CaptureFacts ==
  ASSUME AutoCaptureAssumption, log \in Seq(Entry), autoSession \in BOOLEAN,
         NEW cl \in Client, MayStart(cl),
         NEW kind \in {"app", "auto", "report"}, NEW trail \in Seq(Nat),
         IsRecent(cl.recent, NonReports(Len(log))),
         Capture(cl, kind, trail)
  PROVE  \/ c' = cl /\ log' = log
         \/ \E s \in 1..MaxSessions :
              /\ s = IF cl.session # NoSession THEN cl.session ELSE cl.started + 1
              /\ log' = Append(log, [kind |-> kind, session |-> s, trail |-> trail])
              /\ log' \in Seq(Entry)
              /\ c' \in Client
              /\ c'.session = s
              /\ c'.started = IF s > cl.started THEN s ELSE cl.started
              /\ c'.lastSeenSessionId = s
              /\ c'.emittedCount = IF s # cl.lastSeenSessionId THEN 0 ELSE cl.emittedCount
              /\ c'.installed = cl.installed
              /\ c'.recent = IF kind = "report" THEN cl.recent ELSE Recorded(cl.recent, Len(log) + 1)
<1> DEFINE s == SessionFor(cl)
           r == Rolled(cl, s)
           recent1 == IF kind = "report" THEN cl.recent ELSE Recorded(cl.recent, Len(log) + 1)
<1>1. CASE s = NoSession
  BY <1>1 DEF Capture
<1>2. CASE s # NoSession
  <2>1. s \in 1..MaxSessions
    BY <1>2 DEF MayStart, SessionFor, NoSession, Client, AutoCaptureAssumption
  <2>2. s = IF cl.session # NoSession THEN cl.session ELSE cl.started + 1
    BY <1>2 DEF SessionFor
  <2>3. /\ log' = Append(log, [kind |-> kind, session |-> s, trail |-> trail])
        /\ c' = [r EXCEPT !.recent = IF kind = "report" THEN @ ELSE Recorded(@, Len(log) + 1)]
    BY <1>2 DEF Capture
  <2> HIDE DEF s
  <2>4. [kind |-> kind, session |-> s, trail |-> trail] \in Entry
    BY <2>1 DEF Entry
  <2>5. log' \in Seq(Entry)
    BY <2>3, <2>4
  <2>0. cl.emittedCount \in Nat /\ 0 \in Nat
    BY DEF Client
  <2>6. /\ r \in Client /\ r.session = s
        /\ r.started = IF s > cl.started THEN s ELSE cl.started
        /\ r.lastSeenSessionId = s
        /\ r.emittedCount = IF s # cl.lastSeenSessionId THEN 0 ELSE cl.emittedCount
        /\ r.installed = cl.installed /\ r.recent = cl.recent
    <3> DEFINE st == IF s > cl.started THEN s ELSE cl.started
               em == IF s # cl.lastSeenSessionId THEN 0 ELSE cl.emittedCount
    <3>1. st \in 0..MaxSessions /\ em \in Nat /\ s \in 0..MaxSessions
      BY <2>0, <2>1 DEF Client, AutoCaptureAssumption
    <3>2. r = [cl EXCEPT !.session = s, !.started = st, !.lastSeenSessionId = s, !.emittedCount = em]
      BY DEF Rolled, Client
    <3> HIDE DEF st, em, r
    <3>3. /\ r \in Client /\ r.session = s /\ r.started = st /\ r.lastSeenSessionId = s
          /\ r.emittedCount = em /\ r.installed = cl.installed /\ r.recent = cl.recent
      BY <3>1, <3>2 DEF Client
    <3> QED
      BY <3>3 DEF st, em
  <2>7. recent1 \in Seq(Nat)
    <3>1. NonReports(Len(log)) \subseteq 1..Len(log) /\ Len(log) \in Nat /\ cl.recent \in Seq(Nat)
      BY DEF NonReports, Client
    <3> QED
      BY <3>1, RecordedIsRecent
  <2>8. c' = [r EXCEPT !.recent = recent1]
    BY <2>3, <2>6
  <2> HIDE DEF r, recent1
  <2>9. /\ c' \in Client /\ c'.recent = recent1
        /\ c'.session = r.session /\ c'.started = r.started
        /\ c'.lastSeenSessionId = r.lastSeenSessionId
        /\ c'.emittedCount = r.emittedCount /\ c'.installed = r.installed
    BY <2>6, <2>7, <2>8 DEF Client
  <2> QED
    BY <2>1, <2>2, <2>3, <2>5, <2>6, <2>9 DEF recent1
<1> QED
  BY <1>1, <1>2

-----------------------------------------------------------------------------
(* What one more event does to the sets the invariants speak of.           *)

LEMMA LogGrows ==
  ASSUME log \in Seq(Entry), NEW e \in Entry, log' = Append(log, e)
  PROVE  /\ Len(log) \in Nat /\ DOMAIN log = 1..Len(log)
         /\ Len(log') = Len(log) + 1 /\ DOMAIN log' = 1..(Len(log) + 1)
         /\ \A i \in DOMAIN log : log'[i] = log[i]
         /\ log'[Len(log) + 1] = e
         /\ Len(log) + 1 \notin DOMAIN log
  OBVIOUS

LEMMA NonReportsGrow ==
  ASSUME log \in Seq(Entry), NEW e \in Entry, log' = Append(log, e),
         NEW n \in Nat, n = Len(log)
  PROVE  /\ \A k \in 0..n : NonReports(k)' = NonReports(k)
         /\ NonReports(n) \subseteq 1..n
         /\ NonReports(n + 1)' =
              IF e.kind = "report" THEN NonReports(n) ELSE NonReports(n) \cup {n + 1}
<1>1. \A k \in 1..n : log'[k] = log[k]
  BY LogGrows
<1>2. \A k \in 0..n : NonReports(k)' = NonReports(k)
  BY <1>1 DEF NonReports
<1>3. NonReports(n + 1)' = {k \in 1..(n + 1) : log'[k].kind # "report"}
  BY DEF NonReports
<1>4. NonReports(n) = {k \in 1..n : log'[k].kind # "report"}
  BY <1>1 DEF NonReports
<1>5. 1..(n + 1) = 1..n \cup {n + 1} /\ log'[n + 1] = e
  BY LogGrows
<1> QED
  BY <1>2, <1>3, <1>4, <1>5

LEMMA SessionsGrow ==
  ASSUME log \in Seq(Entry), NEW e \in Entry, log' = Append(log, e), NEW s
  PROVE  /\ InSession(s)' = IF e.session = s THEN InSession(s) \cup {Len(log) + 1} ELSE InSession(s)
         /\ AutoIn(s)' = IF e.session = s /\ e.kind = "auto"
                         THEN AutoIn(s) \cup {Len(log) + 1} ELSE AutoIn(s)
         /\ IsFiniteSet(AutoIn(s)) /\ Len(log) + 1 \notin AutoIn(s)
<1>1. InSession(s)' = IF e.session = s THEN InSession(s) \cup {Len(log) + 1} ELSE InSession(s)
  <2>1. DOMAIN log' = DOMAIN log \cup {Len(log) + 1}
    BY LogGrows
  <2> QED
    BY <2>1, LogGrows DEF InSession
<1>2. AutoIn(s)' = IF e.session = s /\ e.kind = "auto"
                   THEN AutoIn(s) \cup {Len(log) + 1} ELSE AutoIn(s)
  <2>1. InSession(s) \subseteq DOMAIN log
    BY DEF InSession
  <2> QED
    BY <1>1, <2>1, LogGrows DEF AutoIn
<1>3. AutoIn(s) \subseteq 1..Len(log)
  BY LogGrows DEF AutoIn, InSession
<1>4. IsFiniteSet(AutoIn(s))
  <2>1. IsFiniteSet(1..Len(log))
    BY LogGrows, FS_Interval
  <2> QED
    BY <1>3, <2>1, FS_Subset
<1> QED
  BY <1>1, <1>2, <1>3, <1>4, LogGrows

(* A session keeps the kind of its first event. *)
LEMMA FirstEventStays ==
  ASSUME log \in Seq(Entry), NEW e \in Entry, log' = Append(log, e), NEW s, StartedByAuto(s)
  PROVE  StartedByAuto(s)'
<1>1. PICK i \in AutoIn(s) : \A j \in InSession(s) : i <= j
  BY DEF StartedByAuto
<1>2. i \in AutoIn(s)'
  BY <1>1, SessionsGrow
<1>3. i \in DOMAIN log
  BY <1>1 DEF AutoIn, InSession
<1>4. i <= Len(log) + 1
  BY <1>3, LogGrows
<1>5. \A j \in InSession(s)' : i <= j
  BY <1>1, <1>4, SessionsGrow
<1>6. \E k \in AutoIn(s)' : \A j \in InSession(s)' : k <= j
  BY <1>2, <1>5
<1> QED
  BY <1>6 DEF StartedByAuto

-----------------------------------------------------------------------------
(* The ceiling and the trail are kept by every capture.                    *)

ClientInv ==
  /\ c \in Client
  /\ log \in Seq(Entry)
  /\ BudgetInv /\ CeilingPerSession
  /\ RecentInv /\ TrailIsRecent

(* An event about to be captured: counted when it is auto-captured, with   *)
(* the ring as its trail when it is a report.                              *)
Due(cl, kind, trail) ==
  /\ SameAs(cl)
  /\ kind \in {"app", "auto", "report"}
  /\ cl.emittedCount = IF kind = "auto" THEN c.emittedCount + 1 ELSE c.emittedCount
  /\ kind = "auto" => c.emittedCount < maxEventsPerSession
  /\ trail \in Seq(Nat)
  /\ kind = "report" => trail = c.recent

(* Session s has had the event e on top of what it had.                    *)
LEMMA BudgetGrows ==
  ASSUME AutoCaptureAssumption, log \in Seq(Entry), NEW e \in Entry, log' = Append(log, e),
         NEW s, s = e.session, NEW had \in Nat,
         Cardinality(AutoIn(s)) <= had + Bonus(s)
  PROVE  /\ Cardinality(AutoIn(s)') <= (IF e.kind = "auto" THEN had + 1 ELSE had) + Bonus(s)'
         /\ Cardinality(AutoIn(s)') \in Nat /\ Bonus(s)' \in {0, 1}
<1>1. Cardinality(AutoIn(s)) \in Nat
  BY SessionsGrow, FS_CardinalityType
<1>2. AutoIn(s)' = IF e.kind = "auto" THEN AutoIn(s) \cup {Len(log) + 1} ELSE AutoIn(s)
  BY SessionsGrow
<1>3. Cardinality(AutoIn(s)') = IF e.kind = "auto" THEN Cardinality(AutoIn(s)) + 1
                                ELSE Cardinality(AutoIn(s))
  BY <1>2, SessionsGrow, FS_AddElement
<1>4. /\ Bonus(s) \in {0, 1} /\ Bonus(s)' \in {0, 1}
      /\ Bonus(s) = 1 => Bonus(s)' = 1
  BY FirstEventStays DEF Bonus
<1> QED
  BY <1>1, <1>3, <1>4

(* The first event of a session, when it is auto-captured, is free.        *)
LEMMA FirstEventIsFree ==
  ASSUME AutoCaptureAssumption, log \in Seq(Entry), NEW e \in Entry, log' = Append(log, e),
         NEW s, s = e.session, InSession(s) = {}
  PROVE  Cardinality(AutoIn(s)') <= Bonus(s)'
<1>1. AutoIn(s) = {}
  BY DEF AutoIn
<1>2. CASE e.kind = "auto"
  <2>1. AutoIn(s)' = {Len(log) + 1} /\ InSession(s)' = {Len(log) + 1}
    BY <1>1, <1>2, SessionsGrow
  <2>2. Len(log) + 1 <= Len(log) + 1
    BY LogGrows
  <2>3. \E i \in AutoIn(s)' : \A j \in InSession(s)' : i <= j
    BY <2>1, <2>2
  <2>4. StartedByAuto(s)'
    BY <2>3 DEF StartedByAuto
  <2>5. Cardinality(AutoIn(s)') = 1
    BY <2>1, FS_Singleton
  <2> QED
    BY <2>4, <2>5 DEF Bonus
<1>3. CASE e.kind # "auto"
  <2>1. AutoIn(s)' = {}
    BY <1>1, <1>3, SessionsGrow
  <2>2. Cardinality(AutoIn(s)') = 0
    BY <2>1, FS_EmptySet
  <2> QED
    BY <2>2 DEF Bonus
<1> QED
  BY <1>2, <1>3

(* A session the event is not of keeps what it had.                        *)
LEMMA OtherSessions ==
  ASSUME log \in Seq(Entry), NEW e \in Entry, log' = Append(log, e),
         NEW s, s # e.session
  PROVE  AutoIn(s)' = AutoIn(s) /\ Bonus(s)' = Bonus(s)
<1>1. AutoIn(s)' = AutoIn(s) /\ InSession(s)' = InSession(s)
  BY SessionsGrow
<1>2. StartedByAuto(s)' <=> StartedByAuto(s)
  BY <1>1 DEF StartedByAuto
<1> QED
  BY <1>1, <1>2 DEF Bonus

LEMMA CaptureKeepsBudget ==
  ASSUME AutoCaptureAssumption, autoSession \in BOOLEAN, ClientInv,
         NEW cl, NEW kind, NEW trail, Due(cl, kind, trail),
         MayStart(cl), Capture(cl, kind, trail)
  PROVE  (BudgetInv /\ CeilingPerSession)'
<1> USE DEF NoSession
<1>1. c.emittedCount \in Nat /\ maxEventsPerSession \in Nat /\ c.emittedCount <= maxEventsPerSession
  BY DEF ClientInv, BudgetInv, Client, AutoCaptureAssumption
<1>2. cl \in Client /\ kind \in {"app", "auto", "report"} /\ trail \in Seq(Nat)
      /\ log \in Seq(Entry) /\ IsRecent(cl.recent, NonReports(Len(log)))
  BY DEF Due, SameAs, ClientInv, RecentInv
<1>3. cl.emittedCount \in Nat /\ cl.emittedCount <= maxEventsPerSession
  BY <1>1 DEF Due
<1>4. CASE c' = cl /\ log' = log
  <2>1. \A s : AutoIn(s)' = AutoIn(s) /\ InSession(s)' = InSession(s)
    BY <1>4 DEF AutoIn, InSession
  <2>2. \A s : StartedByAuto(s)' <=> StartedByAuto(s)
    BY <2>1 DEF StartedByAuto
  <2>3. \A s : Bonus(s)' = Bonus(s)
    BY <2>2 DEF Bonus
  <2>4. CeilingPerSession'
    BY <2>1, <2>2 DEF ClientInv, CeilingPerSession
  <2>5. \A s \in 1..MaxSessions :
          s = cl.lastSeenSessionId => Cardinality(AutoIn(s)) <= cl.emittedCount + Bonus(s)
    <3> TAKE s \in 1..MaxSessions
    <3> HAVE s = cl.lastSeenSessionId
    <3>1. Cardinality(AutoIn(s)) <= c.emittedCount + Bonus(s)
      BY DEF ClientInv, BudgetInv, Due, SameAs
    <3>2. Cardinality(AutoIn(s)) \in Nat
      <4>1. AutoIn(s) \subseteq 1..Len(log) /\ Len(log) \in Nat
        BY <1>2 DEF AutoIn, InSession
      <4>2. IsFiniteSet(1..Len(log))
        BY <4>1, FS_Interval
      <4> QED
        BY <4>1, <4>2, FS_Subset, FS_CardinalityType
    <3>3. c.emittedCount <= cl.emittedCount /\ Bonus(s) \in {0, 1}
      BY <1>1, <1>3 DEF Due, Bonus
    <3> QED
      BY <1>1, <1>3, <3>1, <3>2, <3>3
  <2>6. BudgetInv'
    BY <1>3, <1>4, <2>1, <2>3, <2>5 DEF ClientInv, BudgetInv, Due, SameAs
  <2> QED
    BY <2>4, <2>6
<1>5. ASSUME NEW s \in 1..MaxSessions,
             s = IF cl.session # NoSession THEN cl.session ELSE cl.started + 1,
             log' = Append(log, [kind |-> kind, session |-> s, trail |-> trail]),
             c' \in Client, c'.session = s,
             c'.started = IF s > cl.started THEN s ELSE cl.started,
             c'.lastSeenSessionId = s,
             c'.emittedCount = IF s # cl.lastSeenSessionId THEN 0 ELSE cl.emittedCount
      PROVE  (BudgetInv /\ CeilingPerSession)'
  <2> DEFINE e == [kind |-> kind, session |-> s, trail |-> trail]
  <2>1. s \in Nat /\ s > 0
    BY <1>5 DEF AutoCaptureAssumption
  <2>2. e \in Entry /\ e.session = s /\ e.kind = kind /\ log' = Append(log, e)
    BY <1>2, <1>5, <2>1 DEF Entry
  <2> HIDE DEF e
  <2>3. /\ cl.session = c.session /\ cl.started = c.started
        /\ cl.lastSeenSessionId = c.lastSeenSessionId
        /\ c.lastSeenSessionId \in Nat /\ c.started \in Nat /\ c.session \in Nat
    BY DEF Due, SameAs, ClientInv, Client, AutoCaptureAssumption
  <2>4. c.lastSeenSessionId <= c.started /\ (c.session # 0 => c.session = c.started)
    BY DEF ClientInv, BudgetInv
  <2>5. c.lastSeenSessionId <= s /\ c'.started = s
    BY <1>5, <2>1, <2>3, <2>4
  <2>6. \A i \in DOMAIN log' : log'[i].session \in 1..s
    <3>1. \A i \in DOMAIN log : log[i].session \in 1..s
      BY <2>1, <2>3, <2>5 DEF ClientInv, BudgetInv
    <3> QED
      BY <1>2, <2>1, <2>2, <3>1, LogGrows
  <2>7. Cardinality(AutoIn(s)') <= c'.emittedCount + Bonus(s)'
        /\ Cardinality(AutoIn(s)') \in Nat /\ Bonus(s)' \in {0, 1}
    <3>1. CASE s = c.lastSeenSessionId
      <4>1. Cardinality(AutoIn(s)) <= c.emittedCount + Bonus(s)
        BY <3>1 DEF ClientInv, BudgetInv
      <4>2. /\ Cardinality(AutoIn(s)') <= (IF e.kind = "auto" THEN c.emittedCount + 1 ELSE c.emittedCount) + Bonus(s)'
            /\ Cardinality(AutoIn(s)') \in Nat /\ Bonus(s)' \in {0, 1}
        BY <1>1, <1>2, <2>2, <4>1, BudgetGrows
      <4>3. c'.emittedCount = IF e.kind = "auto" THEN c.emittedCount + 1 ELSE c.emittedCount
        BY <1>5, <2>2, <2>3, <3>1 DEF Due
      <4> QED
        BY <4>2, <4>3
    <3>2. CASE s # c.lastSeenSessionId
      <4>1. InSession(s) = {}
        BY <2>1, <2>3, <2>5, <3>2 DEF InSession, ClientInv, BudgetInv
      <4>2. Cardinality(AutoIn(s)') <= Bonus(s)'
        BY <1>2, <2>2, <4>1, FirstEventIsFree
      <4>3. c'.emittedCount = 0
        BY <1>5, <2>3, <3>2
      <4>4. Bonus(s)' \in {0, 1}
        BY DEF Bonus
      <4>5. Cardinality(AutoIn(s)') \in Nat
        <5>1. IsFiniteSet(AutoIn(s)')
          BY <1>2, <2>2, SessionsGrow, FS_AddElement
        <5> QED
          BY <5>1, FS_CardinalityType
      <4> QED
        BY <4>2, <4>3, <4>4, <4>5
    <3> QED
      BY <3>1, <3>2
  <2>8. c'.emittedCount \in Nat /\ c'.emittedCount <= maxEventsPerSession
    BY <1>1, <1>3, <1>5
  <2>9. BudgetInv'
    BY <1>5, <2>1, <2>5, <2>6, <2>7, <2>8 DEF BudgetInv
  <2>10. CeilingPerSession'
    <3>1. \A t \in 1..MaxSessions : Cardinality(AutoIn(t)') <= maxEventsPerSession + Bonus(t)'
      <4> TAKE t \in 1..MaxSessions
      <4>1. CASE t = s
        BY <1>1, <2>7, <2>8, <4>1
      <4>2. CASE t # s
        <5>1. AutoIn(t)' = AutoIn(t) /\ Bonus(t)' = Bonus(t)
          BY <1>2, <2>2, <4>2, OtherSessions
        <5>2. Cardinality(AutoIn(t)) <= maxEventsPerSession + Bonus(t)
          BY DEF ClientInv, CeilingPerSession, Bonus
        <5> QED
          BY <5>1, <5>2
      <4> QED
        BY <4>1, <4>2
    <3> QED
      BY <3>1 DEF CeilingPerSession, Bonus
  <2> QED
    BY <2>9, <2>10
<1> QED
  BY <1>2, <1>4, <1>5, CaptureFacts

LEMMA CaptureKeepsTrails ==
  ASSUME AutoCaptureAssumption, autoSession \in BOOLEAN, ClientInv,
         NEW cl, NEW kind, NEW trail, Due(cl, kind, trail),
         MayStart(cl), Capture(cl, kind, trail)
  PROVE  /\ c' \in Client /\ log' \in Seq(Entry)
         /\ (RecentInv /\ TrailIsRecent)'
<1>1. cl \in Client /\ kind \in {"app", "auto", "report"} /\ trail \in Seq(Nat)
      /\ log \in Seq(Entry) /\ IsRecent(cl.recent, NonReports(Len(log)))
      /\ cl.recent = c.recent
  BY DEF Due, SameAs, ClientInv, RecentInv
<1>2. CASE c' = cl /\ log' = log
  <2>1. \A n : NonReports(n)' = NonReports(n)
    BY <1>2 DEF NonReports
  <2>2. TrailIsRecent'
    BY <1>2, <2>1 DEF TrailIsRecent, ClientInv
  <2>3. RecentInv'
    BY <1>1, <1>2, <2>1 DEF RecentInv
  <2> QED
    BY <1>1, <1>2, <2>2, <2>3
<1>3. ASSUME NEW s \in 1..MaxSessions,
             log' = Append(log, [kind |-> kind, session |-> s, trail |-> trail]),
             log' \in Seq(Entry), c' \in Client,
             c'.recent = IF kind = "report" THEN cl.recent ELSE Recorded(cl.recent, Len(log) + 1)
      PROVE  (RecentInv /\ TrailIsRecent)'
  <2> DEFINE e == [kind |-> kind, session |-> s, trail |-> trail]
  <2>0. PICK n \in Nat : n = Len(log)
    BY <1>1
  <2>1. /\ e \in Entry /\ e.kind = kind /\ e.trail = trail /\ log' = Append(log, e)
        /\ n \in Nat /\ n = Len(log)
    BY <1>1, <1>3, <2>0 DEF Entry, AutoCaptureAssumption
  <2> HIDE DEF e
  <2>2. /\ \A k \in 0..n : NonReports(k)' = NonReports(k)
        /\ NonReports(n) \subseteq 1..n
        /\ NonReports(n + 1)' =
             IF e.kind = "report" THEN NonReports(n) ELSE NonReports(n) \cup {n + 1}
    BY <1>1, <2>1, NonReportsGrow
  <2>3. /\ Len(log') = n + 1 /\ DOMAIN log' = 1..(n + 1) /\ DOMAIN log = 1..n
        /\ \A i \in 1..n : log'[i] = log[i]
        /\ log'[n + 1] = e
    BY <1>1, <2>1, LogGrows
  <2>4. IsRecent(c'.recent, NonReports(n + 1)')
    <3>1. CASE kind = "report"
      BY <1>1, <1>3, <2>1, <2>2, <3>1
    <3>2. CASE kind # "report"
      <4>1. cl.recent \in Seq(Nat) /\ IsRecent(cl.recent, NonReports(n))
        BY <1>1, <2>1 DEF Client
      <4>2. IsRecent(Recorded(cl.recent, n + 1), NonReports(n) \cup {n + 1})
        BY <2>1, <2>2, <4>1, RecordedIsRecent
      <4> QED
        BY <1>3, <2>1, <2>2, <3>2, <4>2
    <3> QED
      BY <3>1, <3>2
  <2>5. RecentInv'
    BY <2>3, <2>4 DEF RecentInv, IsRecent
  <2>6. TrailIsRecent'
    <3>1. \A i \in 1..(n + 1) : log'[i].kind = "report" => IsRecent(log'[i].trail, NonReports(i - 1)')
      <4> TAKE i \in 1..(n + 1)
      <4> HAVE log'[i].kind = "report"
      <4>1. CASE i = n + 1
        <5>1. i - 1 = n /\ log'[i].trail = trail /\ trail = c.recent
          BY <2>1, <2>3, <4>1 DEF Due
        <5>2. NonReports(n)' = NonReports(n)
          BY <2>1, <2>2
        <5> QED
          BY <1>1, <2>1, <5>1, <5>2
      <4>2. CASE i # n + 1
        <5>1. i \in 1..n /\ i - 1 \in 0..n /\ log'[i] = log[i]
          BY <2>1, <2>3, <4>2
        <5>2. IsRecent(log[i].trail, NonReports(i - 1))
          BY <2>3, <5>1 DEF ClientInv, TrailIsRecent
        <5> QED
          BY <2>2, <5>1, <5>2
      <4> QED
        BY <4>1, <4>2
    <3> QED
      BY <2>3, <3>1 DEF TrailIsRecent, IsRecent
  <2> QED
    BY <2>5, <2>6
<1>4. \/ c' = cl /\ log' = log
      \/ \E s \in 1..MaxSessions :
           /\ log' = Append(log, [kind |-> kind, session |-> s, trail |-> trail])
           /\ log' \in Seq(Entry) /\ c' \in Client
           /\ c'.recent = IF kind = "report" THEN cl.recent ELSE Recorded(cl.recent, Len(log) + 1)
  BY <1>1, CaptureFacts, SMTT(30)
<1> QED
  BY <1>1, <1>2, <1>3, <1>4

(* The log does not change, nor what the client knows of it.               *)
LEMMA LogStays ==
  ASSUME ClientInv, log' = log, c' \in Client,
         c'.recent = c.recent, c'.emittedCount = c.emittedCount,
         c'.lastSeenSessionId = c.lastSeenSessionId, c'.started >= c.started,
         c'.session # NoSession => c'.session = c'.started
  PROVE  ClientInv'
<1>1. \A s : InSession(s)' = InSession(s) /\ AutoIn(s)' = AutoIn(s)
  BY DEF InSession, AutoIn
<1>2. \A s : StartedByAuto(s)' <=> StartedByAuto(s)
  BY <1>1 DEF StartedByAuto
<1>3. \A s : Bonus(s)' = Bonus(s)
  BY <1>2 DEF Bonus
<1>4. \A n : NonReports(n)' = NonReports(n)
  BY DEF NonReports
<1>5. CeilingPerSession'
  BY <1>1, <1>2 DEF ClientInv, CeilingPerSession
<1>6. TrailIsRecent' /\ RecentInv'
  BY <1>4 DEF ClientInv, TrailIsRecent, RecentInv
<1>7. BudgetInv'
  <2>1. c'.lastSeenSessionId <= c'.started
    <3>1. c.lastSeenSessionId \in Int /\ c.started \in Int /\ c'.started \in Int
          /\ c.lastSeenSessionId <= c.started
      BY DEF ClientInv, BudgetInv, Client
    <3> QED
      BY <3>1
  <2> QED
    BY <1>1, <1>3, <2>1 DEF ClientInv, BudgetInv
<1> QED
  BY <1>5, <1>6, <1>7 DEF ClientInv

LEMMA ClientInvNext ==
  ASSUME AutoCaptureAssumption, autoSession \in BOOLEAN, ClientInv, ClientStep
  PROVE  ClientInv'
<1> USE DEF NoSession
<1>1. c \in Client /\ c.recent \in Seq(Nat) /\ <<>> \in Seq(Nat)
  BY DEF ClientInv, Client
<1>2. ASSUME NEW kind, NEW trail, NEW cl, Due(cl, kind, trail), MayStart(cl), Capture(cl, kind, trail)
      PROVE  ClientInv'
  BY <1>2, CaptureKeepsBudget, CaptureKeepsTrails DEF ClientInv
<1>3. CASE c' = c /\ log' = log
  <2>1. c.started >= c.started /\ (c.session # NoSession => c.session = c.started)
    BY <1>1 DEF ClientInv, BudgetInv, Client, AutoCaptureAssumption
  <2> QED
    BY <1>1, <1>3, <2>1, LogStays
<1>4. CASE Captures("app", <<>>)
  <2>1. Due(c, "app", <<>>)
    BY <1>1 DEF Due, SameAs
  <2> QED
    BY <1>2, <1>4, <2>1 DEF Captures
<1>5. CASE Captures("report", c.recent)
  <2>1. Due(c, "report", c.recent)
    BY <1>1 DEF Due, SameAs
  <2> QED
    BY <1>2, <1>5, <2>1 DEF Captures
<1>6. CASE CapturesAuto
  <2> DEFINE cl == [c EXCEPT !.emittedCount = @ + 1]
  <2>1. MayStart(cl) /\ Capture(cl, "auto", <<>>)
    <3>1. MayStart(cl)
      BY <1>1, <1>6 DEF CapturesAuto, MayStart, SessionFor, Client
    <3> QED
      BY <1>6, <3>1 DEF CapturesAuto
  <2>2. c.emittedCount \in Nat /\ c.emittedCount < maxEventsPerSession
    BY <1>1, <1>6 DEF CapturesAuto, CeilingReached, Client, AutoCaptureAssumption
  <2>3. SameAs(cl) /\ cl.emittedCount = c.emittedCount + 1
    <3>1. c.emittedCount + 1 \in Nat
      BY <2>2
    <3>2. cl = [c EXCEPT !.emittedCount = c.emittedCount + 1]
      OBVIOUS
    <3>3. cl \in Client /\ cl.emittedCount = c.emittedCount + 1
      BY <1>1, <3>1, <3>2 DEF Client
    <3>4. /\ cl.session = c.session /\ cl.started = c.started
          /\ cl.lastSeenSessionId = c.lastSeenSessionId
          /\ cl.installed = c.installed /\ cl.recent = c.recent
      BY <1>1 DEF Client
    <3> QED
      BY <3>3, <3>4 DEF SameAs
  <2>4. Due(cl, "auto", <<>>)
    BY <1>1, <2>2, <2>3 DEF Due
  <2> HIDE DEF cl
  <2> QED
    BY <1>2, <2>1, <2>4
<1>7. CASE SessionChanges /\ log' = log
  <2>1. c.started \in 0..MaxSessions /\ (c.session # NoSession => c.session = c.started)
    BY <1>1 DEF ClientInv, BudgetInv, Client
  <2>2. CASE c' = [c EXCEPT !.session = NoSession]
    <3>0. 0 \in 0..MaxSessions
      BY DEF AutoCaptureAssumption
    <3>1. c' \in Client /\ c'.started = c.started /\ c'.session = NoSession
          /\ c'.recent = c.recent /\ c'.emittedCount = c.emittedCount
          /\ c'.lastSeenSessionId = c.lastSeenSessionId
      BY <1>1, <2>2, <3>0 DEF Client
    <3>2. c'.started >= c.started
      BY <2>1, <3>1
    <3> QED
      BY <1>7, <3>1, <3>2, LogStays
  <2>3. CASE /\ c.started < MaxSessions
             /\ c' = [c EXCEPT !.session = c.started + 1, !.started = @ + 1]
    <3>0. c.started + 1 \in 0..MaxSessions
      BY <2>1, <2>3 DEF AutoCaptureAssumption
    <3>1. c' \in Client /\ c'.started = c.started + 1 /\ c'.session = c.started + 1
          /\ c'.recent = c.recent /\ c'.emittedCount = c.emittedCount
          /\ c'.lastSeenSessionId = c.lastSeenSessionId
      BY <1>1, <2>3, <3>0 DEF Client
    <3>2. c'.started >= c.started
      BY <2>1, <3>1
    <3> QED
      BY <1>7, <3>1, <3>2, LogStays
  <2>4. CASE c' = [c EXCEPT !.installed = FALSE]
    <3>1. c' \in Client /\ c'.started = c.started /\ c'.session = c.session
          /\ c'.recent = c.recent /\ c'.emittedCount = c.emittedCount
          /\ c'.lastSeenSessionId = c.lastSeenSessionId
      BY <1>1, <2>4 DEF Client
    <3>2. c'.started >= c.started
      BY <2>1, <3>1
    <3> QED
      BY <1>7, <2>1, <3>1, <3>2, LogStays
  <2> QED
    BY <1>7, <2>2, <2>3, <2>4 DEF SessionChanges
<1> QED
  BY <1>3, <1>4, <1>5, <1>6, <1>7 DEF ClientStep

-----------------------------------------------------------------------------
(* Types.                                                                  *)

Types == TypeOK /\ HistoryOK

(* A burst keeps its counters when it is marked as reported.               *)
LEMMA MarkedBurst ==
  ASSUME NEW b \in Burst, NEW threshold \in Nat
  PROVE  LET m == [b EXCEPT !.emitted = @ \/ Raised(b, threshold)]
         IN  m \in Burst /\ m.target = b.target /\ m.count = b.count /\ m.since = b.since
<1>1. CASE b.emitted \/ Raised(b, threshold)
  <2>1. [b EXCEPT !.emitted = @ \/ Raised(b, threshold)] = [b EXCEPT !.emitted = TRUE]
    BY <1>1 DEF Burst
  <2> QED
    BY <2>1 DEF Burst
<1>2. CASE ~(b.emitted \/ Raised(b, threshold))
  <2>1. [b EXCEPT !.emitted = @ \/ Raised(b, threshold)] = [b EXCEPT !.emitted = FALSE]
    BY <1>2 DEF Burst
  <2> QED
    BY <2>1 DEF Burst
<1> QED
  BY <1>1, <1>2

LEMMA RageAfterFacts ==
  ASSUME now \in Nat, rage \in Burst, NEW t \in Target
  PROVE  /\ RageAfter(t) \in Burst /\ RageAfter(t).target = t
         /\ RageAfter(t).count = IF RageGoesOn(t) THEN rage.count + 1 ELSE 1
         /\ RageAfter(t).since = IF RageGoesOn(t) THEN rage.since ELSE now
<1>1. CASE RageGoesOn(t)
  <2>1. RageAfter(t) = [rage EXCEPT !.target = t, !.count = rage.count + 1]
    BY <1>1 DEF RageAfter, Burst
  <2>2. rage.count + 1 \in Nat /\ t \in Target \cup Form \cup {"none"}
    BY DEF Burst
  <2> QED
    BY <1>1, <2>1, <2>2 DEF Burst
<1>2. CASE ~RageGoesOn(t)
  BY <1>2 DEF RageAfter, NewBurst, Burst
<1> QED
  BY <1>1, <1>2

LEMMA SubmitsAfterFacts ==
  ASSUME now \in Nat, \A x \in DOMAIN submits : submits[x] \in Burst, NEW f \in Form
  PROVE  /\ SubmitsAfter(f) \in Burst
         /\ SubmitsAfter(f).target = IF SubmitsGoOn(f) THEN submits[f].target ELSE f
         /\ SubmitsAfter(f).count = IF SubmitsGoOn(f) THEN submits[f].count + 1 ELSE 1
         /\ SubmitsAfter(f).since = IF SubmitsGoOn(f) THEN submits[f].since ELSE now
<1>1. CASE SubmitsGoOn(f)
  <2>1. SubmitsAfter(f) = [submits[f] EXCEPT !.count = @ + 1] /\ submits[f] \in Burst
    BY <1>1 DEF SubmitsAfter, SubmitsGoOn
  <2> QED
    BY <1>1, <2>1 DEF Burst
<1>2. CASE ~SubmitsGoOn(f)
  BY <1>2 DEF SubmitsAfter, NewBurst, Burst
<1> QED
  BY <1>1, <1>2

SubmitBurst(f) ==
  [SubmitsAfter(f) EXCEPT !.emitted = @ \/ Raised(SubmitsAfter(f), repeatedSubmitThreshold)]

LEMMA ClickTypes ==
  ASSUME AutoCaptureAssumption, Types, c' \in Client, log' \in Seq(Entry),
         NEW t \in Target, Click(t)
  PROVE  Types'
<1> USE DEF Types, TypeOK, HistoryOK
<1>0. ASSUME NEW e \in BurstRecord, bursts' = bursts \/ bursts' = Append(bursts, e)
      PROVE  bursts' \in Seq(BurstRecord)
  <2>1. bursts \in Seq(BurstRecord)
    OBVIOUS
  <2>2. Append(bursts, e) \in Seq(BurstRecord)
    BY <2>1, AppendProperties
  <2> QED
    BY <1>0, <2>1, <2>2
<1>1. now \in Nat /\ rage \in Burst /\ rageClickThreshold \in Nat
  BY DEF AutoCaptureAssumption
<1>2. rage' \in Burst
  BY <1>1, RageAfterFacts, MarkedBurst DEF Click
<1>3. clicks' \in Seq(ClickRecord)
  <2>1. [kind |-> "click", target |-> t, at |-> now] \in ClickRecord
    BY <1>1 DEF ClickRecord
  <2> QED
    BY <2>1 DEF Click, Logged
<1>4. bursts' \in Seq(BurstRecord)
  <2>1. [kind |-> "click", target |-> RageAfter(t).target, at |-> now] \in BurstRecord
    <3>1. RageAfter(t).target = t
      BY <1>1, RageAfterFacts
    <3> QED
      BY <1>1, <3>1 DEF BurstRecord
  <2>2. \/ bursts' = bursts
        \/ bursts' = Append(bursts, [kind |-> "click", target |-> RageAfter(t).target, at |-> now])
    BY DEF Click, Settle
  <2> QED
    BY <1>0, <2>1, <2>2
<1>5. pending' \in Seq(PendingClick)
  <2>1. NewPending(t) \in PendingClick
    BY <1>1 DEF NewPending, PendingClick
  <2> QED
    BY <2>1 DEF Click
<1> QED
  BY <1>2, <1>3, <1>4, <1>5 DEF Click

LEMMA SubmitTypes ==
  ASSUME AutoCaptureAssumption, Types, c' \in Client, log' \in Seq(Entry),
         NEW f \in Form, SubmitForm(f)
  PROVE  Types'
<1> USE DEF Types, TypeOK, HistoryOK
<1>0. ASSUME NEW e \in BurstRecord, bursts' = bursts \/ bursts' = Append(bursts, e)
      PROVE  bursts' \in Seq(BurstRecord)
  <2>1. bursts \in Seq(BurstRecord)
    OBVIOUS
  <2>2. Append(bursts, e) \in Seq(BurstRecord)
    BY <2>1, AppendProperties
  <2> QED
    BY <1>0, <2>1, <2>2
<1>1. now \in Nat /\ repeatedSubmitThreshold \in Nat
  BY DEF AutoCaptureAssumption
<1>2. SubmitsAfter(f) \in Burst /\ SubmitBurst(f) \in Burst
  BY <1>1, SubmitsAfterFacts, MarkedBurst DEF SubmitBurst
<1>3. /\ DOMAIN submits' = DOMAIN submits \cup {f}
      /\ submits'[f] = SubmitBurst(f)
      /\ \A x \in DOMAIN submits : x # f => submits'[x] = submits[x]
  BY DEF SubmitForm, SubmitBurst
<1>4. clicks' \in Seq(ClickRecord)
  <2>1. [kind |-> "submit", target |-> f, at |-> now] \in ClickRecord
    BY <1>1 DEF ClickRecord
  <2> QED
    BY <2>1 DEF SubmitForm, Logged
<1>5. bursts' \in Seq(BurstRecord)
  <2>1. [kind |-> "submit", target |-> SubmitsAfter(f).target, at |-> now] \in BurstRecord
    BY <1>1, <1>2 DEF Burst, BurstRecord
  <2>2. \/ bursts' = bursts
        \/ bursts' = Append(bursts, [kind |-> "submit", target |-> SubmitsAfter(f).target, at |-> now])
    BY DEF SubmitForm, Settle
  <2> QED
    BY <1>0, <2>1, <2>2
<1>6. DOMAIN submits' \subseteq Form /\ \A x \in DOMAIN submits' : submits'[x] \in Burst
  BY <1>2, <1>3
<1> QED
  BY <1>4, <1>5, <1>6 DEF SubmitForm

LEMMA DeadTimerTypes ==
  ASSUME AutoCaptureAssumption, Types, c' \in Client, log' \in Seq(Entry), DeadTimerFires
  PROVE  Types'
<1> USE DEF Types, TypeOK, HistoryOK
<1> DEFINE p == Head(pending)
<1>1. p \in PendingClick /\ pending' \in Seq(PendingClick) /\ p.target \in Target /\ p.click \in Nat
  <2>1. pending # <<>> /\ pending' = Tail(pending) /\ pending \in Seq(PendingClick)
    BY DEF DeadTimerFires
  <2>2. p \in PendingClick /\ pending' \in Seq(PendingClick)
    BY <2>1
  <2> QED
    BY <2>2 DEF PendingClick
<1>2. now \in Nat /\ Len(clicks) \in Nat
  BY DEF AutoCaptureAssumption
<1> HIDE DEF p
<1>3. /\ DOMAIN flagged' \subseteq Target /\ \A t \in DOMAIN flagged' : flagged'[t] \in Nat
      /\ deads' \in Seq(DeadRecord)
  <2>1. CASE IsDead(p)
    <3>1. flagged' = FlaggedNow(p.target)
      BY <2>1 DEF DeadTimerFires, p
    <3>2. deads' = Append(deads, [target |-> p.target, click |-> p.click, at |-> now, seen |-> Len(clicks)])
      BY <2>1 DEF DeadTimerFires, p
    <3>3. [target |-> p.target, click |-> p.click, at |-> now, seen |-> Len(clicks)]
            \in DeadRecord
      BY <1>1, <1>2 DEF DeadRecord
    <3> QED
      BY <1>1, <1>2, <3>1, <3>2, <3>3 DEF FlaggedNow
  <2>2. CASE ~IsDead(p)
    BY <2>2 DEF DeadTimerFires, p
  <2> QED
    BY <2>1, <2>2
<1> QED
  BY <1>1, <1>3 DEF DeadTimerFires

LEMMA MutatesTypes ==
  ASSUME pending \in Seq(PendingClick), DomMutates
  PROVE  /\ pending' \in Seq(PendingClick) /\ Len(pending') = Len(pending)
         /\ \A i \in DOMAIN pending : pending'[i] = [pending[i] EXCEPT !.mutated = TRUE]
<1>1. /\ pending' = [i \in 1..Len(pending) |-> [pending[i] EXCEPT !.mutated = TRUE]]
      /\ Len(pending) \in Nat
  BY DEF DomMutates
<1>2. \A i \in 1..Len(pending) : [pending[i] EXCEPT !.mutated = TRUE] \in PendingClick
  <2> TAKE i \in 1..Len(pending)
  <2>1. pending[i] \in PendingClick
    OBVIOUS
  <2> QED
    BY <2>1 DEF PendingClick
<1> QED
  BY <1>1, <1>2

LEMMA TypesNext ==
  ASSUME AutoCaptureAssumption, Types, c' \in Client, log' \in Seq(Entry), [Next]_vars
  PROVE  Types'
<1> USE DEF Types, TypeOK, HistoryOK
<1>1. CASE AppCaptures
  BY <1>1 DEF AppCaptures, page, history
<1>2. CASE ReportProblem
  BY <1>2 DEF ReportProblem, page, history
<1>3. CASE SessionEnds
  BY <1>3 DEF SessionEnds, page, history
<1>4. CASE SessionRestarts
  BY <1>4 DEF SessionRestarts, page, history
<1>5. CASE Shutdown
  <2>1. rage' \in Burst
    BY <1>5 DEF Shutdown, Burst
  <2>2. DOMAIN submits' = {} /\ DOMAIN flagged' = {} /\ pending' \in Seq(PendingClick)
    BY <1>5 DEF Shutdown
  <2> QED
    BY <1>5, <2>1, <2>2 DEF Shutdown, history
<1>6. ASSUME NEW t \in Target, Click(t) PROVE Types'
  BY <1>6, ClickTypes
<1>7. ASSUME NEW f \in Form, SubmitForm(f) PROVE Types'
  BY <1>7, SubmitTypes
<1>8. CASE DeadTimerFires
  BY <1>8, DeadTimerTypes
<1>9. CASE DomMutates
  BY <1>9, MutatesTypes DEF DomMutates, history
<1>10. CASE Navigate
  BY <1>10 DEF Navigate, history
<1>11. CASE Occurrence
  BY <1>11 DEF Occurrence, page, history
<1>12. CASE RequestSent
  BY <1>12 DEF RequestSent, history, AutoCaptureAssumption
<1>13. CASE RequestSettles
  BY <1>13 DEF RequestSettles, history, AutoCaptureAssumption
<1>14. CASE Tick
  BY <1>14 DEF Tick, page, history, AutoCaptureAssumption
<1>15. CASE UNCHANGED vars
  BY <1>15 DEF vars, page, history
<1> QED
  BY <1>1, <1>2, <1>3, <1>4, <1>5, <1>6, <1>7, <1>8, <1>9, <1>10, <1>11, <1>12, <1>13,
     <1>14, <1>15 DEF Next

-----------------------------------------------------------------------------
(* Bursts.  A burst being counted never counts more than there were clicks *)
(* on its target since it began.                                           *)

Hits(cs, kind, t, from) ==
  {k \in DOMAIN cs : cs[k].kind = kind /\ cs[k].target = t /\ cs[k].at >= from}

Covers(burst, kind) ==
  burst.since <= now /\ burst.count <= Cardinality(Hits(clicks, kind, burst.target, burst.since))

BurstInv ==
  /\ \A k \in DOMAIN clicks : clicks[k].at <= now
  /\ Covers(rage, "click")
  /\ \A f \in DOMAIN submits : submits[f].target = f /\ Covers(submits[f], "submit")
  /\ BurstsAreEarned

EarnedSet(cs, b) ==
  {k \in DOMAIN cs :
     /\ cs[k].kind = b.kind
     /\ cs[k].target = b.target
     /\ cs[k].at \in (b.at - Window(b.kind))..b.at}

LEMMA ClicksGrow ==
  ASSUME clicks \in Seq(ClickRecord), now \in Nat,
         NEW kind \in {"click", "submit"}, NEW t \in Target \cup Form, Logged(kind, t)
  PROVE  /\ Len(clicks) \in Nat /\ DOMAIN clicks = 1..Len(clicks)
         /\ Len(clicks') = Len(clicks) + 1
         /\ DOMAIN clicks' = DOMAIN clicks \cup {Len(clicks) + 1}
         /\ Len(clicks) + 1 \notin DOMAIN clicks
         /\ \A k \in DOMAIN clicks : clicks'[k] = clicks[k] /\ clicks[k].at \in Nat
         /\ clicks'[Len(clicks) + 1] = [kind |-> kind, target |-> t, at |-> now]
<1>1. Len(clicks) \in Nat /\ DOMAIN clicks = 1..Len(clicks) /\ \A k \in DOMAIN clicks : clicks[k] \in ClickRecord
  OBVIOUS
<1>2. /\ Len(clicks') = Len(clicks) + 1
      /\ DOMAIN clicks' = 1..(Len(clicks) + 1)
      /\ \A k \in 1..Len(clicks) : clicks'[k] = clicks[k]
      /\ clicks'[Len(clicks) + 1] = [kind |-> kind, target |-> t, at |-> now]
  BY DEF Logged
<1> QED
  BY <1>1, <1>2 DEF ClickRecord

LEMMA FiniteHits ==
  ASSUME clicks \in Seq(ClickRecord), NEW S, S \subseteq DOMAIN clicks
  PROVE  IsFiniteSet(S) /\ Cardinality(S) \in Nat
<1>1. DOMAIN clicks = 1..Len(clicks) /\ Len(clicks) \in Nat
  OBVIOUS
<1>2. IsFiniteSet(DOMAIN clicks)
  BY <1>1, FS_Interval
<1>3. IsFiniteSet(S)
  BY <1>2, FS_Subset
<1> QED
  BY <1>3, FS_CardinalityType

(* One more click: its hits are counted once, the others stay.             *)
LEMMA HitsGrow ==
  ASSUME clicks \in Seq(ClickRecord), now \in Nat,
         NEW kind \in {"click", "submit"}, NEW t \in Target \cup Form, Logged(kind, t),
         NEW k, NEW u, NEW from \in Nat, from <= now
  PROVE  /\ Cardinality(Hits(clicks, k, u, from)) \in Nat
         /\ Cardinality(Hits(clicks', k, u, from)) =
              IF k = kind /\ u = t THEN Cardinality(Hits(clicks, k, u, from)) + 1
              ELSE Cardinality(Hits(clicks, k, u, from))
<1>1. Hits(clicks, k, u, from) \subseteq DOMAIN clicks
  BY DEF Hits
<1>2. Hits(clicks', k, u, from) = IF k = kind /\ u = t THEN Hits(clicks, k, u, from) \cup {Len(clicks) + 1}
                          ELSE Hits(clicks, k, u, from)
  <2> DEFINE n == Len(clicks) + 1
             Hit(j) == clicks'[j].kind = k /\ clicks'[j].target = u /\ clicks'[j].at >= from
  <2>1. /\ DOMAIN clicks' = DOMAIN clicks \cup {n} /\ n \notin DOMAIN clicks
        /\ \A j \in DOMAIN clicks : clicks'[j] = clicks[j]
        /\ clicks'[n] = [kind |-> kind, target |-> t, at |-> now]
    BY ClicksGrow
  <2>2. Hits(clicks', k, u, from) = {j \in DOMAIN clicks' : Hit(j)}
    BY DEF Hits
  <2>3. Hits(clicks, k, u, from) = {j \in DOMAIN clicks : Hit(j)}
    BY <2>1 DEF Hits
  <2>4. Hit(n) <=> k = kind /\ u = t
    BY <2>1
  <2> HIDE DEF n, Hit
  <2>5. {j \in DOMAIN clicks' : Hit(j)} =
          IF k = kind /\ u = t THEN {j \in DOMAIN clicks : Hit(j)} \cup {n}
          ELSE {j \in DOMAIN clicks : Hit(j)}
    BY <2>1, <2>4
  <2> QED
    BY <2>2, <2>3, <2>5 DEF n
<1>3. Len(clicks) + 1 \notin Hits(clicks, k, u, from)
  BY <1>1, ClicksGrow
<1>4. IsFiniteSet(Hits(clicks, k, u, from)) /\ Cardinality(Hits(clicks, k, u, from)) \in Nat
  BY <1>1, FiniteHits
<1> QED
  BY <1>2, <1>3, <1>4, FS_AddElement

(* What was earned stays earned.                                           *)
LEMMA StillEarned ==
  ASSUME clicks \in Seq(ClickRecord), now \in Nat,
         NEW kind \in {"click", "submit"}, NEW t \in Target \cup Form, Logged(kind, t), NEW b
  PROVE  /\ Cardinality(EarnedSet(clicks, b)) <= Cardinality(EarnedSet(clicks', b))
         /\ Cardinality(EarnedSet(clicks, b)) \in Nat /\ Cardinality(EarnedSet(clicks', b)) \in Nat
<1>1. EarnedSet(clicks, b) \subseteq DOMAIN clicks /\ EarnedSet(clicks', b) \subseteq DOMAIN clicks'
  BY DEF EarnedSet
<1>2. clicks' \in Seq(ClickRecord)
  <2>1. [kind |-> kind, target |-> t, at |-> now] \in ClickRecord
    BY DEF ClickRecord
  <2> QED
    BY <2>1, AppendProperties DEF Logged
<1>3. EarnedSet(clicks, b) \subseteq EarnedSet(clicks', b)
  BY ClicksGrow DEF EarnedSet
<1>4. IsFiniteSet(DOMAIN clicks')
  <2>1. DOMAIN clicks' = 1..Len(clicks') /\ Len(clicks') \in Nat
    BY <1>2
  <2> QED
    BY <2>1, FS_Interval
<1>5. IsFiniteSet(EarnedSet(clicks', b))
  BY <1>1, <1>4, FS_Subset
<1>6. Cardinality(EarnedSet(clicks, b)) <= Cardinality(EarnedSet(clicks', b))
  BY <1>3, <1>5, FS_Subset
<1> QED
  BY <1>1, <1>5, <1>6, FiniteHits, FS_CardinalityType

(* A burst that covers its count is worth its threshold when it raises.    *)
LEMMA RaisedIsEarned ==
  ASSUME clicks' \in Seq(ClickRecord), now \in Nat, now' = now,
         NEW kind \in {"click", "submit"}, NEW burst \in Burst,
         \A k \in DOMAIN clicks' : clicks'[k].at <= now,
         burst.count <= Cardinality(Hits(clicks', kind, burst.target, burst.since)),
         now - burst.since <= Window(kind), burst.since <= now,
         Raised(burst, Threshold(kind)), AutoCaptureAssumption
  PROVE  Cardinality(EarnedSet(clicks', [kind |-> kind, target |-> burst.target, at |-> now])) >= Threshold(kind)
<1> DEFINE b == [kind |-> kind, target |-> burst.target, at |-> now]
<1>1. Threshold(kind) \in Nat /\ Window(kind) \in Nat /\ burst.count \in Nat /\ burst.since \in Nat
  BY DEF Threshold, Window, AutoCaptureAssumption, Burst
<1>2. burst.count >= Threshold(kind)
  BY DEF Raised
<1>3. \A k \in DOMAIN clicks' : clicks'[k].at \in Nat
  <2>1. \A k \in DOMAIN clicks' : clicks'[k] \in ClickRecord
    OBVIOUS
  <2> QED
    BY <2>1 DEF ClickRecord
<1>4. EarnedSet(clicks', b) =
        {k \in DOMAIN clicks' :
           /\ clicks'[k].kind = kind
           /\ clicks'[k].target = burst.target
           /\ clicks'[k].at \in (now - Window(kind))..now}
  BY DEF EarnedSet, Window
<1>5. \A k \in DOMAIN clicks' : clicks'[k].at >= burst.since => clicks'[k].at \in (now - Window(kind))..now
  BY <1>1, <1>3
<1>6. Hits(clicks', kind, burst.target, burst.since) \subseteq EarnedSet(clicks', b)
  BY <1>4, <1>5 DEF Hits
<1>7. IsFiniteSet(DOMAIN clicks')
  <2>1. PICK n \in Nat : DOMAIN clicks' = 1..n
    OBVIOUS
  <2>2. IsFiniteSet(1..n)
    BY FS_Interval
  <2> QED
    BY <2>1, <2>2
<1>8. EarnedSet(clicks', b) \subseteq DOMAIN clicks'
  BY <1>4
<1>9. IsFiniteSet(EarnedSet(clicks', b))
  BY <1>7, <1>8, FS_Subset
<1>10. /\ Cardinality(Hits(clicks', kind, burst.target, burst.since)) <= Cardinality(EarnedSet(clicks', b))
       /\ IsFiniteSet(Hits(clicks', kind, burst.target, burst.since))
  BY <1>6, <1>9, FS_Subset
<1>11. Cardinality(Hits(clicks', kind, burst.target, burst.since)) \in Nat /\ Cardinality(EarnedSet(clicks', b)) \in Nat
  BY <1>9, <1>10, FS_CardinalityType
<1> HIDE DEF b
<1>12. Cardinality(EarnedSet(clicks', b)) >= Threshold(kind)
  BY <1>1, <1>2, <1>10, <1>11
<1> QED
  BY <1>12 DEF b

LEMMA EarnedIs ==
  BurstsAreEarned <=> \A i \in DOMAIN bursts : Cardinality(EarnedSet(clicks, bursts[i])) >= Threshold(bursts[i].kind)
  BY DEF BurstsAreEarned, EarnedSet

(* Clicks and reported bursts stay; the clock may advance.                 *)
LEMMA EarnedStays ==
  ASSUME BurstsAreEarned, clicks' = clicks, bursts' = bursts
  PROVE  BurstsAreEarned'
  BY DEF BurstsAreEarned, Window, Threshold

LEMMA CoversStays ==
  ASSUME clicks' = clicks, now' \in Nat, now \in Nat, now <= now',
         NEW burst \in Burst, NEW kind, Covers(burst, kind)
  PROVE  Covers(burst, kind)'
<1>1. Hits(clicks', kind, burst.target, burst.since) = Hits(clicks, kind, burst.target, burst.since)
  BY DEF Hits
<1>2. burst.since \in Nat
  BY DEF Burst
<1>3. burst.since <= now'
  BY <1>2 DEF Covers
<1> QED
  BY <1>1, <1>3 DEF Covers

LEMMA BurstInvStays ==
  ASSUME Types, BurstInv, clicks' = clicks, bursts' = bursts, rage' = rage, submits' = submits,
         now' \in Nat, now <= now'
  PROVE  BurstInv'
<1>1. now \in Nat /\ rage \in Burst /\ clicks \in Seq(ClickRecord)
      /\ \A f \in DOMAIN submits : submits[f] \in Burst
  BY DEF Types, TypeOK, HistoryOK
<1>2. BurstsAreEarned'
  BY EarnedStays DEF BurstInv
<1>3. Covers(rage, "click")'
  <2>1. \A b \in Burst : b = rage => Covers(b, "click")'
    BY <1>1, CoversStays DEF BurstInv
  <2> QED
    BY <1>1, <2>1
<1>4. ASSUME NEW f \in DOMAIN submits PROVE submits[f].target = f /\ Covers(submits[f], "submit")'
  <2>1. submits[f] \in Burst /\ submits[f].target = f /\ Covers(submits[f], "submit")
    BY <1>1 DEF BurstInv
  <2>2. \A b \in Burst : b = submits[f] => Covers(b, "submit")'
    BY <1>1, <2>1, CoversStays
  <2> QED
    BY <2>1, <2>2
<1>5. \A k \in DOMAIN clicks' : clicks'[k].at <= now'
  <2> TAKE k \in DOMAIN clicks'
  <2>1. clicks[k] \in ClickRecord /\ clicks[k].at <= now
    BY <1>1 DEF BurstInv
  <2>2. clicks[k].at \in Nat
    BY <2>1 DEF ClickRecord
  <2> QED
    BY <1>1, <2>1, <2>2
<1> QED
  BY <1>2, <1>3, <1>4, <1>5 DEF BurstInv

(* A burst that covers its count still does after one more click: with one *)
(* more in the count if the click was on its target.                       *)
LEMMA CoversGrows ==
  ASSUME clicks \in Seq(ClickRecord), now \in Nat, now' = now,
         NEW kind \in {"click", "submit"}, NEW t \in Target \cup Form, Logged(kind, t),
         NEW k, NEW burst \in Burst, Covers(burst, k)
  PROVE  /\ Covers(burst, k)'
         /\ k = kind /\ burst.target = t =>
              burst.count + 1 <= Cardinality(Hits(clicks', k, burst.target, burst.since))
<1>1. burst.since \in Nat /\ burst.count \in Nat /\ burst.since <= now
      /\ burst.count <= Cardinality(Hits(clicks, k, burst.target, burst.since))
  BY DEF Burst, Covers
<1>2. /\ Cardinality(Hits(clicks, k, burst.target, burst.since)) \in Nat
      /\ Cardinality(Hits(clicks', k, burst.target, burst.since)) =
           IF k = kind /\ burst.target = t THEN Cardinality(Hits(clicks, k, burst.target, burst.since)) + 1
           ELSE Cardinality(Hits(clicks, k, burst.target, burst.since))
  BY <1>1, HitsGrow
<1>3. burst.count <= Cardinality(Hits(clicks', k, burst.target, burst.since))
  BY <1>1, <1>2
<1>4. k = kind /\ burst.target = t =>
        burst.count + 1 <= Cardinality(Hits(clicks', k, burst.target, burst.since))
  BY <1>1, <1>2
<1> QED
  BY <1>1, <1>3, <1>4 DEF Covers

(* A new burst counts the click that opens it.                             *)
LEMMA NewBurstCovers ==
  ASSUME clicks \in Seq(ClickRecord), now \in Nat, now' = now,
         NEW kind \in {"click", "submit"}, NEW t \in Target \cup Form, Logged(kind, t)
  PROVE  1 <= Cardinality(Hits(clicks', kind, t, now))
<1>1. /\ Cardinality(Hits(clicks, kind, t, now)) \in Nat
      /\ Cardinality(Hits(clicks', kind, t, now)) = Cardinality(Hits(clicks, kind, t, now)) + 1
  BY HitsGrow
<1> QED
  BY <1>1

(* A click or a submit of t that leaves the burst counted: either it       *)
(* extends a burst on t inside the window, or it opens one.                *)
Counted(burst, kind, t) ==
  /\ burst \in Burst /\ burst.target = t
  /\ burst.since <= now /\ now - burst.since <= Window(kind)
  /\ burst.count <= Cardinality(Hits(clicks', kind, t, burst.since))

LEMMA ClickCounts ==
  ASSUME AutoCaptureAssumption, Types, BurstInv, NEW t \in Target, Click(t)
  PROVE  Counted(RageAfter(t), "click", t)
<1>1. now \in Nat /\ now' = now /\ rage \in Burst /\ clicks \in Seq(ClickRecord) /\ Logged("click", t)
  BY DEF Types, TypeOK, HistoryOK, Click
<1>2. rage.since \in Nat /\ Covers(rage, "click") /\ rageClickWindow \in Nat
  BY <1>1 DEF BurstInv, Burst, AutoCaptureAssumption
<1>3. /\ RageAfter(t) \in Burst /\ RageAfter(t).target = t
      /\ RageAfter(t).count = IF RageGoesOn(t) THEN rage.count + 1 ELSE 1
      /\ RageAfter(t).since = IF RageGoesOn(t) THEN rage.since ELSE now
  BY <1>1, RageAfterFacts
<1>4. CASE RageGoesOn(t)
  <2>1. rage.target = t /\ now - rage.since <= rageClickWindow
    BY <1>4 DEF RageGoesOn
  <2>2. rage.count + 1 <= Cardinality(Hits(clicks', "click", rage.target, rage.since))
    BY <1>1, <1>2, <2>1, CoversGrows
  <2> QED
    BY <1>2, <1>3, <1>4, <2>1, <2>2 DEF Counted, Covers, Window
<1>5. CASE ~RageGoesOn(t)
  BY <1>1, <1>2, <1>3, <1>5, NewBurstCovers DEF Counted, Window
<1> QED
  BY <1>4, <1>5

LEMMA SubmitCounts ==
  ASSUME AutoCaptureAssumption, Types, BurstInv, NEW f \in Form, SubmitForm(f)
  PROVE  Counted(SubmitsAfter(f), "submit", f)
<1>1. /\ now \in Nat /\ now' = now /\ \A x \in DOMAIN submits : submits[x] \in Burst
      /\ clicks \in Seq(ClickRecord) /\ Logged("submit", f)
  BY DEF Types, TypeOK, HistoryOK, SubmitForm
<1>2. /\ SubmitsAfter(f) \in Burst
      /\ SubmitsAfter(f).target = IF SubmitsGoOn(f) THEN submits[f].target ELSE f
      /\ SubmitsAfter(f).count = IF SubmitsGoOn(f) THEN submits[f].count + 1 ELSE 1
      /\ SubmitsAfter(f).since = IF SubmitsGoOn(f) THEN submits[f].since ELSE now
  BY <1>1, SubmitsAfterFacts
<1>3. repeatedSubmitWindow \in Nat
  BY DEF AutoCaptureAssumption
<1>4. CASE SubmitsGoOn(f)
  <2> DEFINE b == submits[f]
  <2>1. /\ b \in Burst /\ b.target = f /\ Covers(b, "submit")
        /\ now - b.since <= repeatedSubmitWindow
    BY <1>1, <1>4 DEF SubmitsGoOn, BurstInv
  <2> HIDE DEF b
  <2>2. b.count + 1 <= Cardinality(Hits(clicks', "submit", b.target, b.since))
    BY <1>1, <2>1, CoversGrows
  <2>3. /\ SubmitsAfter(f).target = b.target /\ SubmitsAfter(f).count = b.count + 1
        /\ SubmitsAfter(f).since = b.since
    BY <1>2, <1>4 DEF b
  <2> QED
    BY <1>2, <2>1, <2>2, <2>3 DEF Counted, Covers, Window
<1>5. CASE ~SubmitsGoOn(f)
  BY <1>1, <1>2, <1>3, <1>5, NewBurstCovers DEF Counted, Window
<1> QED
  BY <1>4, <1>5

(* The bursts reported stay earned, with the one that is reported now.     *)
LEMMA SettleKeepsEarned ==
  ASSUME AutoCaptureAssumption, Types, Types', BurstInv, now' = now,
         NEW kind \in {"click", "submit"}, NEW t \in Target \cup Form, Logged(kind, t),
         NEW burst, Counted(burst, kind, t), Settle(burst, kind, Threshold(kind))
  PROVE  /\ BurstsAreEarned'
         /\ \A k \in DOMAIN clicks' : clicks'[k].at <= now'
<1>1. now \in Nat /\ clicks \in Seq(ClickRecord) /\ clicks' \in Seq(ClickRecord) /\ bursts \in Seq(BurstRecord)
  BY DEF Types, TypeOK, HistoryOK
<1>2. \A k \in DOMAIN clicks' : clicks'[k].at <= now
  <2>1. /\ DOMAIN clicks' = DOMAIN clicks \cup {Len(clicks) + 1}
        /\ \A k \in DOMAIN clicks : clicks'[k] = clicks[k]
        /\ clicks'[Len(clicks) + 1] = [kind |-> kind, target |-> t, at |-> now]
    BY <1>1, ClicksGrow
  <2>2. \A k \in DOMAIN clicks : clicks[k].at <= now
    BY DEF BurstInv
  <2>3. clicks'[Len(clicks) + 1].at <= now
    BY <1>1, <2>1
  <2> QED
    BY <2>1, <2>2, <2>3
<1>3. \A b \in BurstRecord : Cardinality(EarnedSet(clicks, b)) >= Threshold(b.kind) =>
                             Cardinality(EarnedSet(clicks', b)) >= Threshold(b.kind)
  <2> TAKE b \in BurstRecord
  <2> HAVE Cardinality(EarnedSet(clicks, b)) >= Threshold(b.kind)
  <2>1. /\ Cardinality(EarnedSet(clicks, b)) <= Cardinality(EarnedSet(clicks', b))
        /\ Cardinality(EarnedSet(clicks, b)) \in Nat /\ Cardinality(EarnedSet(clicks', b)) \in Nat
    BY <1>1, StillEarned
  <2>2. Threshold(b.kind) \in Nat
    BY DEF Threshold, AutoCaptureAssumption
  <2> QED
    BY <2>1, <2>2
<1>4. \A i \in DOMAIN bursts : Cardinality(EarnedSet(clicks', bursts[i])) >= Threshold(bursts[i].kind)
  <2> TAKE i \in DOMAIN bursts
  <2>1. bursts[i] \in BurstRecord
    BY <1>1
  <2>2. Cardinality(EarnedSet(clicks, bursts[i])) >= Threshold(bursts[i].kind)
    BY EarnedIs DEF BurstInv
  <2> QED
    BY <1>3, <2>1, <2>2
<1>5. \A i \in DOMAIN bursts' : Cardinality(EarnedSet(clicks', bursts'[i])) >= Threshold(bursts'[i].kind)
  <2>1. CASE Raised(burst, Threshold(kind))
    <3> DEFINE b == [kind |-> kind, target |-> burst.target, at |-> now]
    <3>1. bursts' = Append(bursts, b)
      BY <2>1 DEF Settle
    <3>2. Cardinality(EarnedSet(clicks', b)) >= Threshold(kind)
      BY <1>1, <1>2, <2>1, RaisedIsEarned DEF Counted
    <3>3. b.kind = kind
      OBVIOUS
    <3> HIDE DEF b
    <3>4. /\ DOMAIN bursts' = DOMAIN bursts \cup {Len(bursts) + 1}
          /\ \A i \in DOMAIN bursts : bursts'[i] = bursts[i]
          /\ bursts'[Len(bursts) + 1] = b
      <4>1. DOMAIN bursts = 1..Len(bursts) /\ Len(bursts) \in Nat
        BY <1>1
      <4>2. /\ DOMAIN bursts' = 1..(Len(bursts) + 1)
            /\ \A i \in 1..Len(bursts) : bursts'[i] = bursts[i]
            /\ bursts'[Len(bursts) + 1] = b
        BY <1>1, <3>1, <4>1
      <4> QED
        BY <4>1, <4>2
    <3> QED
      BY <1>4, <3>2, <3>3, <3>4
  <2>2. CASE ~Raised(burst, Threshold(kind))
    BY <1>4, <2>2 DEF Settle
  <2> QED
    BY <2>1, <2>2
<1>6. BurstsAreEarned'
  BY <1>5 DEF BurstsAreEarned, EarnedSet, Window, Threshold
<1> QED
  BY <1>2, <1>6

LEMMA ClickKeepsBursts ==
  ASSUME AutoCaptureAssumption, Types, Types', BurstInv, NEW t \in Target, Click(t)
  PROVE  BurstInv'
<1>1. /\ now \in Nat /\ now' = now /\ clicks \in Seq(ClickRecord) /\ Logged("click", t)
      /\ \A f \in DOMAIN submits : submits[f] \in Burst
      /\ submits' = submits /\ rageClickThreshold \in Nat
  BY DEF Types, TypeOK, HistoryOK, Click, AutoCaptureAssumption
<1>2. Counted(RageAfter(t), "click", t)
  BY ClickCounts
<1>3. BurstsAreEarned' /\ \A k \in DOMAIN clicks' : clicks'[k].at <= now'
  <2>1. Settle(RageAfter(t), "click", Threshold("click"))
    BY DEF Click, Threshold
  <2> QED
    BY <1>1, <1>2, <2>1, SettleKeepsEarned
<1>4. Covers(rage, "click")'
  <2>1. /\ rage'.target = RageAfter(t).target /\ rage'.count = RageAfter(t).count
        /\ rage'.since = RageAfter(t).since
    BY <1>1, <1>2, MarkedBurst DEF Click, Counted
  <2> QED
    BY <1>1, <1>2, <2>1 DEF Counted, Covers
<1>5. ASSUME NEW f \in DOMAIN submits PROVE submits[f].target = f /\ Covers(submits[f], "submit")'
  <2>1. PICK b \in Burst : b = submits[f]
    BY <1>1
  <2>2. b.target = f /\ Covers(b, "submit")
    BY <2>1 DEF BurstInv
  <2>3. Covers(b, "submit")'
    BY <1>1, <2>2, CoversGrows
  <2> QED
    BY <1>1, <2>1, <2>2, <2>3 DEF Covers
<1>6. \A f \in DOMAIN submits' : submits'[f].target = f /\ Covers(submits[f], "submit")'
  BY <1>1, <1>5
<1> QED
  BY <1>3, <1>4, <1>6 DEF BurstInv

LEMMA SubmitKeepsBursts ==
  ASSUME AutoCaptureAssumption, Types, Types', BurstInv, NEW f \in Form, SubmitForm(f)
  PROVE  BurstInv'
<1>1. /\ now \in Nat /\ now' = now /\ clicks \in Seq(ClickRecord) /\ Logged("submit", f)
      /\ \A x \in DOMAIN submits : submits[x] \in Burst
      /\ rage \in Burst /\ rage' = rage /\ repeatedSubmitThreshold \in Nat
  BY DEF Types, TypeOK, HistoryOK, SubmitForm, AutoCaptureAssumption
<1>2. Counted(SubmitsAfter(f), "submit", f)
  BY SubmitCounts
<1>3. BurstsAreEarned' /\ \A k \in DOMAIN clicks' : clicks'[k].at <= now'
  <2>1. Settle(SubmitsAfter(f), "submit", Threshold("submit"))
    BY DEF SubmitForm, Threshold
  <2> QED
    BY <1>1, <1>2, <2>1, SettleKeepsEarned
<1>4. Covers(rage, "click")'
  <2>1. Covers(rage, "click")
    BY DEF BurstInv
  <2>2. \A b \in Burst : b = rage => Covers(b, "click")'
    BY <1>1, <2>1, CoversGrows
  <2>3. PICK b \in Burst : b = rage
    BY <1>1
  <2> QED
    BY <1>1, <2>2, <2>3 DEF Covers
<1>5. /\ DOMAIN submits' = DOMAIN submits \cup {f}
      /\ submits'[f] = SubmitBurst(f)
      /\ \A x \in DOMAIN submits : x # f => submits'[x] = submits[x]
  BY DEF SubmitForm, SubmitBurst
<1>6. submits'[f].target = f /\ Covers(submits[f], "submit")'
  <2>1. /\ submits'[f].target = SubmitsAfter(f).target /\ submits'[f].count = SubmitsAfter(f).count
        /\ submits'[f].since = SubmitsAfter(f).since
    BY <1>1, <1>2, <1>5, MarkedBurst DEF SubmitBurst, Counted
  <2> QED
    BY <1>1, <1>2, <2>1 DEF Counted, Covers
<1>7. ASSUME NEW x \in DOMAIN submits, x # f
      PROVE  submits'[x].target = x /\ Covers(submits[x], "submit")'
  <2>1. PICK b \in Burst : b = submits[x]
    BY <1>1
  <2>2. b.target = x /\ Covers(b, "submit")
    BY <2>1 DEF BurstInv
  <2>3. Covers(b, "submit")'
    BY <1>1, <2>2, CoversGrows
  <2> QED
    BY <1>5, <1>7, <2>1, <2>2, <2>3 DEF Covers
<1>8. \A x \in DOMAIN submits' : submits'[x].target = x /\ Covers(submits[x], "submit")'
  BY <1>5, <1>6, <1>7
<1> QED
  BY <1>3, <1>4, <1>8 DEF BurstInv

LEMMA ShutdownKeepsBursts ==
  ASSUME Types, BurstInv, Shutdown
  PROVE  BurstInv'
<1>1. /\ now \in Nat /\ now' = now /\ clicks' = clicks /\ bursts' = bursts
      /\ rage' = [target |-> "none", count |-> 0, since |-> 0, emitted |-> FALSE]
      /\ DOMAIN submits' = {} /\ clicks \in Seq(ClickRecord)
  BY DEF Types, TypeOK, HistoryOK, Shutdown, history
<1>2. BurstsAreEarned'
  BY <1>1, EarnedStays DEF BurstInv
<1>3. Covers(rage, "click")'
  <2>1. Hits(clicks', "click", "none", 0) \subseteq DOMAIN clicks
    BY <1>1 DEF Hits
  <2>2. Cardinality(Hits(clicks', "click", "none", 0)) \in Nat
    BY <1>1, <2>1, FiniteHits
  <2> QED
    BY <1>1, <2>2 DEF Covers
<1>4. \A k \in DOMAIN clicks' : clicks'[k].at <= now'
  BY <1>1 DEF BurstInv
<1> QED
  BY <1>1, <1>2, <1>3, <1>4 DEF BurstInv

LEMMA BurstInvNext ==
  ASSUME AutoCaptureAssumption, Types, Types', BurstInv, [Next]_vars
  PROVE  BurstInv'
<1>1. now \in Nat /\ now' \in Nat /\ now <= now
  BY DEF Types, TypeOK
<1>2. ASSUME NEW t \in Target, Click(t) PROVE BurstInv'
  BY <1>2, ClickKeepsBursts
<1>3. ASSUME NEW f \in Form, SubmitForm(f) PROVE BurstInv'
  BY <1>3, SubmitKeepsBursts
<1>4. CASE Shutdown
  BY <1>4, ShutdownKeepsBursts
<1>5. CASE \/ AppCaptures \/ ReportProblem \/ SessionEnds \/ SessionRestarts \/ Occurrence
           \/ UNCHANGED vars
  <2>1. now' = now /\ clicks' = clicks /\ bursts' = bursts /\ rage' = rage /\ submits' = submits
    BY <1>5 DEF AppCaptures, ReportProblem, SessionEnds, SessionRestarts, Occurrence, vars, page, history
  <2> QED
    BY <1>1, <2>1, BurstInvStays
<1>6. CASE DeadTimerFires \/ DomMutates \/ Navigate \/ RequestSent \/ RequestSettles
  <2>1. now' = now /\ clicks' = clicks /\ bursts' = bursts /\ rage' = rage /\ submits' = submits
    BY <1>6 DEF DeadTimerFires, DomMutates, Navigate, RequestSent, RequestSettles, history
  <2> QED
    BY <1>1, <2>1, BurstInvStays
<1>7. CASE Tick
  <2>1. now <= now' /\ clicks' = clicks /\ bursts' = bursts /\ rage' = rage /\ submits' = submits
    BY <1>1, <1>7 DEF Tick, page, history
  <2> QED
    BY <1>1, <2>1, BurstInvStays
<1> QED
  BY <1>2, <1>3, <1>4, <1>5, <1>6, <1>7 DEF Next

-----------------------------------------------------------------------------
(* Dead clicks.  While auto-capture is installed the last dead click on a  *)
(* target is in flagged; an armed click on it comes a window later, or was *)
(* armed before that dead click was reported.                              *)

Spaced(click, at, d) == click <= d.seen \/ at >= d.at + deadClickWindow

SpacingInv ==
  /\ \A i \in DOMAIN deads :
       /\ deads[i].click \in DOMAIN clicks
       /\ c.installed =>
            deads[i].target \in DOMAIN flagged /\ deads[i].at <= flagged[deads[i].target]
  /\ ~c.installed => pending = <<>>
  /\ \A q \in DOMAIN pending :
       /\ pending[q].click \in DOMAIN clicks
       /\ clicks[pending[q].click].at = pending[q].at
       /\ \A i \in DOMAIN deads :
            deads[i].target = pending[q].target => Spaced(pending[q].click, pending[q].at, deads[i])
  /\ \A t \in DOMAIN flagged : flagged[t] <= now
  /\ DeadClicksAreSpaced

SamePending(a, b) == a.target = b.target /\ a.click = b.click /\ a.at = b.at

ClicksKept ==
  /\ DOMAIN clicks \subseteq DOMAIN clicks'
  /\ \A k \in DOMAIN clicks : clicks'[k] = clicks[k]

LEMMA TimesAreNat ==
  ASSUME Types
  PROVE  /\ \A i \in DOMAIN deads : deads[i].at \in Nat
         /\ \A t \in DOMAIN flagged : flagged[t] \in Nat
         /\ now \in Nat
<1>1. \A i \in DOMAIN deads : deads[i] \in DeadRecord
  BY DEF Types, HistoryOK
<1> QED
  BY <1>1 DEF Types, TypeOK, HistoryOK, DeadRecord

(* Nothing is reported and nothing is armed.                               *)
LEMMA SpacingStays ==
  ASSUME Types, SpacingInv, ClicksKept, deads' = deads, flagged' = flagged,
         c'.installed = c.installed, now' \in Nat, now <= now',
         \A q \in DOMAIN pending' : \E p \in DOMAIN pending : SamePending(pending'[q], pending[p]),
         pending = <<>> => pending' = <<>>
  PROVE  SpacingInv'
<1>1. \A i \in DOMAIN deads' :
        /\ deads'[i].click \in DOMAIN clicks'
        /\ c'.installed =>
             deads'[i].target \in DOMAIN flagged' /\ deads'[i].at <= flagged'[deads'[i].target]
  BY DEF SpacingInv, ClicksKept
<1>2. ASSUME NEW q \in DOMAIN pending'
      PROVE  /\ pending'[q].click \in DOMAIN clicks'
             /\ clicks'[pending'[q].click].at = pending'[q].at
             /\ \A i \in DOMAIN deads' :
                  deads'[i].target = pending'[q].target =>
                    Spaced(pending'[q].click, pending'[q].at, deads'[i])
  <2>1. PICK p \in DOMAIN pending : SamePending(pending'[q], pending[p])
    OBVIOUS
  <2>2. /\ pending[p].click \in DOMAIN clicks
        /\ clicks[pending[p].click].at = pending[p].at
        /\ \A i \in DOMAIN deads :
             deads[i].target = pending[p].target => Spaced(pending[p].click, pending[p].at, deads[i])
    BY DEF SpacingInv
  <2> QED
    BY <2>1, <2>2 DEF SamePending, ClicksKept
<1>3. \A t \in DOMAIN flagged' : flagged'[t] <= now'
  <2> TAKE t \in DOMAIN flagged'
  <2>1. flagged[t] \in Nat /\ flagged[t] <= now /\ now \in Nat
    BY DEF SpacingInv, Types, TypeOK, HistoryOK
  <2> QED
    BY <2>1
<1>4. DeadClicksAreSpaced'
  <2>1. \A i \in DOMAIN deads : deads[i].click \in DOMAIN clicks
    BY DEF SpacingInv
  <2> QED
    BY <2>1 DEF SpacingInv, DeadClicksAreSpaced, ClicksKept
<1>5. ~c'.installed => pending' = <<>>
  BY DEF SpacingInv
<1> QED
  BY <1>1, <1>2, <1>3, <1>4, <1>5 DEF SpacingInv, Spaced

LEMMA EmitKeepsInstalled ==
  ASSUME c \in Client, GatedEmit \/ NoEmit
  PROVE  c'.installed = c.installed
<1>1. CASE NoEmit \/ CeilingReached(c)
  BY <1>1 DEF NoEmit, GatedEmit
<1>2. CASE GatedEmit /\ ~CeilingReached(c)
  BY <1>2 DEF GatedEmit, Capture, Rolled, Client
<1> QED
  BY <1>1, <1>2

LEMMA ClickKeepsSpacing ==
  ASSUME AutoCaptureAssumption, Types, SpacingInv, NEW t \in Target, Click(t)
  PROVE  SpacingInv'
<1>1. /\ now \in Nat /\ now' = now /\ clicks \in Seq(ClickRecord) /\ Logged("click", t)
      /\ c.installed /\ deads' = deads /\ flagged' = flagged
      /\ pending \in Seq(PendingClick) /\ deadClickWindow \in Nat
      /\ \A x \in DOMAIN flagged : flagged[x] \in Nat
      /\ deads \in Seq(DeadRecord)
  BY DEF Types, TypeOK, HistoryOK, Click, AutoCaptureAssumption
<1>2. c'.installed
  BY <1>1, EmitKeepsInstalled DEF Click, Settle, Types, TypeOK
<1>3. ClicksKept /\ Len(clicks) + 1 \in DOMAIN clicks' /\ clicks'[Len(clicks) + 1].at = now
  <2>1. /\ DOMAIN clicks' = DOMAIN clicks \cup {Len(clicks) + 1}
        /\ \A k \in DOMAIN clicks : clicks'[k] = clicks[k]
        /\ clicks'[Len(clicks) + 1] = [kind |-> "click", target |-> t, at |-> now]
    BY <1>1, ClicksGrow
  <2> QED
    BY <2>1 DEF ClicksKept
<1>4. CASE pending' = pending
  <2>1. \A q \in DOMAIN pending' : \E p \in DOMAIN pending : SamePending(pending'[q], pending[p])
    BY <1>4 DEF SamePending
  <2>2. now <= now'
    BY <1>1
  <2> QED
    BY <1>1, <1>2, <1>3, <1>4, <2>1, <2>2, SpacingStays
<1>5. CASE Armed(t) /\ pending' = Append(pending, NewPending(t))
  <2>1. ASSUME NEW i \in DOMAIN deads, deads[i].target = t
        PROVE  now >= deads[i].at + deadClickWindow
    <3>1. t \in DOMAIN flagged /\ deads[i].at <= flagged[t]
      BY <1>1, <2>1 DEF SpacingInv
    <3>2. ~(now - flagged[t] < deadClickWindow)
      BY <1>5, <3>1 DEF Armed, AlreadyFlagged
    <3>3. deads[i].at \in Nat /\ flagged[t] \in Nat
      BY <3>1, TimesAreNat
    <3> QED
      BY <1>1, <3>1, <3>2, <3>3
  <2> DEFINE e == NewPending(t)
  <2>2. e.target = t /\ e.at = now /\ e.click = Len(clicks) + 1
    BY DEF NewPending
  <2>3. /\ DOMAIN pending' = DOMAIN pending \cup {Len(pending) + 1}
        /\ \A q \in DOMAIN pending : pending'[q] = pending[q]
        /\ pending'[Len(pending) + 1] = e
    <3> HIDE DEF e
    <3>1. DOMAIN pending = 1..Len(pending) /\ Len(pending) \in Nat
      BY <1>1
    <3>2. pending' = Append(pending, e)
      BY <1>5 DEF e
    <3>3. /\ DOMAIN pending' = 1..(Len(pending) + 1)
          /\ \A q \in 1..Len(pending) : pending'[q] = pending[q]
          /\ pending'[Len(pending) + 1] = e
      BY <1>1, <3>1, <3>2
    <3> QED
      BY <3>1, <3>3
  <2> HIDE DEF e
  <2>4. ASSUME NEW q \in DOMAIN pending'
        PROVE  /\ pending'[q].click \in DOMAIN clicks'
               /\ clicks'[pending'[q].click].at = pending'[q].at
               /\ \A i \in DOMAIN deads :
                    deads[i].target = pending'[q].target =>
                      Spaced(pending'[q].click, pending'[q].at, deads[i])
    <3>1. CASE q \in DOMAIN pending
      BY <1>3, <2>3, <3>1 DEF SpacingInv, ClicksKept
    <3>2. CASE q = Len(pending) + 1
      BY <1>3, <2>1, <2>2, <2>3, <3>2 DEF Spaced
    <3> QED
      BY <2>3, <3>1, <3>2
  <2>5. \A i \in DOMAIN deads' :
          /\ deads'[i].click \in DOMAIN clicks'
          /\ deads'[i].target \in DOMAIN flagged' /\ deads'[i].at <= flagged'[deads'[i].target]
    BY <1>1, <1>3 DEF SpacingInv, ClicksKept
  <2>6. DeadClicksAreSpaced'
    <3>1. \A i \in DOMAIN deads : deads[i].click \in DOMAIN clicks
      BY DEF SpacingInv
    <3>2. DeadClicksAreSpaced
      BY DEF SpacingInv
    <3> QED
      BY <1>1, <1>3, <3>1, <3>2 DEF DeadClicksAreSpaced, ClicksKept
  <2>7. \A x \in DOMAIN flagged' : flagged'[x] <= now'
    BY <1>1 DEF SpacingInv
  <2> QED
    BY <1>1, <1>2, <2>4, <2>5, <2>6, <2>7 DEF SpacingInv, Spaced
<1> QED
  BY <1>4, <1>5 DEF Click

LEMMA DeadTimerKeepsSpacing ==
  ASSUME AutoCaptureAssumption, Types, SpacingInv, DeadTimerFires
  PROVE  SpacingInv'
<1> DEFINE p == Head(pending)
<1>1. /\ now \in Nat /\ now' = now /\ clicks' = clicks /\ clicks \in Seq(ClickRecord)
      /\ pending \in Seq(PendingClick) /\ pending # <<>> /\ pending' = Tail(pending)
      /\ deads \in Seq(DeadRecord)
      /\ \A x \in DOMAIN flagged : flagged[x] \in Nat
  BY DEF Types, TypeOK, HistoryOK, DeadTimerFires
<1>2. c'.installed = c.installed /\ c.installed
  BY <1>1, EmitKeepsInstalled DEF DeadTimerFires, Types, TypeOK, SpacingInv
<1>3. ClicksKept /\ now <= now'
  BY <1>1 DEF ClicksKept
<1>4. p = pending[1] /\ 1 \in DOMAIN pending /\ p \in PendingClick
  BY <1>1
<1>5. \A q \in DOMAIN pending' : q + 1 \in DOMAIN pending /\ pending'[q] = pending[q + 1]
  BY <1>1
<1>6. \A q \in DOMAIN pending' : \E r \in DOMAIN pending : SamePending(pending'[q], pending[r])
  BY <1>5 DEF SamePending
<1> HIDE DEF p
<1>7. CASE ~IsDead(p)
  <2>1. deads' = deads /\ flagged' = flagged
    BY <1>7 DEF DeadTimerFires, p
  <2> QED
    BY <1>1, <1>2, <1>3, <1>6, <2>1, SpacingStays
<1>8. CASE IsDead(p)
  <2> DEFINE d == [target |-> p.target, click |-> p.click, at |-> now, seen |-> Len(clicks)]
             n == Len(deads) + 1
  <2>1. deads' = Append(deads, d) /\ flagged' = FlaggedNow(p.target)
    BY <1>8 DEF DeadTimerFires, p
  <2>2. d.target = p.target /\ d.click = p.click /\ d.at = now /\ d.seen = Len(clicks)
    OBVIOUS
  <2> HIDE DEF d
  <2>3. /\ DOMAIN deads' = DOMAIN deads \cup {n} /\ n \notin DOMAIN deads
        /\ \A i \in DOMAIN deads : deads'[i] = deads[i] /\ i < n /\ i \in Nat
        /\ deads'[n] = d /\ n \in Nat
    <3>1. DOMAIN deads = 1..Len(deads) /\ Len(deads) \in Nat
      BY <1>1
    <3>2. /\ DOMAIN deads' = 1..n
          /\ \A i \in 1..Len(deads) : deads'[i] = deads[i]
          /\ deads'[n] = d
      BY <1>1, <2>1, <3>1
    <3> QED
      BY <3>1, <3>2
  <2> HIDE DEF n
  <2>4. /\ p.click \in DOMAIN clicks /\ clicks[p.click].at = p.at
        /\ \A i \in DOMAIN deads : deads[i].target = p.target => Spaced(p.click, p.at, deads[i])
    BY <1>4 DEF SpacingInv
  <2>5. /\ DOMAIN flagged' = DOMAIN flagged \cup {p.target}
        /\ flagged'[p.target] = now
        /\ \A x \in DOMAIN flagged : x # p.target => flagged'[x] = flagged[x]
        /\ \A x \in DOMAIN flagged : flagged[x] <= now
    BY <2>1 DEF FlaggedNow, SpacingInv
  <2>6. \A x \in DOMAIN flagged' : flagged'[x] <= now'
    BY <1>1, <2>5
  <2>7. ASSUME NEW i \in DOMAIN deads'
        PROVE  /\ deads'[i].click \in DOMAIN clicks'
               /\ deads'[i].target \in DOMAIN flagged' /\ deads'[i].at <= flagged'[deads'[i].target]
    <3>1. CASE i = n
      BY <1>1, <2>2, <2>3, <2>4, <2>5, <3>1
    <3>2. CASE i \in DOMAIN deads
      <4>1. /\ deads[i].click \in DOMAIN clicks /\ deads[i].target \in DOMAIN flagged
            /\ deads[i].at <= flagged[deads[i].target] /\ deads'[i] = deads[i]
        BY <1>2, <2>3, <3>2 DEF SpacingInv
      <4>2. deads[i].at \in Nat /\ flagged[deads[i].target] \in Nat /\ flagged[deads[i].target] <= now
        BY <2>5, <3>2, <4>1, TimesAreNat
      <4>3. deads[i].at <= flagged'[deads[i].target]
        <5>1. CASE deads[i].target = p.target
          BY <1>1, <2>5, <4>1, <4>2, <5>1
        <5>2. CASE deads[i].target # p.target
          BY <2>5, <4>1, <5>2
        <5> QED
          BY <5>1, <5>2
      <4> QED
        BY <1>1, <2>5, <4>1, <4>3
    <3> QED
      BY <2>3, <3>1, <3>2
  <2>8. ASSUME NEW q \in DOMAIN pending'
        PROVE  /\ pending'[q].click \in DOMAIN clicks'
               /\ clicks'[pending'[q].click].at = pending'[q].at
               /\ \A i \in DOMAIN deads' :
                    deads'[i].target = pending'[q].target =>
                      Spaced(pending'[q].click, pending'[q].at, deads'[i])
    <3>1. PICK r \in DOMAIN pending : SamePending(pending'[q], pending[r])
      BY <1>6
    <3>2. /\ pending[r].click \in DOMAIN clicks /\ clicks[pending[r].click].at = pending[r].at
          /\ \A i \in DOMAIN deads :
               deads[i].target = pending[r].target => Spaced(pending[r].click, pending[r].at, deads[i])
      BY DEF SpacingInv
    <3>3. pending[r].click <= Len(clicks)
      BY <1>1, <3>2
    <3>4. Spaced(pending[r].click, pending[r].at, d)
      BY <2>2, <3>3 DEF Spaced
    <3> QED
      BY <1>1, <2>3, <3>1, <3>2, <3>4 DEF SamePending
  <2>9. DeadClicksAreSpaced'
    <3>1. ASSUME NEW i \in DOMAIN deads', NEW j \in DOMAIN deads',
                 i < j, deads'[i].target = deads'[j].target
          PROVE  \/ deads'[j].click <= deads'[i].seen
                 \/ clicks'[deads'[j].click].at >= deads'[i].at + deadClickWindow
      <4>1. CASE j = n
        <5>1. i \in DOMAIN deads
          BY <2>3, <3>1, <4>1
        <5> QED
          BY <1>1, <2>2, <2>3, <2>4, <3>1, <4>1, <5>1 DEF Spaced
      <4>2. CASE j # n
        <5>1. j \in DOMAIN deads /\ i \in DOMAIN deads
          BY <2>3, <3>1, <4>2
        <5> QED
          BY <1>1, <2>3, <3>1, <5>1 DEF SpacingInv, DeadClicksAreSpaced
      <4> QED
        BY <4>1, <4>2
    <3> QED
      BY <3>1 DEF DeadClicksAreSpaced
  <2> QED
    BY <1>1, <1>2, <2>6, <2>7, <2>8, <2>9 DEF SpacingInv, Spaced
<1> QED
  BY <1>7, <1>8

LEMMA ShutdownKeepsSpacing ==
  ASSUME Types, SpacingInv, Shutdown
  PROVE  SpacingInv'
<1>1. /\ deads' = deads /\ clicks' = clicks /\ now' = now /\ c' = [c EXCEPT !.installed = FALSE]
      /\ DOMAIN pending' = {} /\ pending' = <<>> /\ DOMAIN flagged' = {} /\ c \in Client
  BY DEF Shutdown, history, Types, TypeOK
<1>2. c'.installed = FALSE
  BY <1>1 DEF Client
<1>3. DeadClicksAreSpaced'
  BY <1>1 DEF SpacingInv, DeadClicksAreSpaced
<1> QED
  BY <1>1, <1>2, <1>3 DEF SpacingInv

LEMMA SpacingInvNext ==
  ASSUME AutoCaptureAssumption, Types, Types', SpacingInv, [Next]_vars
  PROVE  SpacingInv'
<1>1. /\ now \in Nat /\ now' \in Nat /\ now <= now /\ c \in Client
      /\ clicks \in Seq(ClickRecord) /\ pending \in Seq(PendingClick)
  BY DEF Types, TypeOK, HistoryOK
<1>2. \A q \in DOMAIN pending : \E p \in DOMAIN pending : SamePending(pending[q], pending[p])
  BY DEF SamePending
<1>3. ASSUME NEW t \in Target, Click(t) PROVE SpacingInv'
  BY <1>3, ClickKeepsSpacing
<1>4. ASSUME NEW f \in Form, SubmitForm(f) PROVE SpacingInv'
  <2>1. /\ now' = now /\ deads' = deads /\ flagged' = flagged /\ pending' = pending
        /\ Logged("submit", f) /\ (GatedEmit \/ NoEmit)
    BY <1>4 DEF SubmitForm, Settle
  <2>2. ClicksKept
    <3>1. /\ DOMAIN clicks' = DOMAIN clicks \cup {Len(clicks) + 1}
          /\ \A k \in DOMAIN clicks : clicks'[k] = clicks[k]
      BY <1>1, <2>1, ClicksGrow
    <3> QED
      BY <3>1 DEF ClicksKept
  <2>3. c'.installed = c.installed
    BY <1>1, <2>1, EmitKeepsInstalled
  <2> QED
    BY <1>1, <1>2, <2>1, <2>2, <2>3, SpacingStays
<1>5. CASE DeadTimerFires
  BY <1>5, DeadTimerKeepsSpacing
<1>6. CASE Shutdown
  BY <1>6, ShutdownKeepsSpacing
<1>7. CASE DomMutates
  <2>1. now' = now /\ deads' = deads /\ flagged' = flagged /\ clicks' = clicks /\ c' = c
    BY <1>7 DEF DomMutates, history
  <2>2. /\ pending' \in Seq(PendingClick) /\ Len(pending') = Len(pending)
        /\ \A i \in DOMAIN pending : pending'[i] = [pending[i] EXCEPT !.mutated = TRUE]
    BY <1>1, <1>7, MutatesTypes
  <2>3. \A q \in DOMAIN pending' : \E p \in DOMAIN pending : SamePending(pending'[q], pending[p])
    <3> TAKE q \in DOMAIN pending'
    <3>1. q \in DOMAIN pending /\ pending[q] \in PendingClick
      BY <1>1, <2>2
    <3>2. SamePending(pending'[q], pending[q])
      BY <2>2, <3>1 DEF SamePending, PendingClick
    <3> QED
      BY <3>1, <3>2
  <2>4. ClicksKept
    BY <2>1 DEF ClicksKept
  <2>5. pending = <<>> => pending' = <<>>
    BY <1>1, <2>2
  <2> QED
    BY <1>1, <2>1, <2>3, <2>4, <2>5, SpacingStays
<1>8. ASSUME now <= now', deads' = deads, flagged' = flagged, clicks' = clicks, pending' = pending,
             c'.installed = c.installed
      PROVE  SpacingInv'
  <2>1. ClicksKept
    BY <1>8 DEF ClicksKept
  <2> QED
    BY <1>1, <1>2, <1>8, <2>1, SpacingStays
<1>9. CASE AppCaptures \/ ReportProblem
  <2>1. c'.installed = c.installed
    BY <1>1, <1>9 DEF AppCaptures, ReportProblem, Capture, Rolled, Client
  <2> QED
    BY <1>1, <1>8, <1>9, <2>1 DEF AppCaptures, ReportProblem, page, history
<1>10. CASE SessionEnds \/ SessionRestarts
  <2>1. c'.installed = c.installed
    BY <1>1, <1>10 DEF SessionEnds, SessionRestarts, Client
  <2> QED
    BY <1>1, <1>8, <1>10, <2>1 DEF SessionEnds, SessionRestarts, page, history
<1>11. CASE Occurrence \/ RequestSettles
  <2>1. c'.installed = c.installed
    BY <1>1, <1>11, EmitKeepsInstalled DEF Occurrence, RequestSettles
  <2> QED
    BY <1>1, <1>8, <1>11, <2>1 DEF Occurrence, RequestSettles, page, history
<1>12. CASE Navigate \/ RequestSent \/ UNCHANGED vars
  BY <1>1, <1>8, <1>12 DEF Navigate, RequestSent, vars, page, history
<1>13. CASE Tick
  <2>1. now <= now'
    BY <1>1, <1>13 DEF Tick
  <2> QED
    BY <1>8, <1>13, <2>1 DEF Tick, page, history
<1> QED
  BY <1>3, <1>4, <1>5, <1>6, <1>7, <1>9, <1>10, <1>11, <1>12, <1>13 DEF Next

-----------------------------------------------------------------------------
IInv == Types /\ ClientInv /\ BurstInv /\ SpacingInv

LEMMA InitIInv ==
  ASSUME AutoCaptureAssumption, Init
  PROVE  IInv
<1>1. /\ clicks = <<>> /\ bursts = <<>> /\ deads = <<>> /\ log = <<>> /\ pending = <<>>
      /\ submits = <<>> /\ flagged = <<>> /\ now = 0
      /\ DOMAIN <<>> = {} /\ Len(<<>>) = 0
  BY DEF Init
<1>2. c \in Client
  BY DEF Init, Client, NoSession, AutoCaptureAssumption
<1>3. rage \in Burst
  BY DEF Init, Burst
<1>4. Types
  BY <1>1, <1>2, <1>3 DEF Init, Types, TypeOK, HistoryOK, AutoCaptureAssumption
<1>5. \A s : AutoIn(s) = {} /\ Cardinality(AutoIn(s)) = 0
  <2>1. \A s : AutoIn(s) = {}
    BY <1>1 DEF AutoIn, InSession
  <2> QED
    BY <2>1, FS_EmptySet
<1>6. CeilingPerSession /\ BudgetInv
  <2>1. maxEventsPerSession \in Nat
    BY DEF AutoCaptureAssumption
  <2>2. /\ c.session = NoSession /\ c.lastSeenSessionId = 0 /\ c.started = 0 /\ c.emittedCount = 0
    BY DEF Init, NoSession
  <2> QED
    BY <1>1, <1>5, <2>1, <2>2 DEF CeilingPerSession, BudgetInv, Bonus
<1>7. RecentInv /\ TrailIsRecent
  <2>1. NonReports(0) = {} /\ c.recent = <<>> /\ Range(<<>>) = {}
    BY <1>1 DEF NonReports, Init, Range
  <2> QED
    BY <1>1, <2>1 DEF RecentInv, TrailIsRecent, IsRecent, AutoCaptureAssumption
<1>8. BurstInv
  <2>1. Hits(clicks, "click", rage.target, rage.since) = {}
    BY <1>1 DEF Hits
  <2>2. rage.since = 0 /\ rage.count = 0
    BY DEF Init
  <2>3. Covers(rage, "click")
    <3>1. Cardinality({}) = 0
      BY FS_EmptySet
    <3> QED
      <4>1. Cardinality(Hits(clicks, "click", rage.target, rage.since)) = 0
        BY <2>1, <3>1
      <4>2. rage.since <= now /\ rage.count <= 0
        BY <1>1, <2>2
      <4>3. rage.count <= Cardinality(Hits(clicks, "click", rage.target, rage.since))
        BY <4>1, <4>2
      <4> QED
        BY <4>2, <4>3 DEF Covers
  <2> QED
    BY <1>1, <2>3 DEF BurstInv, BurstsAreEarned
<1>9. SpacingInv
  BY <1>1 DEF SpacingInv, DeadClicksAreSpaced
<1> QED
  BY <1>1, <1>2, <1>4, <1>6, <1>7, <1>8, <1>9 DEF IInv, ClientInv, Types, TypeOK

LEMMA NextIInv ==
  ASSUME AutoCaptureAssumption, IInv, [Next]_vars
  PROVE  IInv'
<1>1. ClientInv'
  BY ClientSteps, ClientInvNext DEF IInv, Types, TypeOK
<1>2. Types'
  BY <1>1, TypesNext DEF IInv, ClientInv
<1>3. BurstInv'
  BY <1>2, BurstInvNext DEF IInv
<1>4. SpacingInv'
  BY <1>2, SpacingInvNext DEF IInv
<1> QED
  BY <1>1, <1>2, <1>3, <1>4 DEF IInv

(* The inductive invariant holds of every reachable state.                 *)
THEOREM InductiveInvariant == Spec => []IInv
<1>1. Init => IInv
  BY AutoCaptureAssumption, InitIInv
<1>2. IInv /\ [Next]_vars => IInv'
  BY AutoCaptureAssumption, NextIInv
<1> QED
  BY <1>1, <1>2, PTL DEF Spec

(* Every variable has its type: sessions, clock and requests within their   *)
(* bounds, every armed click, burst and log entry well formed.             *)
THEOREM TypeCorrect == Spec => []TypeOK
<1>1. IInv => TypeOK
  BY DEF IInv, Types
<1> QED
  BY <1>1, InductiveInvariant, PTL

(* A session gets no more auto-captured events than the ceiling, plus the   *)
(* one that started it, through rollovers, restarts and late answers of     *)
(* requests after the client was shut down (gatedEmit, capture).            *)
THEOREM CeilingPerSessionAlways == Spec => []CeilingPerSession
<1>1. IInv => CeilingPerSession
  BY DEF IInv, ClientInv
<1> QED
  BY <1>1, InductiveInvariant, PTL

(* A problem report carries the latest events captured before it, in order  *)
(* and across sessions, and never a report (reportProblem, record).         *)
THEOREM TrailIsRecentAlways == Spec => []TrailIsRecent
<1>1. IInv => TrailIsRecent
  BY DEF IInv, ClientInv
<1> QED
  BY <1>1, InductiveInvariant, PTL

(* Every rage click and repeated submit reported stands for its threshold  *)
(* of clicks or submits on that target inside its window.                  *)
THEOREM BurstsAreEarnedAlways == Spec => []BurstsAreEarned
<1>1. IInv => BurstsAreEarned
  BY DEF IInv, BurstInv
<1> QED
  BY <1>1, InductiveInvariant, PTL

(* Two dead clicks on a target are a window apart, unless the second was   *)
(* clicked before the first was reported (recentlyFlagged).                *)
THEOREM DeadClicksAreSpacedAlways == Spec => []DeadClicksAreSpaced
<1>1. IInv => DeadClicksAreSpaced
  BY DEF IInv, SpacingInv
<1> QED
  BY <1>1, InductiveInvariant, PTL

=============================================================================
