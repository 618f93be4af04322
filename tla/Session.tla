------------------------------ MODULE Session ------------------------------
(***************************************************************************)
(* The TypeScript SDK's session manager, src/sdk/typescript/src/session.ts *)
(* (class SessionManager) with the identity it decorates a start with      *)
(* (identity.ts): lazy start, restart, awaited end and shutdown, roll-over *)
(* by two timers, the sessionStorage blob, and page reloads.               *)
(*                                                                         *)
(* JavaScript runs to completion: one action is what runs between two      *)
(* awaits.  The requests are external: a session-start is answered late,   *)
(* never, or without a usable body; a session-end answers or times out.    *)
(*                                                                         *)
(* Left out: error reporting, the user agent, the replay clip capability   *)
(* (a tenant-wide value stored next to the code), legacy and corrupt blobs.*)
(***************************************************************************)
EXTENDS Integers

CONSTANTS
  INACTIVITY,               \* sessionInactivityMs, in ticks
  MAX_DURATION,             \* sessionMaxDurationMs
  FLUSH_INTERVAL,           \* SESSION_STORAGE_FLUSH_INTERVAL_MS
  HasStorage,               \* sessionStorage can be read and written
  WritesMayThrow,           \* setItem() may throw (quota, private mode)
  autoSession,              \* config.autoSession
  User,                     \* the users identify() may name
  NoUser,                   \* identity cleared or never set
  Lateness,                 \* bound: ticks a timer may fire late
  MaxSessions,              \* bound: sessions minted
  MaxTime,                  \* bound: ticks of the clock
  MaxStarts,                \* bound: start requests in flight per session
  Closer                    \* bound: end()/shutdown() calls alive at one time

ASSUME SessionAssumption ==
  /\ INACTIVITY \in Nat \ {0}
  /\ MAX_DURATION \in Nat \ {0}
  /\ FLUSH_INTERVAL \in Nat \ {0}
  /\ {HasStorage, WritesMayThrow, autoSession} \subseteq BOOLEAN
  /\ NoUser \notin User
  /\ Lateness \in Nat
  /\ {MaxSessions, MaxTime, MaxStarts} \subseteq Nat

VARIABLES
  mgr,                      \* the manager's fields
  stored,                   \* the blob in sessionStorage, or NoBlob
  identity, pending,        \* IdentityState, pendingIdentityForStart
  closers,                  \* the end() and shutdown() calls awaiting their POST
  starting,                 \* per session, start requests whose answer is due
  now,
  (* Observability: sessions minted, and those an end was posted for. *)
  minted, ended

network == <<closers, starting>>
vars == <<mgr, stored, identity, pending, network, now, minted, ended>>

-----------------------------------------------------------------------------
NoId == 0                   \* sessions are numbered as they are minted
Never == -1                 \* a time that is not set, a timer that is not armed

Id == 1..MaxSessions

Manager == [state : {"idle", "active", "ending"}, id : Nat,
            code : Nat,     \* the session whose support code is held
            startedAt : Int, lastActivity : Int, lastFlushed : Int,
            inactivityAt : Int, maxDurationAt : Int]    \* the timers' deadlines

IdleManager == [state |-> "idle", id |-> NoId, code |-> NoId,
                startedAt |-> Never, lastActivity |-> Never, lastFlushed |-> Never,
                inactivityAt |-> Never, maxDurationAt |-> Never]

Blob == [id : Nat, code : Nat, startedAt : Int, lastActivityAt : Int]

NoBlob == [id |-> NoId, code |-> NoId, startedAt |-> Never, lastActivityAt |-> Never]

BlobOf(m) == [id |-> m.id, code |-> m.code,
              startedAt |-> m.startedAt, lastActivityAt |-> m.lastActivity]

NoCloser == [id |-> NoId, timed |-> FALSE]

Current == mgr.id # NoId

Active == mgr.state = "active" /\ Current

(* flushStoredSession() on the fields m. *)
Persist(m) ==
  \/ /\ HasStorage
     /\ m.id # NoId
     /\ stored' = BlobOf(m)
     /\ mgr' = [m EXCEPT !.lastFlushed = m.lastActivity]
  \/ /\ ~HasStorage \/ m.id = NoId \/ WritesMayThrow
     /\ mgr' = m
     /\ UNCHANGED stored

(* What the body of the next session-start names: the pending identity,    *)
(* else the current one.                                                   *)
StartIdentity == IF pending # NoUser THEN pending ELSE identity

PostStart(id) ==
  /\ starting[id] < MaxStarts
  /\ starting' = [starting EXCEPT ![id] = @ + 1]

PostEnds(ids) == ended' = ended \cup (ids \ {NoId})

Started(id) ==
  [state |-> "active", id |-> id, code |-> NoId,
   startedAt |-> now, lastActivity |-> now, lastFlushed |-> Never,
   inactivityAt |-> now + INACTIVITY, maxDurationAt |-> now + MAX_DURATION]

(* startNewSession() *)
StartNewSession ==
  /\ minted < MaxSessions
  /\ minted' = minted + 1
  /\ Persist(Started(minted + 1))
  /\ PostStart(minted + 1)
  /\ pending' = NoUser

-----------------------------------------------------------------------------
Init ==
  /\ mgr = IdleManager
  /\ stored = NoBlob
  /\ identity = NoUser
  /\ pending = NoUser
  /\ closers = [c \in Closer |-> NoCloser]
  /\ starting = [i \in Id |-> 0]
  /\ now = 0
  /\ minted = 0
  /\ ended = {}

(* Mutant of FlushDue: activity is written back one tick late. *)
FlushDueLate == mgr.lastFlushed = Never \/ now - mgr.lastFlushed > FLUSH_INTERVAL

FlushDue == mgr.lastFlushed = Never \/ now - mgr.lastFlushed >= FLUSH_INTERVAL

(* Mutant of NoteActivity: the idle timer is left where it was. *)
NoteActivityWithoutTimer ==
  LET m == [mgr EXCEPT !.lastActivity = now]
  IN  \/ FlushDue /\ Persist(m)
      \/ ~FlushDue /\ mgr' = m /\ UNCHANGED stored

(* noteActivity() on an active session. *)
NoteActivity ==
  LET m == [mgr EXCEPT !.lastActivity = now, !.inactivityAt = now + INACTIVITY]
  IN  \/ FlushDue /\ Persist(m)
      \/ ~FlushDue /\ mgr' = m /\ UNCHANGED stored

(* capture(): ensureStarted(), then noteActivity(), which finds nothing    *)
(* left to do on a session it has just started.  Without autoSession and a *)
(* session, the capture is refused and nothing changes.                    *)
Capture ==
  /\ \/ /\ Active
        /\ NoteActivity
        /\ UNCHANGED <<pending, starting, minted>>
     \/ /\ ~Active
        /\ autoSession
        /\ StartNewSession
  /\ UNCHANGED <<identity, closers, now, ended>>

(* restart(): the old session's end is fired, even one already ending. *)
Restart ==
  /\ PostEnds({mgr.id})
  /\ StartNewSession
  /\ UNCHANGED <<identity, closers, now>>

Closing(c, timed) ==
  /\ mgr.state # "idle"
  /\ Current
  /\ closers[c] = NoCloser
  /\ closers' = [closers EXCEPT ![c] = [id |-> mgr.id, timed |-> timed]]
  /\ PostEnds({mgr.id})
  /\ stored' = NoBlob
  /\ UNCHANGED <<identity, pending, starting, now, minted>>

(* Mutant of Ending: captures still find the session active. *)
EndingStillActive(m) == [m EXCEPT !.inactivityAt = Never, !.maxDurationAt = Never]

Ending(m) == [m EXCEPT !.state = "ending", !.inactivityAt = Never, !.maxDurationAt = Never]

(* end(): the blob is written, then removed, before the POST is awaited. *)
End(c) ==
  /\ \E timed \in BOOLEAN : Closing(c, timed)
  /\ mgr' \in (IF HasStorage THEN {[Ending(mgr) EXCEPT !.lastFlushed = mgr.lastActivity]}
                              ELSE {})
              \cup (IF ~HasStorage \/ WritesMayThrow THEN {Ending(mgr)} ELSE {})

(* shutdown(): as end(), without writing the blob first. *)
Shutdown(c) ==
  /\ \E timed \in BOOLEAN : Closing(c, timed)
  /\ mgr' = Ending(mgr)

(* The finally block of end() and shutdown(): whatever is current by now   *)
(* is dropped; armed timers are left alone.                                *)
Closed(m) ==
  [IdleManager EXCEPT !.inactivityAt = m.inactivityAt, !.maxDurationAt = m.maxDurationAt]

CloseReturns(c) ==
  /\ closers[c] # NoCloser
  /\ closers' = [closers EXCEPT ![c] = NoCloser]
  /\ mgr' = Closed(mgr)
  /\ UNCHANGED <<stored, identity, pending, starting, now, minted, ended>>

(* The end request was answered or failed. *)
EndAnswered(c) == CloseReturns(c)

(* The other side of Promise.race. *)
EndTimesOut(c) == closers[c].timed /\ CloseReturns(c)

(* rollover(): end the session, forget it, wait for the next capture. *)
Rollover ==
  /\ PostEnds({mgr.id})
  /\ mgr' = IdleManager
  /\ stored' = NoBlob
  /\ UNCHANGED <<identity, pending, network, now, minted>>

Due(deadline) == deadline # Never /\ deadline <= now

InactivityTimerFires ==
  /\ Due(mgr.inactivityAt)
  /\ Rollover

MaxDurationTimerFires ==
  /\ Due(mgr.maxDurationAt)
  /\ Rollover

-----------------------------------------------------------------------------
(* Answers to session-start.                                               *)

Answered(i) ==
  /\ starting[i] > 0
  /\ starting' = [starting EXCEPT ![i] = @ - 1]
  /\ UNCHANGED <<identity, pending, closers, now, minted, ended>>

(* Mutant of StartAccepted: a late answer is applied to whatever is        *)
(* current.                                                                *)
StartAcceptedLate(i) ==
  /\ Answered(i)
  /\ Persist([mgr EXCEPT !.code = i])

(* A usable body: applyStartAcceptance() keeps the code of the current     *)
(* session and writes the blob; a late answer for another is dropped.      *)
StartAccepted(i) ==
  /\ Answered(i)
  /\ \/ /\ mgr.id = i
        /\ Persist([mgr EXCEPT !.code = i])
     \/ /\ mgr.id # i
        /\ UNCHANGED <<mgr, stored>>

(* No usable body: failed, not 2xx, not JSON, or without a support code. *)
StartUnusable(i) ==
  /\ Answered(i)
  /\ UNCHANGED <<mgr, stored>>

(* issueStart(), the 409 recovery hook: start the current session again. *)
IssueStart ==
  /\ Current
  /\ PostStart(mgr.id)
  /\ UNCHANGED <<mgr, stored, identity, pending, closers, now, minted, ended>>

-----------------------------------------------------------------------------
(* Identity.                                                               *)

(* identify(): the pending slot is filled only while there is no session. *)
Identify(u) ==
  /\ identity' = u
  /\ pending' = IF Current THEN pending ELSE u
  /\ UNCHANGED <<mgr, stored, network, now, minted, ended>>

(* Mutant of ClearIdentity: the pending slot survives. *)
ClearIdentityOnly ==
  /\ identity' = NoUser
  /\ UNCHANGED <<mgr, stored, pending, network, now, minted, ended>>

(* identify(null) *)
ClearIdentity ==
  /\ identity' = NoUser
  /\ pending' = NoUser
  /\ UNCHANGED <<mgr, stored, network, now, minted, ended>>

-----------------------------------------------------------------------------
(* The page.                                                               *)

Expired(blob) ==
  \/ now - blob.lastActivityAt > INACTIVITY
  \/ now - blob.startedAt > MAX_DURATION

(* Mutant of Restored: the max-duration timer is not armed. *)
RestoredUncapped(blob) ==
  [state |-> "active", id |-> blob.id, code |-> blob.code,
   startedAt |-> blob.startedAt, lastActivity |-> blob.lastActivityAt,
   lastFlushed |-> blob.lastActivityAt,
   inactivityAt |-> now + INACTIVITY, maxDurationAt |-> Never]

(* tryRestore() arms both timers anew, for their full length. *)
Restored(blob) ==
  [state |-> "active", id |-> blob.id, code |-> blob.code,
   startedAt |-> blob.startedAt, lastActivity |-> blob.lastActivityAt,
   lastFlushed |-> blob.lastActivityAt,
   inactivityAt |-> now + INACTIVITY, maxDurationAt |-> now + MAX_DURATION]

(* Mutant of Restorable: an expired blob is restored too. *)
RestorableAlways(blob) == blob # NoBlob

Restorable(blob) == blob # NoBlob /\ ~Expired(blob)

(* The page is reloaded or navigates in its tab, or the process restarts:  *)
(* memory and the continuations of requests are gone, sessionStorage       *)
(* stays, and a new manager is constructed.                                *)
Reload ==
  /\ identity' = NoUser
  /\ pending' = NoUser
  /\ closers' = [c \in Closer |-> NoCloser]
  /\ starting' = [i \in Id |-> 0]
  /\ \/ /\ Restorable(stored)
        /\ mgr' = Restored(stored)
        /\ UNCHANGED stored
     \/ /\ ~Restorable(stored)
        /\ mgr' = IdleManager
        /\ stored' = NoBlob
  /\ UNCHANGED <<now, minted, ended>>

(* Time passes; no timer is more than Lateness ticks late. *)
Tick ==
  /\ now < MaxTime
  /\ \A t \in {mgr.inactivityAt, mgr.maxDurationAt} :
       t # Never => now < t + Lateness
  /\ now' = now + 1
  /\ UNCHANGED <<mgr, stored, identity, pending, network, minted, ended>>

Next ==
  \/ Capture
  \/ Restart
  \/ \E c \in Closer : \/ Shutdown(c)
                        \/ End(c)
                        \/ EndAnswered(c)
                        \/ EndTimesOut(c)
  \/ InactivityTimerFires
  \/ MaxDurationTimerFires
  \/ \E i \in Id : StartAccepted(i) \/ StartUnusable(i)
  \/ IssueStart
  \/ \E u \in User : Identify(u)
  \/ ClearIdentity
  \/ Reload
  \/ Tick

Spec == Init /\ [][Next]_vars

(* The timers of sessions fire and time passes; no request need ever be    *)
(* answered, and nobody has to capture, end or reload.                     *)
FairSpec ==
  /\ Spec
  /\ WF_vars(Tick)
  /\ WF_vars(InactivityTimerFires)
  /\ WF_vars(MaxDurationTimerFires)

-----------------------------------------------------------------------------
(* Properties                                                              *)

TypeOK ==
  /\ mgr \in Manager
  /\ stored \in Blob
  /\ {identity, pending} \subseteq User \cup {NoUser}
  /\ closers \in [Closer -> [id : Nat, timed : BOOLEAN]]
  /\ starting \in [Id -> Nat]
  /\ now \in Nat
  /\ minted \in 0..MaxSessions
  /\ ended \in SUBSET Nat

(* A support code is only ever shown, or stored, with the session it was   *)
(* minted for, however late its answer comes: customers read it out to     *)
(* support (session.ts:432-450, 402-416, 643-646).                         *)
SupportCodeIsOwn ==
  /\ mgr.code \in {NoId, mgr.id}
  /\ stored.code \in {NoId, stored.id}

(* An active session has both timers running, and neither is due before    *)
(* the idle time or the session's length is used up, so that a roll-over   *)
(* by a timer is always earned by the session it ends, also when a close   *)
(* of an earlier session left armed timers behind                          *)
(* (session.ts:359-370, 402-413, 496-531, 657-659).                        *)
RolloverIsEarned ==
  Active =>
    /\ mgr.inactivityAt >= mgr.lastActivity + INACTIVITY
    /\ mgr.maxDurationAt >= mgr.startedAt + MAX_DURATION

(* While storage works, a reload finds the active session, and its blob    *)
(* misses less than one flush interval of activity                         *)
(* (session.ts:359-370, 415, 559-660, 662-688).                            *)
BlobIsFresh ==
  HasStorage /\ ~WritesMayThrow /\ Active =>
    /\ stored.id = mgr.id
    /\ stored.startedAt = mgr.startedAt
    /\ mgr.lastActivity - stored.lastActivityAt < FLUSH_INTERVAL

(* The next session-start names the identity in force, not one that was    *)
(* replaced or cleared meanwhile (client.ts:473-484, session.ts:373-380,   *)
(* 419-421, 471-492).                                                      *)
StartNamesIdentity == StartIdentity = identity

(* Reloads cannot keep a session alive for ever: each restore arms the     *)
(* full timers again, but refuses a session older than the cap             *)
(* (session.ts:507-516, 616-632, 657-659).                                 *)
AgeBound == Active => now - mgr.startedAt <= 2 * MAX_DURATION + Lateness

(* A session whose end was posted takes no more events: it is not active   *)
(* in any later step of the same page, whatever captures, late answers,    *)
(* closes and timers do meanwhile.  Only the restore of a blob may make it *)
(* active again (session.ts:255-317, 402-450, 533-556, 633-659).           *)
EndedStaysEnded ==
  [][Active' /\ mgr'.id \in ended' =>
       \/ Active /\ mgr.id = mgr'.id /\ mgr.id \in ended
       \/ Restorable(stored) /\ mgr' = Restored(stored)]_vars

(* A session does not stay current for ever, whatever the activity and the *)
(* reloads, if no close ends it: the max-duration timer does.  Sessions    *)
(* whose last deadline lies beyond the clock's bound are left out.         *)
SessionsRoll ==
  \A i \in Id :
    Active /\ mgr.id = i /\ mgr.startedAt + 2 * MAX_DURATION <= MaxTime
      ~> ~Active \/ mgr.id # i

(* A page load starts a fresh session instead of restoring one whose end   *)
(* was posted, as a comment in shutdown() says of the blob it removes      *)
(* (session.ts:328-331).  The code does not keep to it: an answer to       *)
(* session-start during the awaited end writes the blob back (line 443).   *)
EndedIsNotRestored == [][Reload => mgr'.id \notin ended]_vars

=============================================================================
