------------------------------ MODULE PySession ------------------------------
(***************************************************************************)
(* The Python SDK's session manager, sdk/python/resolvetrace/session.py    *)
(* (class SessionManager), as the threads of an application use it through *)
(* capture() (client.py) and the public session handle.                    *)
(*                                                                         *)
(* Threads are real: every method holds an RLock, so one action is one     *)
(* locked section, and what a method does after it released the lock is a  *)
(* later action of the same thread.  Timers are threading.Timer objects:   *)
(* once one has fired, its callback is a thread that may be anywhere       *)
(* before the lock, and cancelling it does nothing.                        *)
(*                                                                         *)
(* Left out: the payloads, the identity they carry, error reporting; the   *)
(* submission of a request is where the model stops (see PyTransport).     *)
(***************************************************************************)
EXTENDS Integers, FiniteSets

CONSTANTS
  autoSession,              \* config.auto_session
  Thread,                   \* bound: threads of the application
  Callback,                 \* bound: timer callbacks running at one time
  MaxSessions               \* bound: sessions started

ASSUME PySessionAssumption ==
  /\ autoSession \in BOOLEAN
  /\ IsFiniteSet(Thread)
  /\ IsFiniteSet(Callback)
  /\ MaxSessions \in Nat

NoId == 0                   \* sessions are numbered as they are started
Id == 1..MaxSessions

VARIABLES
  mgr,                      \* the fields of the manager
  thread,                   \* what each application thread is in the middle of
  callback,                 \* the timer callbacks that have fired
  (* Observability: sessions started; per session, ends submitted. *)
  started, ends

vars == <<mgr, thread, callback, started, ends>>

(* _state is ACTIVE exactly while _session_id is set; ENDING is left before *)
(* the lock is released.  A timer slot is TRUE while its timer is armed.   *)
Manager == [id : Id \cup {NoId}, closed : BOOLEAN,
            inactivityTimer : BOOLEAN, maxDurationTimer : BOOLEAN]

(* A thread is between methods, before the note_activity() of a capture, or *)
(* about to submit the end of `session`.                                   *)
Doing == [pc : {"idle", "noting", "submitting"}, session : Id \cup {NoId}]

(* A callback has fired and wants the lock, or is about to submit an end.  *)
(* `armedFor` is the session that was active when its timer was armed.     *)
Firing == [pc : {"idle", "fired", "submitting"}, session : Id \cup {NoId},
           armedFor : Id \cup {NoId}]

Resting == [pc |-> "idle", session |-> NoId]
NotFired == [pc |-> "idle", session |-> NoId, armedFor |-> NoId]

active == mgr.id # NoId

-----------------------------------------------------------------------------
(* Mutant of Reset: the max-duration timer is not cancelled.               *)
ResetKeepsMaxTimer(m) == [m EXCEPT !.id = NoId, !.inactivityTimer = FALSE]

(* _cancel_timers_locked() and _reset_locked(). *)
Reset(m) == [m EXCEPT !.id = NoId, !.inactivityTimer = FALSE,
                      !.maxDurationTimer = FALSE]

(* _start_locked(): a new id, both timers armed, the start submitted.      *)
StartLocked(m) ==
  /\ started < MaxSessions
  /\ started' = started + 1
  /\ mgr' = [m EXCEPT !.id = started + 1, !.inactivityTimer = TRUE,
                      !.maxDurationTimer = TRUE]

SubmitEnd(s) == ends' = [ends EXCEPT ![s] = @ + 1]

Init ==
  /\ mgr = [id |-> NoId, closed |-> FALSE, inactivityTimer |-> FALSE,
            maxDurationTimer |-> FALSE]
  /\ thread = [t \in Thread |-> Resting]
  /\ callback = [c \in Callback |-> NotFired]
  /\ started = 0
  /\ ends = [s \in Id |-> 0]

Free(t) == thread[t].pc = "idle"

SetThread(t, pc, s) == thread' = [thread EXCEPT ![t] = [pc |-> pc, session |-> s]]

(* capture() up to the enqueue: ensure_started() returns the session, or   *)
(* starts one; on a closed or unstarted manager it raises and nothing      *)
(* changes.                                                                *)
Capture(t) ==
  /\ Free(t)
  /\ ~mgr.closed
  /\ \/ /\ active
        /\ UNCHANGED <<mgr, started>>
     \/ /\ ~active
        /\ autoSession
        /\ StartLocked(mgr)
  /\ SetThread(t, "noting", NoId)
  /\ UNCHANGED <<callback, ends>>

(* note_activity(): the inactivity timer is armed afresh, unless there is  *)
(* no session any more.                                                    *)
NoteActivity(t) ==
  /\ thread[t].pc = "noting"
  /\ mgr' = [mgr EXCEPT !.inactivityTimer = active]
  /\ SetThread(t, "idle", NoId)
  /\ UNCHANGED <<callback, started, ends>>

(* issue_start(): the start of the current session again, or a new session *)
(* when there is none, closed or not.                                      *)
IssueStart(t) ==
  /\ Free(t)
  /\ ~active
  /\ StartLocked(mgr)
  /\ UNCHANGED <<thread, callback, ends>>

(* restart(): the end of the old session is submitted inside the lock.     *)
Restart(t) ==
  /\ Free(t)
  /\ ~mgr.closed
  /\ StartLocked(Reset(mgr))
  /\ IF active THEN SubmitEnd(mgr.id) ELSE UNCHANGED ends
  /\ UNCHANGED <<thread, callback>>

(* end(): the session is over when the lock is released, its end is        *)
(* submitted afterwards.                                                   *)
End(t) ==
  /\ Free(t)
  /\ active
  /\ mgr' = Reset(mgr)
  /\ SetThread(t, "submitting", mgr.id)
  /\ UNCHANGED <<callback, started, ends>>

Shutdown(t) ==
  /\ Free(t)
  /\ ~mgr.closed
  /\ mgr' = [Reset(mgr) EXCEPT !.closed = TRUE]
  /\ IF active THEN SetThread(t, "submitting", mgr.id) ELSE UNCHANGED thread
  /\ UNCHANGED <<callback, started, ends>>

(* The end that end() or shutdown() submits once out of the lock.          *)
ThreadSubmitsEnd(t) ==
  /\ thread[t].pc = "submitting"
  /\ SubmitEnd(thread[t].session)
  /\ SetThread(t, "idle", NoId)
  /\ UNCHANGED <<mgr, callback, started>>

-----------------------------------------------------------------------------
(* A timer that is still armed fires: its callback is now a thread.        *)
TimerFires(slot) ==
  /\ mgr[slot]
  /\ mgr' = [mgr EXCEPT ![slot] = FALSE]
  /\ \E c \in Callback :
       /\ callback[c].pc = "idle"
       /\ callback' = [callback EXCEPT ![c] = [pc |-> "fired", session |-> NoId,
                                               armedFor |-> mgr.id]]
  /\ UNCHANGED <<thread, started, ends>>

(* Mutant of Rollover: the id is read before the lock is taken, so that of *)
(* two callbacks both end the session.                                     *)
RolloverWithoutCheck(c) ==
  /\ callback[c].pc = "fired"
  /\ callback' = [callback EXCEPT ![c].pc = "submitting",
                                  ![c].session = callback[c].armedFor]
  /\ mgr' = Reset(mgr)
  /\ UNCHANGED <<thread, started, ends>>

(* _rollover(): whatever session is active now is over, unless the manager *)
(* is closed.                                                              *)
Rollover(c) ==
  /\ callback[c].pc = "fired"
  /\ \/ /\ active
        /\ ~mgr.closed
        /\ mgr' = Reset(mgr)
        /\ callback' = [callback EXCEPT ![c].pc = "submitting", ![c].session = mgr.id]
     \/ /\ ~active \/ mgr.closed
        /\ callback' = [callback EXCEPT ![c] = NotFired]
        /\ UNCHANGED mgr
  /\ UNCHANGED <<thread, started, ends>>

(* Mutant of CallbackSubmitsEnd: a closed manager sends no more ends.      *)
CallbackSubmitsEndWhileOpen(c) ==
  /\ callback[c].pc = "submitting"
  /\ ~mgr.closed
  /\ SubmitEnd(callback[c].session)
  /\ callback' = [callback EXCEPT ![c] = NotFired]
  /\ UNCHANGED <<mgr, thread, started>>

CallbackSubmitsEnd(c) ==
  /\ callback[c].pc = "submitting"
  /\ SubmitEnd(callback[c].session)
  /\ callback' = [callback EXCEPT ![c] = NotFired]
  /\ UNCHANGED <<mgr, thread, started>>

Slot == {"inactivityTimer", "maxDurationTimer"}

Next ==
  \/ \E t \in Thread : \/ Capture(t)
                       \/ NoteActivity(t)
                       \/ IssueStart(t)
                       \/ Restart(t)
                       \/ End(t)
                       \/ Shutdown(t)
                       \/ ThreadSubmitsEnd(t)
  \/ \E slot \in Slot : TimerFires(slot)
  \/ \E c \in Callback : Rollover(c) \/ CallbackSubmitsEnd(c)

Spec == Init /\ [][Next]_vars

(* Threads are scheduled and armed timers fire.  The application is not    *)
(* obliged to capture, end or shut down.                                   *)
Fairness ==
  /\ WF_vars(TimerFires("maxDurationTimer"))
  /\ \A t \in Thread : WF_vars(NoteActivity(t)) /\ WF_vars(ThreadSubmitsEnd(t))
  /\ \A c \in Callback : WF_vars(Rollover(c)) /\ WF_vars(CallbackSubmitsEnd(c))

FairSpec == Spec /\ Fairness

-----------------------------------------------------------------------------
(* Properties                                                              *)

TypeOK ==
  /\ mgr \in Manager
  /\ thread \in [Thread -> Doing]
  /\ callback \in [Callback -> Firing]
  /\ started \in 0..MaxSessions
  /\ ends \in [Id -> Nat]

ThreadsEnding(s) == {t \in Thread : thread[t].pc = "submitting" /\ thread[t].session = s}
CallbacksEnding(s) ==
  {c \in Callback : callback[c].pc = "submitting" /\ callback[c].session = s}

(* The end of a session is handed over like a baton: a started session is  *)
(* current, or in the hands of exactly one thread that is about to submit  *)
(* its end, or its end has been submitted exactly once; so an active       *)
(* session is never reported as ended, and no end is lost or repeated when *)
(* timers, end(), restart() and shutdown() race (session.py:276-320,       *)
(* 405-415).                                                               *)
OneEndPerSession ==
  \A s \in Id :
    (IF mgr.id = s THEN 1 ELSE 0) + Cardinality(ThreadsEnding(s))
      + Cardinality(CallbacksEnding(s)) + ends[s]
    = IF s <= started THEN 1 ELSE 0

(* Timers follow the state whichever thread got the lock first: an idle    *)
(* manager has none armed, and an active open one has both on their way,   *)
(* armed or already fired, so that no session is left without a limit      *)
(* (session.py:367-397).                                                   *)
TimersFollowState ==
  /\ ~active => ~mgr.inactivityTimer /\ ~mgr.maxDurationTimer
  /\ active /\ ~mgr.closed => \A slot \in Slot :
                 mgr[slot] \/ \E c \in Callback : callback[c].pc = "fired"

(* Every session that was active on an open manager is over some day and   *)
(* its end is submitted, with no help from the application                 *)
(* (session.py:399-415).                                                   *)
EverySessionEnds ==
  \A s \in Id : (mgr.id = s /\ ~mgr.closed) ~> (ends[s] = 1)

(* A timer ends the session it was armed for, since the limit on duration  *)
(* is "anchored on the started_at clock" (session.py:19-20).  The code does*)
(* not keep to it: a callback that waits for the lock while its session is *)
(* replaced ends the next one, however young that is.                      *)
TimersEndTheirOwn ==
  [][\A c \in Callback :
       callback[c].pc = "fired" /\ callback'[c].pc = "submitting" =>
         callback'[c].session = callback[c].armedFor]_vars

=============================================================================
