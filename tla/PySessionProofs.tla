--------------------------- MODULE PySessionProofs ---------------------------
(***************************************************************************)
(* Machine-checked proofs about PySession, for any finite number of        *)
(* application threads and of timer callbacks, and any number of sessions. *)
(*                                                                         *)
(* TimersFollowState is inductive beside the type invariant.               *)
(* OneEndPerSession counts: a session is current, or about to be ended by  *)
(* one thread or callback, or ended once.  Handover says what one step of  *)
(* one thread does to the number of those that are about to end a session, *)
(* so that each action moves a count of one from one place to another.     *)
(***************************************************************************)
EXTENDS PySession, FiniteSetTheorems, TLAPS

Ending(doing, s) == doing.pc = "submitting" /\ doing.session = s

Holders(S, f, s) == {x \in S : Ending(f[x], s)}

One(b) == IF b THEN 1 ELSE 0

(* Where the single end of session s is, counted over all the places.      *)
Tally(s) ==
  One(mgr.id = s) + Cardinality(Holders(Thread, thread, s))
    + Cardinality(Holders(Callback, callback, s)) + ends[s]

-----------------------------------------------------------------------------
(* Type correctness and the timers                                         *)

IInv == TypeOK /\ TimersFollowState

LEMMA InitIInv == Init => IInv
  BY PySessionAssumption
  DEF Init, IInv, TypeOK, TimersFollowState, Manager, Doing, Firing, Resting, NotFired,
      Id, NoId, active, Slot

(* What the steps do to the fields of the manager. *)
LEMMA ManagerSteps ==
  ASSUME mgr \in Manager, started \in 0..MaxSessions
  PROVE  /\ Reset(mgr) \in Manager /\ Reset(mgr).id = NoId
         /\ ~Reset(mgr).inactivityTimer /\ ~Reset(mgr).maxDurationTimer
         /\ Reset(mgr).closed = mgr.closed
         /\ \A m \in Manager : StartLocked(m) =>
              /\ mgr' \in Manager /\ mgr'.id = started + 1 /\ started' \in 0..MaxSessions
              /\ mgr'.inactivityTimer /\ mgr'.maxDurationTimer
<1>1. /\ Reset(mgr) \in Manager /\ Reset(mgr).id = NoId
      /\ ~Reset(mgr).inactivityTimer /\ ~Reset(mgr).maxDurationTimer
      /\ Reset(mgr).closed = mgr.closed
  BY DEF Reset, Manager
<1>2. ASSUME NEW m \in Manager, StartLocked(m)
      PROVE  /\ mgr' \in Manager /\ mgr'.id = started + 1 /\ started' \in 0..MaxSessions
             /\ mgr'.inactivityTimer /\ mgr'.maxDurationTimer
  <2>1. started + 1 \in Id
    BY <1>2, PySessionAssumption DEF StartLocked, Id
  <2>2. mgr' = [m EXCEPT !.id = started + 1, !.inactivityTimer = TRUE, !.maxDurationTimer = TRUE]
    BY <1>2 DEF StartLocked
  <2>3. started' \in 0..MaxSessions
    BY <1>2, <2>1 DEF StartLocked, Id
  <2>4. mgr' \in Manager /\ mgr'.id = started + 1 /\ mgr'.inactivityTimer /\ mgr'.maxDurationTimer
    BY <2>1, <2>2 DEF Manager
  <2> QED
    BY <2>3, <2>4
<1> QED
  BY <1>1, <1>2

LEMMA ThreadSteps ==
  ASSUME TypeOK, NEW t \in Thread, NEW pc \in {"idle", "noting", "submitting"},
         NEW r \in Id \cup {NoId}, SetThread(t, pc, r)
  PROVE  thread' \in [Thread -> Doing]
<1>1. [pc |-> pc, session |-> r] \in Doing
  BY DEF Doing
<1> QED
  BY <1>1 DEF SetThread, TypeOK

LEMMA EndSteps == ASSUME TypeOK, NEW r, SubmitEnd(r) PROVE ends' \in [Id -> Nat]
<1>1. ends \in [Id -> Nat] /\ ends' = [ends EXCEPT ![r] = ends[r] + 1]
  BY DEF TypeOK, SubmitEnd
<1>2. CASE r \in Id
  BY <1>1, <1>2
<1>3. CASE r \notin Id
  BY <1>1, <1>3
<1> QED
  BY <1>2, <1>3

LEMMA NextTypeOK == TypeOK /\ [Next]_vars => TypeOK'
<1> SUFFICES ASSUME TypeOK, [Next]_vars PROVE TypeOK'
  OBVIOUS
<1>1. /\ mgr \in Manager /\ started \in 0..MaxSessions
      /\ mgr.id \in Id \cup {NoId} /\ NoId \in Id \cup {NoId}
  BY DEF TypeOK, Manager
<1>2. ASSUME NEW t \in Thread,
             Capture(t) \/ NoteActivity(t) \/ IssueStart(t) \/ Restart(t) \/ End(t)
               \/ Shutdown(t) \/ ThreadSubmitsEnd(t)
      PROVE  TypeOK'
  <2>1. CASE Capture(t)
    <3>1. mgr' \in Manager /\ started' \in 0..MaxSessions
      BY <1>1, <2>1, ManagerSteps DEF Capture
    <3>2. thread' \in [Thread -> Doing]
      BY <1>1, <2>1, ThreadSteps DEF Capture
    <3> QED
      BY <2>1, <3>1, <3>2 DEF TypeOK, Capture
  <2>2. CASE NoteActivity(t)
    <3>1. mgr' \in Manager
      BY <1>1, <2>2 DEF NoteActivity, Manager, active
    <3>2. thread' \in [Thread -> Doing]
      BY <1>1, <2>2, ThreadSteps DEF NoteActivity
    <3> QED
      BY <2>2, <3>1, <3>2 DEF TypeOK, NoteActivity
  <2>3. CASE IssueStart(t)
    <3>1. mgr' \in Manager /\ started' \in 0..MaxSessions
      BY <1>1, <2>3, ManagerSteps DEF IssueStart
    <3> QED
      BY <2>3, <3>1 DEF TypeOK, IssueStart
  <2>4. CASE Restart(t)
    <3>1. mgr' \in Manager /\ started' \in 0..MaxSessions
      BY <1>1, <2>4, ManagerSteps DEF Restart
    <3>2. ends' \in [Id -> Nat]
      BY <2>4, EndSteps DEF TypeOK, Restart
    <3> QED
      BY <2>4, <3>1, <3>2 DEF TypeOK, Restart
  <2>5. CASE End(t)
    <3>1. mgr' \in Manager
      BY <1>1, <2>5, ManagerSteps DEF End
    <3>2. thread' \in [Thread -> Doing]
      BY <1>1, <2>5, ThreadSteps DEF End
    <3> QED
      BY <2>5, <3>1, <3>2 DEF TypeOK, End
  <2>6. CASE Shutdown(t)
    <3>1. mgr' \in Manager
      <4>1. Reset(mgr) \in Manager
        BY <1>1, ManagerSteps
      <4> QED
        BY <2>6, <4>1 DEF Shutdown, Manager
    <3>2. thread' \in [Thread -> Doing]
      BY <1>1, <2>6, ThreadSteps DEF Shutdown, TypeOK
    <3> QED
      BY <2>6, <3>1, <3>2 DEF TypeOK, Shutdown
  <2>7. CASE ThreadSubmitsEnd(t)
    <3>1. thread' \in [Thread -> Doing]
      BY <1>1, <2>7, ThreadSteps DEF ThreadSubmitsEnd
    <3>2. ends' \in [Id -> Nat]
      BY <2>7, EndSteps DEF ThreadSubmitsEnd
    <3> QED
      BY <2>7, <3>1, <3>2 DEF TypeOK, ThreadSubmitsEnd
  <2> QED
    BY <1>2, <2>1, <2>2, <2>3, <2>4, <2>5, <2>6, <2>7
<1>3. ASSUME NEW slot \in Slot, TimerFires(slot) PROVE TypeOK'
  <2>1. mgr' \in Manager
    <3>1. CASE slot = "inactivityTimer"
      BY <1>1, <1>3, <3>1 DEF TimerFires, Manager
    <3>2. CASE slot = "maxDurationTimer"
      BY <1>1, <1>3, <3>2 DEF TimerFires, Manager
    <3> QED
      BY <3>1, <3>2 DEF Slot
  <2>2. [pc |-> "fired", session |-> NoId, armedFor |-> mgr.id] \in Firing
    BY <1>1 DEF Firing
  <2>3. callback' \in [Callback -> Firing]
    BY <1>3, <2>2 DEF TimerFires, TypeOK
  <2> QED
    BY <1>3, <2>1, <2>3 DEF TimerFires, TypeOK
<1>4. NotFired \in Firing
  BY DEF NotFired, Firing
<1>5. ASSUME NEW c \in Callback, Rollover(c) PROVE TypeOK'
  <2>1. mgr' \in Manager
    BY <1>1, <1>5, ManagerSteps DEF Rollover
  <2>2. [callback[c] EXCEPT !.pc = "submitting", !.session = mgr.id] \in Firing
    BY <1>1 DEF TypeOK, Firing
  <2>3. callback' \in [Callback -> Firing]
    BY <1>4, <1>5, <2>2 DEF Rollover, TypeOK
  <2> QED
    BY <1>5, <2>1, <2>3 DEF Rollover, TypeOK
<1>6. ASSUME NEW c \in Callback, CallbackSubmitsEnd(c) PROVE TypeOK'
  <2>1. ends' \in [Id -> Nat]
    BY <1>6, EndSteps DEF CallbackSubmitsEnd
  <2>2. callback' \in [Callback -> Firing]
    BY <1>4, <1>6 DEF CallbackSubmitsEnd, TypeOK
  <2> QED
    BY <1>6, <2>1, <2>2 DEF CallbackSubmitsEnd, TypeOK
<1>7. CASE UNCHANGED vars
  BY <1>7 DEF TypeOK, vars
<1> QED
  BY <1>2, <1>3, <1>5, <1>6, <1>7 DEF Next

LEMMA NextTimers == IInv /\ [Next]_vars => TimersFollowState'
<1> SUFFICES ASSUME IInv, [Next]_vars PROVE TimersFollowState'
  OBVIOUS
<1> USE PySessionAssumption DEF IInv, TypeOK, TimersFollowState, Manager, Slot, active
<1>1. ASSUME NEW t \in Thread,
             Capture(t) \/ NoteActivity(t) \/ IssueStart(t) \/ Restart(t) \/ End(t)
               \/ Shutdown(t) \/ ThreadSubmitsEnd(t)
      PROVE  TimersFollowState'
  <2>1. CASE Capture(t)
    <3>1. CASE UNCHANGED mgr
      BY <2>1, <3>1 DEF Capture
    <3>2. CASE StartLocked(mgr)
      <4>1. mgr'.inactivityTimer /\ mgr'.maxDurationTimer /\ mgr'.id # NoId
        BY <3>2, ManagerSteps DEF NoId
      <4> QED
        BY <4>1
    <3> QED
      BY <2>1, <3>1, <3>2 DEF Capture
  <2>2. CASE NoteActivity(t)
    <3>1. mgr' = [mgr EXCEPT !.inactivityTimer = active] /\ callback' = callback
      BY <2>2 DEF NoteActivity
    <3>2. /\ mgr'.id = mgr.id /\ mgr'.closed = mgr.closed
          /\ mgr'.maxDurationTimer = mgr.maxDurationTimer
          /\ mgr'.inactivityTimer <=> active
      BY <3>1
    <3>3. CASE active
      BY <3>1, <3>2, <3>3
    <3>4. CASE ~active
      BY <3>1, <3>2, <3>4
    <3> QED
      BY <3>3, <3>4
  <2>3. CASE IssueStart(t)
    BY <2>3 DEF IssueStart, StartLocked, NoId
  <2>4. CASE Restart(t)
    <3>1. mgr'.id # NoId /\ mgr'.inactivityTimer /\ mgr'.maxDurationTimer
      BY <2>4, ManagerSteps DEF Restart, NoId
    <3> QED
      BY <3>1
  <2>5. CASE End(t)
    BY <2>5 DEF End, Reset
  <2>6. CASE Shutdown(t)
    BY <2>6 DEF Shutdown, Reset
  <2>7. CASE ThreadSubmitsEnd(t)
    BY <2>7 DEF ThreadSubmitsEnd
  <2> QED
    BY <1>1, <2>1, <2>2, <2>3, <2>4, <2>5, <2>6, <2>7
<1>2. ASSUME NEW slot \in Slot, TimerFires(slot) PROVE TimersFollowState'
  <2>1. PICK c \in Callback :
          callback[c].pc = "idle"
          /\ callback' = [callback EXCEPT ![c] = [pc |-> "fired", session |-> NoId,
                                                  armedFor |-> mgr.id]]
    BY <1>2 DEF TimerFires
  <2>2. callback'[c].pc = "fired"
    BY <2>1
  <2>3. mgr' = [mgr EXCEPT ![slot] = FALSE]
    BY <1>2 DEF TimerFires
  <2> QED
    BY <2>2, <2>3
<1>3. ASSUME NEW c \in Callback, Rollover(c) PROVE TimersFollowState'
  <2>1. CASE active /\ ~mgr.closed
    BY <1>3, <2>1 DEF Rollover, Reset
  <2>2. CASE ~active \/ mgr.closed
    BY <1>3, <2>2 DEF Rollover
  <2> QED
    BY <2>1, <2>2
<1>4. ASSUME NEW c \in Callback, CallbackSubmitsEnd(c) PROVE TimersFollowState'
  <2>1. mgr' = mgr
    BY <1>4 DEF CallbackSubmitsEnd
  <2>2. ASSUME NEW k \in Callback, callback[k].pc = "fired" PROVE callback'[k].pc = "fired"
    BY <1>4, <2>2 DEF CallbackSubmitsEnd
  <2> QED
    BY <2>1, <2>2
<1>5. CASE UNCHANGED vars
  BY <1>5 DEF vars
<1> QED
  BY <1>1, <1>2, <1>3, <1>4, <1>5 DEF Next

LEMMA Invariance == Spec => []IInv
<1>1. IInv /\ [Next]_vars => IInv'
  BY NextTypeOK, NextTimers DEF IInv
<1> QED
  BY InitIInv, <1>1, PTL DEF Spec

(* Every variable has its type. *)
THEOREM TypeCorrect == Spec => []TypeOK
<1>1. IInv => TypeOK
  BY DEF IInv
<1> QED
  BY Invariance, <1>1, PTL

(* An idle manager has no timer armed, and an active open one has both     *)
(* armed or a fired callback on its way (session.py:367-415).              *)
THEOREM TimersFollowStateHolds == Spec => []TimersFollowState
<1>1. IInv => TimersFollowState
  BY DEF IInv
<1> QED
  BY Invariance, <1>1, PTL

-----------------------------------------------------------------------------
(* One end per session                                                     *)

(* One of S moves from f[x] to g[x]: the number of those that hold s       *)
(* changes by what x held and holds.                                       *)
LEMMA Handover ==
  ASSUME NEW S, IsFiniteSet(S), NEW f, NEW g, NEW x \in S, NEW s,
         \A y \in S : y # x => g[y] = f[y]
  PROVE  /\ Cardinality(Holders(S, f, s)) \in Nat
         /\ Cardinality(Holders(S, g, s)) \in Nat
         /\ Cardinality(Holders(S, g, s)) + One(Ending(f[x], s))
              = Cardinality(Holders(S, f, s)) + One(Ending(g[x], s))
<1> DEFINE F == Holders(S, f, s)
           G == Holders(S, g, s)
<1>1. IsFiniteSet(F) /\ IsFiniteSet(G)
  <2>1. F \in SUBSET S /\ G \in SUBSET S
    BY DEF Holders
  <2> QED
    BY <2>1, FS_Subset
<1>2. F \ {x} = G \ {x}
  BY DEF Holders, Ending
<1>3. (x \in F <=> Ending(f[x], s)) /\ (x \in G <=> Ending(g[x], s))
  BY DEF Holders
<1>4. Cardinality(F) \in Nat /\ Cardinality(G) \in Nat
  BY <1>1, FS_CardinalityType
<1>5. Cardinality(F \ {x}) = IF x \in F THEN Cardinality(F) - 1 ELSE Cardinality(F)
  BY <1>1, FS_RemoveElement
<1>6. Cardinality(G \ {x}) = IF x \in G THEN Cardinality(G) - 1 ELSE Cardinality(G)
  BY <1>1, FS_RemoveElement
<1> HIDE DEF F, G
<1>7. Cardinality(G) + One(Ending(f[x], s)) = Cardinality(F) + One(Ending(g[x], s))
  <2>1. /\ One(Ending(f[x], s)) = IF x \in F THEN 1 ELSE 0
        /\ One(Ending(g[x], s)) = IF x \in G THEN 1 ELSE 0
    BY <1>3 DEF One
  <2>2. Cardinality(F) = Cardinality(F \ {x}) + One(Ending(f[x], s))
    BY <1>4, <1>5, <2>1
  <2>3. Cardinality(G) = Cardinality(F \ {x}) + One(Ending(g[x], s))
    BY <1>2, <1>4, <1>6, <2>1
  <2>4. /\ Cardinality(F \ {x}) \in Int
        /\ One(Ending(f[x], s)) \in Nat /\ One(Ending(g[x], s)) \in Nat
    BY <1>4, <1>5, <2>1
  <2> QED
    BY <2>2, <2>3, <2>4
<1>8. F = Holders(S, f, s) /\ G = Holders(S, g, s)
  BY DEF F, G
<1> QED
  BY <1>4, <1>7, <1>8

Counts(s) == Cardinality(Holders(Thread, thread, s)) \in Nat
             /\ Cardinality(Holders(Callback, callback, s)) \in Nat

LEMMA CountsAreNat == ASSUME NEW s PROVE Counts(s)
<1>1. ASSUME NEW S, IsFiniteSet(S), NEW f PROVE Cardinality(Holders(S, f, s)) \in Nat
  <2>1. Holders(S, f, s) \in SUBSET S
    BY DEF Holders
  <2> QED
    BY <1>1, <2>1, FS_Subset, FS_CardinalityType
<1> QED
  BY <1>1, PySessionAssumption DEF Counts

(* What SetThread does to the threads that hold s. *)
LEMMA ThreadHands ==
  ASSUME TypeOK, NEW t \in Thread, NEW pc, NEW r, NEW s, SetThread(t, pc, r)
  PROVE  Cardinality(Holders(Thread, thread, s))' + One(Ending(thread[t], s))
           = Cardinality(Holders(Thread, thread, s)) + One(pc = "submitting" /\ r = s)
<1>1. thread'[t] = [pc |-> pc, session |-> r] /\ \A u \in Thread : u # t => thread'[u] = thread[u]
  BY DEF TypeOK, SetThread
<1>2. Cardinality(Holders(Thread, thread', s)) + One(Ending(thread[t], s))
        = Cardinality(Holders(Thread, thread, s)) + One(Ending(thread'[t], s))
  BY <1>1, Handover, PySessionAssumption
<1>3. Ending(thread'[t], s) <=> pc = "submitting" /\ r = s
  BY <1>1 DEF Ending
<1>4. Holders(Thread, thread, s)' = Holders(Thread, thread', s)
  BY DEF Holders, Ending
<1> QED
  BY <1>2, <1>3, <1>4 DEF One

(* What a step of one callback does to the callbacks that hold s. *)
LEMMA CallbackHands ==
  ASSUME TypeOK, NEW c \in Callback, NEW d, NEW s, callback' = [callback EXCEPT ![c] = d]
  PROVE  Cardinality(Holders(Callback, callback, s))' + One(Ending(callback[c], s))
           = Cardinality(Holders(Callback, callback, s)) + One(Ending(d, s))
<1>1. callback'[c] = d
  BY DEF TypeOK
<1>2. \A k \in Callback : k # c => callback'[k] = callback[k]
  BY DEF TypeOK
<1>3. Cardinality(Holders(Callback, callback', s)) + One(Ending(callback[c], s))
        = Cardinality(Holders(Callback, callback, s)) + One(Ending(callback'[c], s))
  <2>1. IsFiniteSet(Callback)
    BY PySessionAssumption
  <2>2. \A f, g : (\A y \in Callback : y # c => g[y] = f[y]) =>
          Cardinality(Holders(Callback, g, s)) + One(Ending(f[c], s))
            = Cardinality(Holders(Callback, f, s)) + One(Ending(g[c], s))
    BY <2>1, Handover
  <2> QED
    BY <1>2, <2>2
<1>4. Holders(Callback, callback, s)' = Holders(Callback, callback', s)
  BY DEF Holders, Ending
<1> QED
  BY <1>1, <1>3, <1>4

Handed == \A s \in Id : Tally(s) = One(s <= started)

LEMMA HandedIsOneEnd == Handed <=> OneEndPerSession
<1>1. ASSUME NEW s \in Id
      PROVE  Holders(Thread, thread, s) = ThreadsEnding(s)
             /\ Holders(Callback, callback, s) = CallbacksEnding(s)
  BY DEF Holders, Ending, ThreadsEnding, CallbacksEnding
<1> QED
  BY <1>1 DEF Handed, OneEndPerSession, Tally, One

(* The parts of the tally that a step leaves alone. *)
LEMMA Unmoved ==
  ASSUME NEW s
  PROVE  /\ UNCHANGED thread => UNCHANGED Cardinality(Holders(Thread, thread, s))
         /\ UNCHANGED callback => UNCHANGED Cardinality(Holders(Callback, callback, s))
  BY DEF Holders, Ending

(* A session started now was nowhere before. *)
LEMMA Fresh ==
  ASSUME TypeOK, Handed, NEW s \in Id
  PROVE  mgr.id = s => s <= started
  BY CountsAreNat DEF TypeOK, Handed, Tally, One, Counts, Id

LEMMA InitHanded == Init => Handed
<1> SUFFICES ASSUME Init, NEW s \in Id PROVE Tally(s) = One(s <= started)
  BY DEF Handed
<1>1. Holders(Thread, thread, s) = {} /\ Holders(Callback, callback, s) = {}
  BY DEF Init, Holders, Ending, Resting, NotFired
<1>2. mgr.id # s /\ ends[s] = 0 /\ ~(s <= started)
  BY PySessionAssumption DEF Init, Id, NoId
<1> QED
  BY <1>1, <1>2, FS_EmptySet DEF Tally, One

LEMMA SameSum ==
  ASSUME NEW a \in Nat, NEW b \in Nat, NEW u, NEW v, u = 0, v = 0, a + u = b + v
  PROVE  a = b
<1>1. a + u = a /\ b + v = b
  OBVIOUS
<1> QED
  BY <1>1

LEMMA NextHanded == TypeOK /\ Handed /\ [Next]_vars => Handed'
<1> SUFFICES ASSUME TypeOK, Handed, [Next]_vars, NEW s \in Id
             PROVE  Tally(s)' = One(s <= started')
  BY DEF Handed, Tally, One, Id
<1> DEFINE ByThreads == Cardinality(Holders(Thread, thread, s))
           ByCallbacks == Cardinality(Holders(Callback, callback, s))
<1>1. ByThreads \in Nat /\ ByCallbacks \in Nat /\ ByThreads' \in Nat /\ ByCallbacks' \in Nat
  <2>1. \A f : Cardinality(Holders(Thread, f, s)) \in Nat
               /\ Cardinality(Holders(Callback, f, s)) \in Nat
    BY PySessionAssumption, FS_Subset, FS_CardinalityType DEF Holders
  <2>2. ByThreads' = Cardinality(Holders(Thread, thread', s))
        /\ ByCallbacks' = Cardinality(Holders(Callback, callback', s))
    BY DEF Holders, Ending
  <2> QED
    BY <2>1, <2>2
<1>2. One(mgr.id = s) + ByThreads + ByCallbacks + ends[s] = One(s <= started)
  BY DEF Handed, Tally
<1>3. mgr.id = s => s <= started
  BY Fresh
<1>4. /\ UNCHANGED thread => ByThreads' = ByThreads
      /\ UNCHANGED callback => ByCallbacks' = ByCallbacks
  BY Unmoved
<1>5. /\ s \in Nat \ {0} /\ started \in Nat /\ mgr.id \in Nat /\ mgr.id <= MaxSessions
      /\ ends \in [Id -> Nat] /\ ends[s] \in Nat
      /\ thread \in [Thread -> Doing] /\ callback \in [Callback -> Firing]
  BY PySessionAssumption DEF TypeOK, Id, NoId, Manager
<1>6. SUFFICES One(mgr'.id = s) + ByThreads' + ByCallbacks' + ends'[s] = One(s <= started')
  BY DEF Tally, One
<1> HIDE DEF ByThreads, ByCallbacks
<1>7. ASSUME NEW t \in Thread, NEW pc, NEW r, SetThread(t, pc, r)
      PROVE  ByThreads' + One(Ending(thread[t], s)) = ByThreads + One(pc = "submitting" /\ r = s)
  BY <1>7, ThreadHands DEF ByThreads
<1>8. ASSUME NEW c \in Callback, NEW d, callback' = [callback EXCEPT ![c] = d]
      PROVE  ByCallbacks' + One(Ending(callback[c], s)) = ByCallbacks + One(Ending(d, s))
  BY <1>8, CallbackHands DEF ByCallbacks
<1>9. ASSUME NEW t \in Thread,
             Capture(t) \/ NoteActivity(t) \/ IssueStart(t) \/ Restart(t) \/ End(t)
               \/ Shutdown(t) \/ ThreadSubmitsEnd(t)
      PROVE  One(mgr'.id = s) + ByThreads' + ByCallbacks' + ends'[s] = One(s <= started')
  <2>1. CASE Capture(t)
    <3>1. ByThreads' = ByThreads /\ ByCallbacks' = ByCallbacks /\ ends' = ends
      <4>1. SetThread(t, "noting", NoId) /\ ~Ending(thread[t], s) /\ UNCHANGED <<callback, ends>>
        BY <2>1 DEF Capture, Free, Ending
      <4>2. One(Ending(thread[t], s)) = 0 /\ One("noting" = "submitting" /\ NoId = s) = 0
        BY <4>1 DEF One
      <4>3. ByThreads' + One(Ending(thread[t], s)) = ByThreads + One("noting" = "submitting" /\ NoId = s)
        BY <4>1, <1>7
      <4>4. ByThreads' = ByThreads
        BY <4>2, <4>3, <1>1
      <4> QED
        BY <4>1, <4>4, <1>4
    <3>2. CASE active /\ UNCHANGED <<mgr, started>>
      BY <3>1, <3>2, <1>2
    <3>3. CASE ~active /\ StartLocked(mgr)
      BY <3>1, <3>3, <1>1, <1>2, <1>3, <1>5 DEF StartLocked, active, NoId, One, TypeOK, Manager
    <3> QED
      BY <2>1, <3>2, <3>3 DEF Capture
  <2>2. CASE NoteActivity(t)
    <3>1. ByThreads' = ByThreads /\ ByCallbacks' = ByCallbacks /\ UNCHANGED <<ends, started>>
      BY <2>2, <1>1, <1>4, <1>7 DEF NoteActivity, Ending, One
    <3>2. mgr'.id = mgr.id
      BY <2>2 DEF NoteActivity, TypeOK, Manager
    <3> QED
      BY <3>1, <3>2, <1>2
  <2>3. CASE IssueStart(t)
    <3>1. ByThreads' = ByThreads /\ ByCallbacks' = ByCallbacks /\ ends' = ends
      BY <2>3, <1>4 DEF IssueStart
    <3> QED
      BY <2>3, <3>1, <1>1, <1>2, <1>3, <1>5 DEF IssueStart, StartLocked, active, NoId, One, TypeOK, Manager
  <2>4. CASE Restart(t)
    <3>1. ByThreads' = ByThreads /\ ByCallbacks' = ByCallbacks
      BY <2>4, <1>4 DEF Restart
    <3>2. mgr'.id = started + 1 /\ started' = started + 1
      BY <2>4 DEF Restart, StartLocked, Reset, TypeOK, Manager
    <3>3. ends'[s] = ends[s] + One(mgr.id = s)
      BY <2>4, <1>5 DEF Restart, SubmitEnd, active, NoId, One
    <3> QED
      BY <3>1, <3>2, <3>3, <1>1, <1>2, <1>3, <1>5 DEF One
  <2>5. CASE End(t)
    <3>1. ByThreads' = ByThreads + One(mgr.id = s)
      BY <2>5, <1>1, <1>7 DEF End, Free, Ending, One
    <3>2. ByCallbacks' = ByCallbacks /\ UNCHANGED <<ends, started>> /\ mgr'.id = NoId
      BY <2>5, <1>4 DEF End, Reset, TypeOK, Manager
    <3> QED
      BY <3>1, <3>2, <1>1, <1>2, <1>5 DEF One, NoId
  <2>6. CASE Shutdown(t)
    <3>1. ByThreads' = ByThreads + One(mgr.id = s)
      <4>1. CASE active
        BY <2>6, <4>1, <1>1, <1>7 DEF Shutdown, Free, Ending, One
      <4>2. CASE ~active
        BY <2>6, <4>2, <1>1, <1>4, <1>5 DEF Shutdown, active, NoId, One
      <4> QED
        BY <4>1, <4>2
    <3>2. ByCallbacks' = ByCallbacks /\ UNCHANGED <<ends, started>> /\ mgr'.id = NoId
      BY <2>6, <1>4 DEF Shutdown, Reset, TypeOK, Manager
    <3> QED
      BY <3>1, <3>2, <1>1, <1>2, <1>5 DEF One, NoId
  <2>7. CASE ThreadSubmitsEnd(t)
    <3>1. ByThreads' + One(thread[t].session = s) = ByThreads
      <4>1. SetThread(t, "idle", NoId) /\ thread[t].pc = "submitting"
        BY <2>7 DEF ThreadSubmitsEnd
      <4>2. /\ One(Ending(thread[t], s)) = One(thread[t].session = s)
            /\ One("idle" = "submitting" /\ NoId = s) = 0
        BY <4>1 DEF One, Ending
      <4>3. ByThreads' + One(Ending(thread[t], s)) = ByThreads + One("idle" = "submitting" /\ NoId = s)
        BY <4>1, <1>7
      <4> QED
        BY <4>2, <4>3, <1>1
    <3>2. ByCallbacks' = ByCallbacks /\ UNCHANGED <<mgr, started>>
      BY <2>7, <1>4 DEF ThreadSubmitsEnd
    <3>3. ends'[s] = ends[s] + One(thread[t].session = s)
      BY <2>7, <1>5 DEF ThreadSubmitsEnd, SubmitEnd, One
    <3>4. One(thread[t].session = s) \in Nat /\ One(mgr.id = s) \in Nat
      BY DEF One
    <3>5. One(mgr.id = s) + ByThreads' + ByCallbacks' + ends'[s] = One(s <= started)
      BY <3>1, <3>2, <3>3, <3>4, <1>1, <1>2, <1>5
    <3> QED
      BY <3>2, <3>5
  <2> QED
    BY <1>9, <2>1, <2>2, <2>3, <2>4, <2>5, <2>6, <2>7
<1>10. ASSUME NEW slot \in Slot, TimerFires(slot)
       PROVE  One(mgr'.id = s) + ByThreads' + ByCallbacks' + ends'[s] = One(s <= started')
  <2>1. PICK c \in Callback :
          callback[c].pc = "idle"
          /\ callback' = [callback EXCEPT ![c] = [pc |-> "fired", session |-> NoId,
                                                  armedFor |-> mgr.id]]
    BY <1>10 DEF TimerFires
  <2>2. ByCallbacks' = ByCallbacks
    <3>1. ASSUME NEW d, callback' = [callback EXCEPT ![c] = d], d.pc = "fired"
          PROVE  ByCallbacks' = ByCallbacks
      <4>1. One(Ending(callback[c], s)) = 0 /\ One(Ending(d, s)) = 0
        BY <2>1, <3>1 DEF Ending, One
      <4>2. ByCallbacks' + One(Ending(callback[c], s)) = ByCallbacks + One(Ending(d, s))
        BY <3>1, <1>8
      <4> QED
        BY <4>1, <4>2, <1>1, SameSum
    <3>2. [pc |-> "fired", session |-> NoId, armedFor |-> mgr.id].pc = "fired"
      OBVIOUS
    <3> QED
      BY <2>1, <3>1, <3>2
  <2>3. ByThreads' = ByThreads /\ UNCHANGED <<ends, started>> /\ mgr'.id = mgr.id
    BY <1>10, <1>4 DEF TimerFires, Slot, TypeOK, Manager
  <2> QED
    BY <2>2, <2>3, <1>2
<1>11. ASSUME NEW c \in Callback, Rollover(c)
       PROVE  One(mgr'.id = s) + ByThreads' + ByCallbacks' + ends'[s] = One(s <= started')
  <2>1. ByThreads' = ByThreads /\ UNCHANGED <<ends, started>> /\ ~Ending(callback[c], s)
    BY <1>11, <1>4 DEF Rollover, Ending
  <2>2. CASE active /\ ~mgr.closed
    <3> DEFINE d == [callback[c] EXCEPT !.pc = "submitting", !.session = mgr.id]
    <3>1. callback' = [callback EXCEPT ![c] = d] /\ mgr'.id = NoId
      BY <1>11, <2>2, <1>5 DEF Rollover, Reset, TypeOK, Manager
    <3>2. Ending(d, s) <=> mgr.id = s
      BY <1>5 DEF Ending, Firing
    <3>3. ByCallbacks' = ByCallbacks + One(mgr.id = s)
      <4>1. ByCallbacks' + One(Ending(callback[c], s)) = ByCallbacks + One(Ending(d, s))
        BY <3>1, <1>8
      <4> QED
        BY <2>1, <3>2, <4>1, <1>1 DEF One
    <3> QED
      BY <2>1, <3>1, <3>3, <1>1, <1>2, <1>5 DEF One, NoId
  <2>3. CASE ~active \/ mgr.closed
    <3>1. ByCallbacks' = ByCallbacks /\ mgr' = mgr
      BY <1>11, <2>1, <2>3, <1>1, <1>8 DEF Rollover, Ending, NotFired, One
    <3> QED
      BY <2>1, <3>1, <1>2
  <2> QED
    BY <2>2, <2>3
<1>12. ASSUME NEW c \in Callback, CallbackSubmitsEnd(c)
       PROVE  One(mgr'.id = s) + ByThreads' + ByCallbacks' + ends'[s] = One(s <= started')
  <2>1. ByCallbacks' + One(callback[c].session = s) = ByCallbacks
    <3>1. callback' = [callback EXCEPT ![c] = NotFired] /\ callback[c].pc = "submitting"
      BY <1>12 DEF CallbackSubmitsEnd
    <3>2. /\ One(Ending(callback[c], s)) = One(callback[c].session = s)
          /\ One(Ending(NotFired, s)) = 0
      BY <3>1 DEF One, Ending, NotFired
    <3>3. ByCallbacks' + One(Ending(callback[c], s)) = ByCallbacks + One(Ending(NotFired, s))
      BY <3>1, <1>8
    <3> QED
      BY <3>2, <3>3, <1>1
  <2>2. ByThreads' = ByThreads /\ UNCHANGED <<mgr, started>>
    BY <1>12, <1>4 DEF CallbackSubmitsEnd
  <2>3. ends'[s] = ends[s] + One(callback[c].session = s)
    BY <1>12, <1>5 DEF CallbackSubmitsEnd, SubmitEnd, One
  <2>4. One(callback[c].session = s) \in Nat /\ One(mgr.id = s) \in Nat
    BY DEF One
  <2>5. One(mgr.id = s) + ByThreads' + ByCallbacks' + ends'[s] = One(s <= started)
    BY <2>1, <2>2, <2>3, <2>4, <1>1, <1>2, <1>5
  <2> QED
    BY <2>2, <2>5
<1>13. CASE UNCHANGED vars
  BY <1>13, <1>2, <1>4 DEF vars
<1> QED
  BY <1>9, <1>10, <1>11, <1>12, <1>13 DEF Next

(* A started session is current, or its end is in the hands of one thread  *)
(* or callback, or was submitted once: never twice and never lost, however *)
(* many threads close and timers fire (session.py:276-320, 405-415).       *)
THEOREM OneEndPerSessionHolds == Spec => []OneEndPerSession
<1>1. (TypeOK /\ Handed) /\ [Next]_vars => (TypeOK /\ Handed)'
  BY NextTypeOK, NextHanded
<1>2. Init => TypeOK /\ Handed
  BY InitIInv, InitHanded DEF IInv
<1>3. TypeOK /\ Handed => OneEndPerSession
  BY HandedIsOneEnd
<1> QED
  BY <1>1, <1>2, <1>3, PTL DEF Spec

=============================================================================
