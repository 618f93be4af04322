--------------------------- MODULE SessionProofs ---------------------------
(***************************************************************************)
(* Machine-checked proofs about Session, for every length of the timers    *)
(* and of the flush interval, every lateness of timers, with and without   *)
(* sessionStorage, and every number of concurrent end() calls.             *)
(*                                                                         *)
(* IInv says what the manager's fields may be (MgrInv), what the blob may  *)
(* be and how it follows the manager (BlobInv), and which identity waits.  *)
(***************************************************************************)
EXTENDS Session, TLAPS

ManagerActive(m) == m.state = "active" /\ m.id # NoId

(* The fields of the manager, at time t with n sessions minted. *)
MgrInv(m, t, n) ==
  /\ m \in Manager
  /\ m.id <= n
  /\ m.state = "idle" <=> m.id = NoId
  /\ m.code \in {NoId, m.id}
  /\ ManagerActive(m) =>
       /\ 0 <= m.startedAt /\ m.startedAt <= t
       /\ m.lastActivity <= t
       /\ m.inactivityAt >= m.lastActivity + INACTIVITY
       /\ m.maxDurationAt >= m.startedAt + MAX_DURATION
       /\ m.maxDurationAt <= m.startedAt + 2 * MAX_DURATION
       /\ t <= m.maxDurationAt + Lateness
  /\ m.id # NoId => 0 <= m.startedAt /\ m.startedAt <= t /\ m.lastActivity <= t

(* The blob, against the manager's fields. *)
BlobInv(b, m, t, n) ==
  /\ b \in Blob
  /\ b.id <= n
  /\ b.code \in {NoId, b.id}
  /\ b.id = NoId => b = NoBlob
  /\ b.id # NoId => 0 <= b.startedAt /\ b.startedAt <= t /\ b.lastActivityAt <= t
  /\ ~HasStorage => b = NoBlob
  /\ HasStorage /\ ~WritesMayThrow /\ ManagerActive(m) =>
       /\ b.id = m.id
       /\ b.startedAt = m.startedAt
       /\ b.lastActivityAt = m.lastFlushed
       /\ m.lastActivity - m.lastFlushed < FLUSH_INTERVAL

(* What is left of the invariant: identity and the network's bookkeeping. *)
RestInv ==
  /\ {identity, pending} \subseteq User \cup {NoUser}
  /\ pending # NoUser => pending = identity /\ mgr.id = NoId
  /\ closers \in [Closer -> [id : Nat, timed : BOOLEAN]]
  /\ starting \in [Id -> Nat]
  /\ now \in Nat
  /\ minted \in 0..MaxSessions
  /\ ended \subseteq 1..minted

IInv ==
  /\ MgrInv(mgr, now, minted)
  /\ BlobInv(stored, mgr, now, minted)
  /\ RestInv

-----------------------------------------------------------------------------
LEMMA Bounds ==
  /\ INACTIVITY \in Nat /\ INACTIVITY >= 1
  /\ MAX_DURATION \in Nat /\ MAX_DURATION >= 1
  /\ FLUSH_INTERVAL \in Nat /\ FLUSH_INTERVAL >= 1
  /\ Lateness \in Nat /\ MaxSessions \in Nat /\ MaxStarts \in Nat
BY SessionAssumption

(* flushStoredSession() on fields that are well formed, whether the write  *)
(* succeeds or not.                                                        *)
LEMMA PersistPreserves ==
  ASSUME NEW m, NEW t \in Nat, NEW n \in Nat,
         MgrInv(m, t, n), BlobInv(stored, [m EXCEPT !.state = "idle"], t, n), Persist(m)
  PROVE  /\ MgrInv(mgr', t, n) /\ BlobInv(stored', mgr', t, n)
         /\ mgr'.id = m.id /\ mgr'.state = m.state
<1>1. m \in Manager
  BY DEF MgrInv
<1>2. CASE /\ HasStorage /\ m.id # NoId /\ stored' = BlobOf(m)
           /\ mgr' = [m EXCEPT !.lastFlushed = m.lastActivity]
  <2> DEFINE f == [m EXCEPT !.lastFlushed = m.lastActivity]
  <2>1. /\ f \in Manager /\ f.state = m.state /\ f.id = m.id /\ f.code = m.code
        /\ f.startedAt = m.startedAt /\ f.lastActivity = m.lastActivity
        /\ f.lastFlushed = m.lastActivity
        /\ f.inactivityAt = m.inactivityAt /\ f.maxDurationAt = m.maxDurationAt
    BY <1>1 DEF Manager
  <2> HIDE DEF f
  <2>2. MgrInv(f, t, n)
    BY <2>1 DEF MgrInv, ManagerActive
  <2>3. BlobInv(BlobOf(m), f, t, n)
    <3> DEFINE b == BlobOf(m)
    <3>1. /\ b.id = m.id /\ b.code = m.code /\ b.startedAt = m.startedAt
          /\ b.lastActivityAt = m.lastActivity
      BY DEF BlobOf
    <3>2. b \in Blob /\ m.lastActivity \in Int
      BY <1>1 DEF BlobOf, Blob, Manager
    <3>3. m.lastActivity - m.lastActivity < FLUSH_INTERVAL
      BY <3>2, Bounds
    <3> HIDE DEF b
    <3> QED BY <1>2, <2>1, <3>1, <3>2, <3>3 DEF BlobInv, MgrInv, b
  <2> QED BY <1>2, <2>1, <2>2, <2>3 DEF f
<1>3. CASE /\ ~HasStorage \/ m.id = NoId \/ WritesMayThrow
           /\ mgr' = m /\ stored' = stored
  BY <1>3 DEF BlobInv, ManagerActive
<1> QED BY <1>2, <1>3 DEF Persist

(* What BlobInv says of the blob alone does not depend on the manager. *)
LEMMA BlobAlone ==
  ASSUME NEW b, NEW m, NEW k, NEW t \in Nat, NEW n \in Nat, BlobInv(b, m, t, n),
         ~ManagerActive(k)
  PROVE  BlobInv(b, k, t, n)
BY DEF BlobInv

LEMMA NoBlobInv ==
  ASSUME NEW k, ~ManagerActive(k), NEW t \in Nat, NEW n \in Nat
  PROVE  BlobInv(NoBlob, k, t, n)
BY DEF BlobInv, NoBlob, Blob, NoId, Never

LEMMA IdleInv ==
  ASSUME NEW t \in Nat, NEW n \in Nat
  PROVE  MgrInv(IdleManager, t, n) /\ ~ManagerActive(IdleManager) /\ IdleManager.id = NoId
BY DEF MgrInv, ManagerActive, IdleManager, Manager, NoId, Never

LEMMA InitInv == Init => IInv
<1> SUFFICES ASSUME Init PROVE IInv
  OBVIOUS
<1>1. now \in Nat /\ minted \in Nat
  BY DEF Init
<1>2. MgrInv(mgr, now, minted) /\ BlobInv(stored, mgr, now, minted) /\ mgr.id = NoId
  BY <1>1, IdleInv, NoBlobInv DEF Init
<1>3. RestInv
  BY <1>2, Bounds DEF Init, RestInv, NoCloser, NoId
<1> QED BY <1>2, <1>3 DEF IInv

(* startNewSession(), from capture() or restart(), once the old session's  *)
(* end is accounted for.                                                   *)
LEMMA StartPreserves ==
  ASSUME IInv, StartNewSession, ended' \subseteq 1..minted,
         UNCHANGED <<identity, closers, now>>
  PROVE  IInv'
<1>1. /\ now \in Nat /\ minted \in Nat /\ minted < MaxSessions
      /\ minted' = minted + 1 /\ minted' \in Nat /\ minted' \in 0..MaxSessions
      /\ starting \in [Id -> Nat]
  BY Bounds DEF IInv, RestInv, StartNewSession
<1> DEFINE m == Started(minted + 1)
<1>2. /\ m.state = "active" /\ m.id = minted + 1 /\ m.code = NoId
      /\ m.startedAt = now /\ m.lastActivity = now /\ m.lastFlushed = Never
      /\ m.inactivityAt = now + INACTIVITY /\ m.maxDurationAt = now + MAX_DURATION
      /\ m \in Manager
  BY <1>1, Bounds DEF Started, Manager, NoId, Never
<1> HIDE DEF m
<1>3. MgrInv(m, now, minted + 1)
  BY <1>1, <1>2, Bounds DEF MgrInv, ManagerActive, NoId
<1>4. BlobInv(stored, [m EXCEPT !.state = "idle"], now, minted + 1)
  <2>1. ~ManagerActive([m EXCEPT !.state = "idle"])
    BY <1>2 DEF ManagerActive, Manager
  <2>2. BlobInv(stored, mgr, now, minted + 1)
    <3>1. BlobInv(stored, mgr, now, minted) /\ stored.id \in Nat
      BY DEF IInv, BlobInv, Blob
    <3> QED BY <1>1, <3>1 DEF BlobInv
  <2> QED BY <1>1, <2>1, <2>2, BlobAlone
<1>5. /\ MgrInv(mgr', now, minted + 1) /\ BlobInv(stored', mgr', now, minted + 1)
      /\ mgr'.id = minted + 1 /\ mgr'.state = "active"
  BY <1>1, <1>2, <1>3, <1>4, PersistPreserves DEF StartNewSession, m
<1>6. RestInv'
  <2>1. starting' \in [Id -> Nat] /\ pending' = NoUser
    <3>1. minted + 1 \in Id /\ pending' = NoUser
      BY <1>1, Bounds DEF Id, StartNewSession
    <3>2. starting' = [starting EXCEPT ![minted + 1] = starting[minted + 1] + 1]
      BY DEF StartNewSession, PostStart
    <3>3. starting[minted + 1] + 1 \in Nat
      BY <1>1, <3>1
    <3> QED BY <1>1, <3>1, <3>2, <3>3
  <2> QED BY <1>1, <2>1 DEF IInv, RestInv
<1> QED BY <1>1, <1>5, <1>6 DEF IInv

(* Steps that leave the manager idle or ending, and empty the blob. *)
LEMMA ForgetPreserves ==
  ASSUME IInv, MgrInv(mgr', now, minted), ~ManagerActive(mgr'),
         stored' \in {stored, NoBlob}, ended' \subseteq 1..minted,
         mgr'.id = NoId \/ mgr'.id = mgr.id,
         closers' \in [Closer -> [id : Nat, timed : BOOLEAN]],
         UNCHANGED <<identity, pending, starting, now, minted>>
  PROVE  IInv'
<1>1. now \in Nat /\ minted \in Nat
  BY Bounds DEF IInv, RestInv
<1>2. BlobInv(stored', mgr', now, minted)
  BY <1>1, BlobAlone, NoBlobInv DEF IInv
<1>3. RestInv'
  BY DEF IInv, RestInv
<1> QED BY <1>2, <1>3 DEF IInv, ManagerActive

LEMMA NextInv == IInv /\ [Next]_vars => IInv'
<1> SUFFICES ASSUME IInv, [Next]_vars PROVE IInv'
  OBVIOUS
<1>0. /\ now \in Nat /\ minted \in Nat /\ ended \subseteq 1..minted
      /\ MgrInv(mgr, now, minted) /\ BlobInv(stored, mgr, now, minted)
      /\ mgr \in Manager /\ mgr.id \in Nat /\ mgr.id <= minted
      /\ closers \in [Closer -> [id : Nat, timed : BOOLEAN]]
      /\ starting \in [Id -> Nat]
  BY Bounds DEF IInv, RestInv, MgrInv, Manager
<1>1. PostEnds({mgr.id}) => ended' \subseteq 1..minted
  <2>1. mgr.id # NoId => mgr.id \in 1..minted
    BY <1>0 DEF NoId
  <2> QED BY <1>0, <2>1 DEF PostEnds
<1>2. CASE Capture
  <2>1. CASE Active /\ NoteActivity /\ UNCHANGED <<pending, starting, minted>>
    <3> DEFINE due == now + INACTIVITY
               m == [mgr EXCEPT !.lastActivity = now, !.inactivityAt = due]
    <3>0. due \in Int
      BY <1>0, Bounds
    <3>2. \/ FlushDue /\ Persist(m)
          \/ ~FlushDue /\ mgr' = m /\ stored' = stored
      BY <2>1 DEF NoteActivity
    <3> HIDE DEF due
    <3>1. /\ m \in Manager /\ m.state = mgr.state /\ m.id = mgr.id /\ m.code = mgr.code
          /\ m.startedAt = mgr.startedAt /\ m.lastActivity = now
          /\ m.lastFlushed = mgr.lastFlushed
          /\ m.inactivityAt = due /\ m.maxDurationAt = mgr.maxDurationAt
      <4>1. mgr \in Manager /\ now \in Int
        BY <1>0
      <4> QED BY <3>0, <4>1 DEF Manager
    <3> HIDE DEF m
    <3>3. MgrInv(m, now, minted)
      BY <1>0, <3>1, Bounds DEF MgrInv, ManagerActive, due
    <3>4. /\ MgrInv(mgr', now, minted) /\ BlobInv(stored', mgr', now, minted)
          /\ mgr'.id = mgr.id /\ mgr'.state = mgr.state
      <4>1. CASE FlushDue /\ Persist(m)
        <5>1. ~ManagerActive([m EXCEPT !.state = "idle"])
          BY <3>1 DEF ManagerActive, Manager
        <5>2. BlobInv(stored, [m EXCEPT !.state = "idle"], now, minted)
          BY <1>0, <5>1, BlobAlone
        <5> QED BY <1>0, <3>1, <3>3, <4>1, <5>2, PersistPreserves
      <4>2. CASE ~FlushDue /\ mgr' = m /\ stored' = stored
        <5>1. now - m.lastFlushed < FLUSH_INTERVAL /\ mgr.lastFlushed \in Int
          BY <1>0, <3>1, <4>2, Bounds DEF FlushDue, Manager
        <5>2. BlobInv(stored, m, now, minted)
          BY <1>0, <3>1, <5>1 DEF BlobInv, ManagerActive
        <5> QED BY <3>1, <3>3, <4>2, <5>2
      <4> QED BY <3>2, <4>1, <4>2
    <3>5. UNCHANGED <<identity, closers, now, ended, pending, starting, minted>>
      BY <1>2, <2>1 DEF Capture
    <3>6. RestInv'
      BY <3>4, <3>5 DEF IInv, RestInv
    <3> QED BY <3>4, <3>5, <3>6 DEF IInv
  <2>2. CASE StartNewSession
    BY <1>0, <1>2, <2>2, StartPreserves DEF Capture
  <2> QED BY <1>2, <2>1, <2>2 DEF Capture
<1>3. CASE Restart
  BY <1>1, <1>3, StartPreserves DEF Restart
<1>4. ASSUME NEW c \in Closer, End(c) \/ Shutdown(c)
      PROVE  IInv'
  <2>1. /\ Current /\ PostEnds({mgr.id}) /\ stored' = NoBlob
        /\ UNCHANGED <<identity, pending, starting, now, minted>>
        /\ \E timed \in BOOLEAN : closers' = [closers EXCEPT ![c] = [id |-> mgr.id, timed |-> timed]]
    BY <1>4 DEF End, Shutdown, Closing
  <2>2. closers' \in [Closer -> [id : Nat, timed : BOOLEAN]]
    BY <1>0, <2>1
  <2>3. /\ mgr'.state = "ending" /\ mgr'.id = mgr.id /\ mgr'.code = mgr.code
        /\ mgr'.startedAt = mgr.startedAt /\ mgr'.lastActivity = mgr.lastActivity
        /\ mgr' \in Manager
    <3>1. mgr \in Manager /\ Never \in Int
      BY <1>0 DEF Never
    <3>2. \A m : m \in {Ending(mgr), [Ending(mgr) EXCEPT !.lastFlushed = mgr.lastActivity]} =>
                   /\ m.state = "ending" /\ m.id = mgr.id /\ m.code = mgr.code
                   /\ m.startedAt = mgr.startedAt /\ m.lastActivity = mgr.lastActivity
                   /\ m \in Manager
      <4>1. /\ Ending(mgr).state = "ending" /\ Ending(mgr).id = mgr.id
            /\ Ending(mgr).code = mgr.code /\ Ending(mgr).startedAt = mgr.startedAt
            /\ Ending(mgr).lastActivity = mgr.lastActivity
            /\ Ending(mgr) \in Manager
        BY <3>1 DEF Ending, Manager
      <4>2. mgr.lastActivity \in Int
        BY <3>1 DEF Manager
      <4> QED BY <4>1, <4>2 DEF Manager
    <3>3. mgr' \in {Ending(mgr), [Ending(mgr) EXCEPT !.lastFlushed = mgr.lastActivity]}
      BY <1>4 DEF End, Shutdown
    <3> QED BY <3>2, <3>3
  <2>4. MgrInv(mgr', now, minted) /\ ~ManagerActive(mgr')
    BY <1>0, <2>1, <2>3 DEF MgrInv, ManagerActive, Current
  <2> QED BY <1>1, <2>1, <2>2, <2>3, <2>4, ForgetPreserves
<1>5. ASSUME NEW c \in Closer, CloseReturns(c)
      PROVE  IInv'
  <2>1. /\ mgr' = Closed(mgr) /\ closers' = [closers EXCEPT ![c] = NoCloser]
        /\ UNCHANGED <<stored, identity, pending, starting, now, minted, ended>>
    BY <1>5 DEF CloseReturns
  <2>2. closers' \in [Closer -> [id : Nat, timed : BOOLEAN]]
    BY <1>0, <2>1 DEF NoCloser, NoId
  <2>3. MgrInv(mgr', now, minted) /\ ~ManagerActive(mgr') /\ mgr'.id = NoId
    <3> DEFINE m == Closed(mgr)
    <3>1. /\ m.state = "idle" /\ m.id = NoId /\ m.code = NoId /\ m \in Manager
      <4>1. mgr.inactivityAt \in Int /\ mgr.maxDurationAt \in Int
        BY <1>0 DEF Manager
      <4>2. /\ IdleManager \in Manager
            /\ IdleManager.state = "idle" /\ IdleManager.id = NoId /\ IdleManager.code = NoId
        BY DEF IdleManager, Manager, NoId, Never
      <4> QED BY <4>1, <4>2 DEF Closed, Manager
    <3>2. NoId <= minted
      BY <1>0 DEF NoId
    <3> HIDE DEF m
    <3>3. MgrInv(m, now, minted) /\ ~ManagerActive(m)
      BY <3>1, <3>2 DEF MgrInv, ManagerActive
    <3> QED BY <2>1, <3>1, <3>3 DEF m
  <2> QED BY <1>0, <2>1, <2>2, <2>3, ForgetPreserves
<1>6. CASE Rollover
  <2>1. /\ mgr' = IdleManager /\ stored' = NoBlob /\ PostEnds({mgr.id})
        /\ UNCHANGED <<identity, pending, closers, starting, now, minted>>
    BY <1>6 DEF Rollover, network
  <2>2. MgrInv(mgr', now, minted) /\ ~ManagerActive(mgr') /\ mgr'.id = NoId
    BY <1>0, <2>1, IdleInv
  <2> QED BY <1>0, <1>1, <2>1, <2>2, ForgetPreserves
<1>7. ASSUME NEW i \in Id, StartAccepted(i) \/ StartUnusable(i)
      PROVE  IInv'
  <2>1. /\ UNCHANGED <<identity, pending, closers, now, minted, ended>>
        /\ starting[i] > 0 /\ starting' = [starting EXCEPT ![i] = @ - 1]
    BY <1>7 DEF StartAccepted, StartUnusable, Answered
  <2>2. starting' \in [Id -> Nat]
    <3>1. starting[i] - 1 \in Nat
      BY <1>0, <2>1
    <3> QED BY <1>0, <2>1, <3>1
  <2>3. /\ MgrInv(mgr', now, minted) /\ BlobInv(stored', mgr', now, minted)
        /\ mgr'.id = mgr.id /\ mgr'.state = mgr.state
    <3>1. CASE UNCHANGED <<mgr, stored>>
      BY <1>0, <3>1
    <3>2. CASE mgr.id = i /\ Persist([mgr EXCEPT !.code = i])
      <4> DEFINE m == [mgr EXCEPT !.code = i]
      <4>1. /\ m \in Manager /\ m.state = mgr.state /\ m.id = mgr.id /\ m.code = m.id
            /\ m.startedAt = mgr.startedAt /\ m.lastActivity = mgr.lastActivity
            /\ m.lastFlushed = mgr.lastFlushed
            /\ m.inactivityAt = mgr.inactivityAt /\ m.maxDurationAt = mgr.maxDurationAt
        BY <1>0, <3>2 DEF Manager
      <4>2. Persist(m)
        BY <3>2
      <4> HIDE DEF m
      <4>3. MgrInv(m, now, minted)
        BY <1>0, <4>1 DEF MgrInv, ManagerActive
      <4>4. ~ManagerActive([m EXCEPT !.state = "idle"])
        BY <4>1 DEF ManagerActive, Manager
      <4>5. BlobInv(stored, [m EXCEPT !.state = "idle"], now, minted)
        BY <1>0, <4>4, BlobAlone
      <4> QED BY <1>0, <4>1, <4>2, <4>3, <4>5, PersistPreserves
    <3> QED BY <1>7, <3>1, <3>2 DEF StartAccepted, StartUnusable
  <2>4. RestInv'
    BY <2>1, <2>2, <2>3 DEF IInv, RestInv
  <2> QED BY <2>1, <2>3, <2>4 DEF IInv
<1>8. CASE IssueStart
  <2>1. /\ UNCHANGED <<mgr, stored, identity, pending, closers, now, minted, ended>>
        /\ mgr.id # NoId /\ PostStart(mgr.id)
    BY <1>8 DEF IssueStart, Current
  <2>2. mgr.id \in Id
    BY <1>0, <2>1, Bounds DEF IInv, RestInv, Id, NoId
  <2>3. starting' \in [Id -> Nat]
    <3>1. starting[mgr.id] + 1 \in Nat
      BY <1>0, <2>2
    <3> QED BY <1>0, <2>1, <2>2, <3>1 DEF PostStart
  <2> QED BY <2>1, <2>3 DEF IInv, RestInv
<1>9. CASE ClearIdentity \/ \E u \in User : Identify(u)
  <2>1. UNCHANGED <<mgr, stored, closers, starting, now, minted, ended>>
    BY <1>9 DEF ClearIdentity, Identify, network
  <2>2. /\ {identity', pending'} \subseteq User \cup {NoUser}
        /\ pending' # NoUser => pending' = identity' /\ mgr.id = NoId
    BY <1>9 DEF ClearIdentity, Identify, Current, IInv, RestInv
  <2> QED BY <2>1, <2>2 DEF IInv, RestInv
<1>10. CASE Reload
  <2>1. UNCHANGED <<now, minted, ended>> /\ pending' = NoUser /\ identity' = NoUser
    BY <1>10 DEF Reload
  <2>2. RestInv'
    <3>1. /\ closers' \in [Closer -> [id : Nat, timed : BOOLEAN]]
          /\ starting' \in [Id -> Nat]
      BY <1>10 DEF Reload, NoCloser, NoId
    <3> QED BY <2>1, <3>1 DEF IInv, RestInv
  <2>3. CASE ~Restorable(stored)
    <3>1. mgr' = IdleManager /\ stored' = NoBlob
      BY <1>10, <2>3 DEF Reload
    <3> QED BY <1>0, <2>1, <2>2, <3>1, IdleInv, NoBlobInv
            DEF IInv, ManagerActive
  <2>4. CASE Restorable(stored)
    <3> DEFINE m == Restored(stored)
    <3>1. /\ m.state = "active" /\ m.id = stored.id /\ m.code = stored.code
          /\ m.startedAt = stored.startedAt /\ m.lastActivity = stored.lastActivityAt
          /\ m.lastFlushed = stored.lastActivityAt
          /\ m.inactivityAt = now + INACTIVITY /\ m.maxDurationAt = now + MAX_DURATION
      BY DEF Restored
    <3>2. /\ stored.id \in Nat /\ stored.id # NoId /\ stored.id <= minted
          /\ stored.code \in {NoId, stored.id} /\ stored.code \in Nat
          /\ stored.startedAt \in Int /\ stored.lastActivityAt \in Int
          /\ 0 <= stored.startedAt /\ stored.startedAt <= now
          /\ stored.lastActivityAt <= now
          /\ now - stored.startedAt <= MAX_DURATION
          /\ HasStorage
      BY <1>0, <2>4, Bounds DEF BlobInv, Blob, Restorable, Expired
    <3>3. m \in Manager
      <4>1. now + INACTIVITY \in Int /\ now + MAX_DURATION \in Int
        BY <1>0, Bounds
      <4> QED BY <3>2, <4>1 DEF Restored, Manager
    <3>4. mgr' = m /\ stored' = stored
      BY <1>10, <2>4 DEF Reload
    <3> HIDE DEF m
    <3>5. MgrInv(m, now, minted)
      BY <1>0, <3>1, <3>2, <3>3, Bounds DEF MgrInv, ManagerActive
    <3>6. BlobInv(stored, m, now, minted)
      <4>1. m.lastActivity - m.lastFlushed < FLUSH_INTERVAL
        BY <3>1, <3>2, Bounds
      <4> QED BY <1>0, <3>1, <3>2, <4>1 DEF BlobInv
    <3> QED BY <2>1, <2>2, <3>2, <3>4, <3>5, <3>6 DEF IInv
  <2> QED BY <2>3, <2>4
<1>11. CASE Tick
  <2>1. /\ now' = now + 1 /\ now' \in Nat
        /\ UNCHANGED <<mgr, stored, identity, pending, closers, starting, minted, ended>>
        /\ mgr.maxDurationAt # Never => now < mgr.maxDurationAt + Lateness
    BY <1>0, <1>11 DEF Tick, network
  <2>2. MgrInv(mgr, now + 1, minted)
    <3>1. ASSUME ManagerActive(mgr)
          PROVE  now + 1 <= mgr.maxDurationAt + Lateness
      <4>1. mgr.maxDurationAt \in Int /\ mgr.maxDurationAt >= 0
        BY <1>0, <3>1, Bounds DEF MgrInv, Manager
      <4>2. now < mgr.maxDurationAt + Lateness
        BY <2>1, <4>1 DEF Never
      <4> QED BY <1>0, <4>1, <4>2, Bounds
    <3>2. mgr.startedAt \in Int /\ mgr.lastActivity \in Int
      BY <1>0 DEF Manager
    <3> QED BY <1>0, <3>1, <3>2 DEF MgrInv
  <2>3. BlobInv(stored, mgr, now + 1, minted)
    <3>1. stored.startedAt \in Int /\ stored.lastActivityAt \in Int
      BY <1>0 DEF BlobInv, Blob
    <3> QED BY <1>0, <3>1 DEF BlobInv
  <2>4. RestInv'
    BY <2>1 DEF IInv, RestInv
  <2>5. MgrInv(mgr', now', minted') /\ BlobInv(stored', mgr', now', minted')
    BY <2>1, <2>2, <2>3
  <2> QED BY <2>1, <2>4, <2>5 DEF IInv
<1>12. CASE UNCHANGED vars
  BY <1>12 DEF vars, network, IInv, RestInv
<1> QED BY <1>2, <1>3, <1>4, <1>5, <1>6, <1>7, <1>8, <1>9, <1>10, <1>11, <1>12
        DEF Next, EndAnswered, EndTimesOut, InactivityTimerFires, MaxDurationTimerFires

LEMMA Invariance == Spec => []IInv
BY InitInv, NextInv, PTL DEF Spec

-----------------------------------------------------------------------------
(* The properties the runs check, for every value of the constants.        *)

(* Every variable has its type. *)
THEOREM TypeCorrect == Spec => []TypeOK
<1>1. IInv => TypeOK
  <2> SUFFICES ASSUME IInv PROVE TypeOK
    OBVIOUS
  <2>1. mgr \in Manager /\ stored \in Blob
    BY DEF IInv, MgrInv, BlobInv
  <2>2. ended \in SUBSET Nat
    BY Bounds DEF IInv, RestInv
  <2> QED BY <2>1, <2>2 DEF IInv, RestInv, TypeOK
<1> QED BY <1>1, Invariance, PTL

(* A support code is shown and stored only with its own session            *)
(* (session.ts:402-416, 432-450, 643-646).                                 *)
THEOREM SupportCodeIsOwnHolds == Spec => []SupportCodeIsOwn
<1>1. IInv => SupportCodeIsOwn
  BY DEF IInv, MgrInv, BlobInv, SupportCodeIsOwn
<1> QED BY <1>1, Invariance, PTL

(* Timers that earlier sessions left armed never roll an active session    *)
(* over before its time (session.ts:359-370, 402-413, 496-531, 657-659).   *)
THEOREM RolloverIsEarnedHolds == Spec => []RolloverIsEarned
<1>1. IInv => RolloverIsEarned
  BY DEF IInv, MgrInv, ManagerActive, RolloverIsEarned, Active, Current
<1> QED BY <1>1, Invariance, PTL

(* While storage works, a reload finds the active session and loses less   *)
(* than one flush interval of its activity                                 *)
(* (session.ts:359-370, 415, 559-660, 662-688).                            *)
THEOREM BlobIsFreshHolds == Spec => []BlobIsFresh
<1>1. IInv => BlobIsFresh
  BY DEF IInv, BlobInv, ManagerActive, BlobIsFresh, Active, Current
<1> QED BY <1>1, Invariance, PTL

(* No start names an identity that was replaced or cleared                 *)
(* (client.ts:473-484, session.ts:373-380, 419-421, 471-492).              *)
THEOREM StartNamesIdentityHolds == Spec => []StartNamesIdentity
<1>1. IInv => StartNamesIdentity
  BY DEF IInv, RestInv, StartNamesIdentity, StartIdentity
<1> QED BY <1>1, Invariance, PTL

(* Reloads at most double a session's life                                 *)
(* (session.ts:507-516, 616-632, 657-659).                                 *)
THEOREM AgeBoundHolds == Spec => []AgeBound
<1>1. IInv => AgeBound
  <2> SUFFICES ASSUME IInv, Active PROVE now - mgr.startedAt <= 2 * MAX_DURATION + Lateness
    BY DEF AgeBound
  <2>1. /\ mgr.startedAt \in Int /\ mgr.maxDurationAt \in Int /\ now \in Nat
        /\ mgr.maxDurationAt <= mgr.startedAt + 2 * MAX_DURATION
        /\ now <= mgr.maxDurationAt + Lateness
    BY DEF IInv, RestInv, MgrInv, Manager, ManagerActive, Active, Current
  <2> QED BY <2>1, Bounds
<1> QED BY <1>1, Invariance, PTL

LEMMA PersistKeeps ==
  ASSUME NEW m \in Manager, Persist(m)
  PROVE  mgr'.id = m.id /\ mgr'.state = m.state
BY DEF Persist, Manager

(* A session whose end was posted takes no more events, unless its blob is *)
(* restored (session.ts:255-317, 402-450, 533-556, 633-659).               *)
THEOREM EndedStaysEndedHolds == Spec => EndedStaysEnded
<1> DEFINE Kept == Active /\ mgr.id = mgr'.id /\ mgr.id \in ended
           Revived == Restorable(stored) /\ mgr' = Restored(stored)
<1>1. IInv /\ [Next]_vars => [Active' /\ mgr'.id \in ended' => Kept \/ Revived]_vars
  <2> SUFFICES ASSUME IInv, Next, Active', mgr'.id \in ended' PROVE Kept \/ Revived
    BY DEF vars
  <2>0. /\ mgr \in Manager /\ minted \in Nat /\ ended \subseteq 1..minted
        /\ mgr.id <= minted
    BY Bounds DEF IInv, RestInv, MgrInv
  <2>1. ASSUME mgr'.id = mgr.id, mgr'.state = mgr.state, ended' = ended
        PROVE  Kept
    BY <2>1 DEF Active, Current
  <2>2. ASSUME StartNewSession, ended' \subseteq 1..minted
        PROVE  FALSE
    <3>1. Started(minted + 1) \in Manager
      <4>1. now \in Nat
        BY DEF IInv, RestInv
      <4> QED BY <2>0, <4>1, Bounds DEF Started, Manager, NoId, Never
    <3>2. mgr'.id = minted + 1
      BY <2>2, <3>1, PersistKeeps DEF StartNewSession, Started
    <3> QED BY <2>0, <2>2, <3>2
  <2>3. CASE Capture
    <3>1. CASE Active /\ NoteActivity
      <4> DEFINE m == [mgr EXCEPT !.lastActivity = now, !.inactivityAt = now + INACTIVITY]
      <4>1. m \in Manager /\ m.id = mgr.id /\ m.state = mgr.state
        <5>1. now \in Int /\ now + INACTIVITY \in Int
          BY Bounds DEF IInv, RestInv
        <5> QED BY <2>0, <5>1 DEF Manager
      <4>2. mgr'.id = mgr.id /\ mgr'.state = mgr.state
        BY <3>1, <4>1, PersistKeeps DEF NoteActivity
      <4> QED BY <2>1, <2>3, <4>2 DEF Capture
    <3> QED BY <2>0, <2>2, <2>3, <3>1 DEF Capture
  <2>4. CASE Restart
    <3>1. mgr.id # NoId => mgr.id \in 1..minted
      BY <2>0 DEF NoId, Manager
    <3> QED BY <2>0, <2>2, <2>4, <3>1 DEF Restart, PostEnds
  <2>5. CASE \E c \in Closer : End(c) \/ Shutdown(c)
    <3>1. Ending(mgr).state = "ending"
          /\ [Ending(mgr) EXCEPT !.lastFlushed = mgr.lastActivity].state = "ending"
      BY <2>0 DEF Ending, Manager
    <3> QED BY <2>5, <3>1 DEF End, Shutdown, Active
  <2>6. CASE \/ \E c \in Closer : CloseReturns(c)
             \/ Rollover
    <3>1. IdleManager.state = "idle" /\ Closed(mgr).state = "idle"
      BY <2>0 DEF Closed, IdleManager, Manager
    <3> QED BY <2>6, <3>1 DEF CloseReturns, Rollover, Active
  <2>7. CASE \E i \in Id : StartAccepted(i) \/ StartUnusable(i)
    <3> PICK i \in Id : StartAccepted(i) \/ StartUnusable(i)
      BY <2>7
    <3>1. [mgr EXCEPT !.code = i] \in Manager
      BY <2>0, Bounds DEF Manager, Id
    <3>2. mgr'.id = mgr.id /\ mgr'.state = mgr.state
      BY <2>0, <3>1, PersistKeeps DEF StartAccepted, StartUnusable, Manager
    <3> QED BY <2>1, <3>2 DEF StartAccepted, StartUnusable, Answered
  <2>8. CASE IssueStart \/ ClearIdentity \/ Tick \/ \E u \in User : Identify(u)
    BY <2>1, <2>8 DEF IssueStart, ClearIdentity, Tick, Identify
  <2>9. CASE Reload
    BY <2>9 DEF Reload, IdleManager, Active
  <2> QED BY <2>3, <2>4, <2>5, <2>6, <2>7, <2>8, <2>9
          DEF Next, EndAnswered, EndTimesOut, InactivityTimerFires, MaxDurationTimerFires
<1> QED BY <1>1, Invariance, PTL DEF Spec, EndedStaysEnded

=============================================================================
