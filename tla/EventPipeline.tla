---------------------------- MODULE EventPipeline ----------------------------
(***************************************************************************)
(* What the event transport promises, without queues, batches' bytes,      *)
(* timers or retries.                                                      *)
(*                                                                         *)
(* Accepted events are numbered 1, 2, ... in the order `capture` accepted  *)
(* them.  The pipeline takes them out of the queue in that order, a run of *)
(* at most MaxBatch at a time, works on one run at a time, and settles the *)
(* whole run with one verdict: delivered, or lost.  Nothing is skipped,    *)
(* nothing is settled twice, and no run overtakes another.                 *)
(***************************************************************************)
EXTENDS Integers

CONSTANT MaxBatch           \* the most events one run may hold

VARIABLES
  accepted,                 \* number of events accepted so far
  taken,                    \* events 1..taken have left the queue
  settled,                  \* events 1..settled have a verdict
  delivered                 \* the events whose verdict is "delivered"

vars == <<accepted, taken, settled, delivered>>

TypeOK ==
  /\ accepted \in Nat
  /\ taken \in Nat
  /\ settled \in Nat
  /\ delivered \in SUBSET (1..settled)

Init ==
  /\ accepted = 0
  /\ taken = 0
  /\ settled = 0
  /\ delivered = {}

(* `upTo` is the number of events accepted once the step is over, since the *)
(* event that fills a batch is accepted and shipped in one step.            *)
Ship(upTo) ==
  /\ taken = settled
  /\ taken' \in taken + 1 .. taken + MaxBatch
  /\ taken' <= upTo
  /\ UNCHANGED <<settled, delivered>>

Accept ==
  /\ accepted' = accepted + 1
  /\ \/ UNCHANGED <<taken, settled, delivered>>
     \/ Ship(accepted + 1)

ShipQueued ==
  /\ Ship(accepted)
  /\ UNCHANGED accepted

Settle ==
  /\ settled < taken
  /\ settled' = taken
  /\ delivered' \in {delivered, delivered \cup (settled + 1 .. taken)}
  /\ UNCHANGED <<accepted, taken>>

Next == Accept \/ ShipQueued \/ Settle

Spec == Init /\ [][Next]_vars

=============================================================================
