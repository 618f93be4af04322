---------------------------- MODULE MCReplayPages ----------------------------
(* An instance of Replay for TLC that remembers the pages before a reload, *)
(* as the server does.                                                     *)
EXTENDS MCReplay

VARIABLE kept               \* the keys the server has from earlier pages

PagesInit == Init /\ kept = {}

PagesNext == Next /\ kept' = IF reloads' = reloads THEN kept ELSE kept \cup fate.durable

PagesSpec == PagesInit /\ [][PagesNext]_<<vars, kept>>

(* Sequence numbers continue within a session, "otherwise a later span     *)
(* reuses 0, 1, ... and overwrites the earlier recording", as a comment    *)
(* says, and is "reset only when the session itself changes"               *)
(* (recorder.ts:139-143).  The code does not keep to it: the mark is in    *)
(* memory, and a session outlives a reload of the page.                    *)
SequenceContinues == cut \cap kept = {}

=============================================================================
