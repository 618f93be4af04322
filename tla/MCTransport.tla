----------------------------- MODULE MCTransport -----------------------------
(* Instances of Transport for TLC: caps scaled down so that a handful of   *)
(* captures crosses every one of them.                                     *)
EXTENDS Transport, TLC

CONSTANTS c1, c2, c3

TwoCalls == {c1, c2}
ThreeCalls == {c1, c2, c3}

(* The activations are interchangeable. *)
CallSymmetry == Permutations(Call)

(* One event in two is over the single-event cap of 2, or fills a batch. *)
SmallAndLarge == {1, 2, 3}
SmallOnly == {1, 2}

=============================================================================
