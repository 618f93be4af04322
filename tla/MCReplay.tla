------------------------------ MODULE MCReplay ------------------------------
(* Instances of Replay for TLC.                                            *)
EXTENDS Replay, TLC

CONSTANTS s1, s2

TwoSubmitters == {s1, s2}

(* Calls of submit() are alike. *)
SubmitSymmetry == Permutations(TwoSubmitters)

AnyMode == {"auto", "manual", "review"}
ReviewOnly == {"review"}

(* An event that fills a chunk, one that does not, and one over the cap.   *)
SmallEvents == {1, 2, 4}

OneSize == {2}

=============================================================================
