----------------------------- MODULE MCPySession -----------------------------
(* Instances of PySession for TLC.                                         *)
EXTENDS PySession

CONSTANTS t1, t2, k1, k2, k3

TwoThreads == {t1, t2}
ThreeCallbacks == {k1, k2, k3}

=============================================================================
