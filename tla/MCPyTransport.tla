---------------------------- MODULE MCPyTransport ----------------------------
(* Instances of PyTransport for TLC: caps scaled down so that a handful of *)
(* events crosses each of them.                                            *)
EXTENDS PyTransport

CONSTANTS c1, c2

TwoCalls == {c1, c2}

(* The second fills a batch of 3 bytes, the third is too large for it. *)
Sizes == {1, 3, 4}

=============================================================================
