----------------------------- MODULE MCSession -----------------------------
(* Instances of Session for TLC. *)
EXTENDS Session

CONSTANTS u1, u2, c1, c2

OneUser == {u1}
TwoUsers == {u1, u2}
NoClosers == {}
OneCloser == {c1}
TwoClosers == {c1, c2}

=============================================================================
