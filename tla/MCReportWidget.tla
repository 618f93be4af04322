--------------------------- MODULE MCReportWidget ---------------------------
(* Instances of ReportWidget for TLC.                                      *)
EXTENDS ReportWidget, TLC

CONSTANTS h1, h2, h3

ThreeHandlers == {h1, h2, h3}

(* The handlers are interchangeable, and no run with it checks liveness. *)
HandlerSymmetry == Permutations(ThreeHandlers)

=============================================================================
