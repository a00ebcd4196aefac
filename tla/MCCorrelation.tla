--------------------------- MODULE MCCorrelation ---------------------------
(* Small instances of Correlation for TLC.  Workers and sessions are
   interchangeable. *)
EXTENDS Correlation, TLC

MCSymmetry == Permutations(Worker) \cup Permutations(Session)
=============================================================================
