--------------------------- MODULE MCPrizeLifecycle ---------------------------
(* Small instances of PrizeLifecycle for TLC.                              *)
EXTENDS PrizeLifecycle, TLC

\* Threads, and prizes, are interchangeable in every safety property.
Symmetry == Permutations(Thread) \cup Permutations(Prize)
=============================================================================
