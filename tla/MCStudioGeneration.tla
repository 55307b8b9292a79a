-------------------------- MODULE MCStudioGeneration --------------------------
(* Small instances of StudioGeneration for TLC.                            *)
EXTENDS StudioGeneration

\* Enough for one generation, or for both.
TwoBalances == {2, 4}
==============================================================================
