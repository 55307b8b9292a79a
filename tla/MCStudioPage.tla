---------------------------- MODULE MCStudioPage ----------------------------
(* Small instances of StudioPage for TLC.                                  *)
EXTENDS StudioPage

OneBalance == {4}

\* The tool that is paid for is locked once the wallet paid for it.
EntryPoints == [k \in PageTools |-> IF k = "paid" THEN 3 ELSE 0]
==============================================================================
