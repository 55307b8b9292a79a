---------------------------- MODULE MCStudioChat ----------------------------
(* Small instances of StudioChat for TLC.                                  *)
EXTENDS StudioChat

\* Two of the three modes of the tab: their names, and the tools they are sent to.
TwoModes == {"general", "code"}

TwoSlugs == [m \in TwoModes |-> IF m = "code" THEN "code-helper" ELSE m]
==============================================================================
