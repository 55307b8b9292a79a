---------------------------- MODULE MCStudioForms ----------------------------
(* Small instances of StudioForms for TLC.                                 *)
EXTENDS StudioForms, TLC

\* No file is told apart from another.
AnyFile == Permutations(File)
==============================================================================
