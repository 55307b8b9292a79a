---------------------------- MODULE MCVtuRecharge ----------------------------
(* Small instances of VtuRecharge for TLC.                                 *)
EXTENDS VtuRecharge

\* Two questions: one that may be repeated and the last.
TwoTries == 2
==============================================================================
