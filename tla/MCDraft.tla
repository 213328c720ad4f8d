------------------------------ MODULE MCDraft ------------------------------
(***************************************************************************)
(* Draft on small instances.                                               *)
(***************************************************************************)
EXTENDS Draft, TLC

Symmetric == Permutations(Tabs)
=============================================================================
