----------------------------- MODULE MCOutgoing -----------------------------
(***************************************************************************)
(* OutgoingMessage on small instances, against what AtMostOnceSend         *)
(* promises and against its inductive invariant.                           *)
(***************************************************************************)
EXTENDS OutgoingInvariant, TLC

Symmetric == Permutations(Messages) \cup Permutations(Workers)
=============================================================================
