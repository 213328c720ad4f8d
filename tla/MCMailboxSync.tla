---------------------------- MODULE MCMailboxSync ----------------------------
(***************************************************************************)
(* MailboxSync on small instances.                                         *)
(***************************************************************************)
EXTENDS MailboxSync
=============================================================================
