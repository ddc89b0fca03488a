---------------------------- MODULE MCInboxFeed ----------------------------
(***************************************************************************)
(* One tab of one person, with one call that marks as read.                *)
(***************************************************************************)
EXTENDS InboxFeed
=============================================================================
