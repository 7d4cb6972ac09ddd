-------------------------- MODULE MCConversations ---------------------------
(***************************************************************************)
(* Conversations for TLC: what a client shows is the sequence of messages  *)
(* it received.                                                            *)
(***************************************************************************)
EXTENDS Conversations

Nothing == << >>
=============================================================================
