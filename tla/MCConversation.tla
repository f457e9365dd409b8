--------------------------- MODULE MCConversation ---------------------------
(* A small instance of Conversation, with its credential store. *)
EXTENDS Conversation

CONSTANTS e1, e2

MCEngines == <<e1, e2>>
=============================================================================
