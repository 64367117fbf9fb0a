-------------------------- MODULE MCAgentHostSync --------------------------
(* Channels for the runs of AgentHostSync. *)
EXTENDS AgentHostSync

CONSTANTS chat, annotations

Chats == {chat}
ChatAndAnnotations == {chat, annotations}
=============================================================================
