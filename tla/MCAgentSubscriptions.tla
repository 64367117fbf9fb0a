------------------------ MODULE MCAgentSubscriptions ------------------------
(* Clients for the runs of AgentSubscriptions. *)
EXTENDS AgentSubscriptions

CONSTANTS window, other

Two == {window, other}

\* The window may come back to the session.
Twice == [c \in Two |-> IF c = window THEN 2 ELSE 1]
=============================================================================
