----------------------- MODULE MCPersistentProtocol -----------------------
(* Bounds for the runs of PersistentProtocol. *)
EXTENDS PersistentProtocol

\* Both ends talk, and the client twice, so that an acknowledgement can be
\* partial.
ClientTalksMore == [p \in {"client", "server"} |-> IF p = "client" THEN 2 ELSE 1]
\* One message, so that many sockets and handshakes can overlap around it.
ClientOnce == [p \in {"client", "server"} |-> IF p = "client" THEN 1 ELSE 0]
=============================================================================
