-------------------------- MODULE MCConnectionPool --------------------------
(***************************************************************************)
(* ConnectionPool on small instances: the sets of messages that the        *)
(* configurations choose from, and the symmetries they use.                *)
(***************************************************************************)
EXTENDS ConnectionPool, TLC

Http == {"request", "part", "tooLarge"}
WebSocket == {"upgrade", "wsMessage", "wsClose"}
All == ClientMessages

Plain == {FALSE}
SslConfigured == {TRUE, FALSE}

Interchangeable == Permutations(Handlers) \cup Permutations(Conns)
=============================================================================
