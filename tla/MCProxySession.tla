--------------------------- MODULE MCProxySession --------------------------
(* Small instance of ProxySession for TLC. *)
EXTENDS ProxySession

MCNPkt == 2
MCPktLen == 2
MCReadMax == 3
MCMaxSessions == 2
=============================================================================
