------------------------- MODULE MCProxyOutputLP64 -------------------------
(* The ProxySession instance of MCProxySession, on an LP64 build. *)
EXTENDS ProxyOutputLP64

MCNPkt == 2
MCPktLen == 2
MCReadMax == 3
MCMaxSessions == 1
=============================================================================
