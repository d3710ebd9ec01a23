CONSTANTS
  NPkt <- MCNPkt
  PktLen <- MCPktLen
  ReadMax <- MCReadMax
  MaxSessions <- MCMaxSessions
SPECIFICATION SpecLP64
INVARIANT DeliveredInOrder
