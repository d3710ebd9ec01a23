CONSTANTS
  NPkt <- MCNPkt
  PktLen <- MCPktLen
  ReadMax <- MCReadMax
  MaxSessions <- MCMaxSessions
SPECIFICATION Spec
PROPERTY EofDeliversAll
