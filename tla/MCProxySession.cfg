CONSTANTS
  NPkt <- MCNPkt
  PktLen <- MCPktLen
  ReadMax <- MCReadMax
  MaxSessions <- MCMaxSessions
SPECIFICATION FairSpec
INVARIANTS SessionResources Conservation
PROPERTY Delivery ChannelRefinement
