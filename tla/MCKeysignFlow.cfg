CONSTANTS
  Requests <- MCRequestsFlow
  LocalName <- MCLocalName
  SocketFds = {0, 1, 3}
  PwName = "me"
  NoRequest = NoRequest
  NoReply = NoReply
  KeyFileSets <- MCKeyFilesAll
  SizeBits = 16
  U32Bits = 8
SPECIFICATION Spec
INVARIANT SignsOnlyValid

