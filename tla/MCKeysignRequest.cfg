CONSTANTS
  Requests <- MCRequestsFields
  LocalName <- MCLocalName
  SocketFds = {3}
  PwName = "me"
  NoRequest = NoRequest
  NoReply = NoReply
  KeyFileSets <- MCKeyFilesOne
  SizeBits = 16
  U32Bits = 8
SPECIFICATION Spec
INVARIANT ValidatorMatchesSpec
