CONSTANTS
  Files = {"fa", "fb", "fc", "fg", "fm"}
  Keys = {"ka", "kb", "kc"}
  KeyVer <- MCKeyVer
  Info <- MCInfo
  DefaultFiles <- MCDefaultFiles
  Phrases = {"pw", "qq", "xx"}
  Cmds <- MCCmdsDelete
  InitIds <- MCInitIds
  MaxTries = 1
  NoPass = NoPass
SPECIFICATION Spec
INVARIANT DeleteRemovesCertificates
