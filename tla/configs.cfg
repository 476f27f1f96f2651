SPECIFICATION Spec
CONSTANTS
  Strings <- MCStrings
  Numbers <- MCNumbers
  NestingLimit = 2
  Files <- MCFiles
  Garbage <- MCGarbage
  RecvBuffer = 44
  Lower <- MCLower
  Atoi <- MCAtoi
  Addresses <- MCAddresses
INVARIANT ParserTypeOK
INVARIANT NameInBounds
INVARIANT OneOwner
INVARIANT NoLeak
INVARIANT Faithful
INVARIANT Complete
INVARIANT ServerAgrees
