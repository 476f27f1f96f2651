SPECIFICATION FairSpec
CONSTANTS
  Hosts <- MCHosts
  Ports <- MCPorts
  SeqNos <- MCSeqNos
  Ids <- MCIds
  CharSigned = TRUE
INVARIANT TypeOK
INVARIANT ReceiverAccepts
INVARIANT SumKept
INVARIANT IdOnWire
PROPERTY ChecksumEnds
