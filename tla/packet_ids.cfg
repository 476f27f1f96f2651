SPECIFICATION FairSpec
CONSTANTS
  Hosts <- MCHosts
  Ports <- MCPorts
  SeqNos <- MCSeqNos
  Ids <- MCIds
  CharSigned = TRUE
INVARIANT IdParsed
