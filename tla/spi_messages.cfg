\* Messages of one or two transfers; descriptors may fail or be late.
SPECIFICATION FairSpec
CONSTANTS
  Messages <- MCMessages
  MaxXfer = 2
  Tags = 2
  SlowEngine = TRUE
  NoCmd = NoCmd
  NoByte = NoByte
INVARIANTS
  TypeOK
  BytesInPlace
  DescriptorsEnd
PROPERTIES
  ErrorsSurface
  MessageReturns
