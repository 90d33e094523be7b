SPECIFICATION RecordSpec
CONSTANTS
  ReqLen = 3
  HeadLen = 2
  RespLen = 3
  MaxFD = 2
  Codes <- MCCodes
  Garbage = Garbage
  NoReply = NoReply
  HeaderLen = 2
  MaxContent = 2
  ReadSize = 1
INVARIANTS
  DescriptorsKept
  SocketsAccounted
  WireInOrder
  TrueMeansAnswered
  ReadInOrder
PROPERTIES
  ImplementsCHTTP
