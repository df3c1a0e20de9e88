\* What a reader returns for an account that holds an upload in progress.
SPECIFICATION FetchSpec
CONSTANTS
  k1 = k1
  p1 = p1
  idl = idl
  x = x
  y = y
  hb = hb
  Key = {k1}
  ProgramKey = {}
  Wallet = {k1}
  BufferKey = {}
  Program = {p1}
  Seed = {idl}
  Codec = {json}
  Byte = {x, y}
  Zero = x
  None = None
  HeaderLen = 1
  ExternalLen = 1
  ReallocLimit = 1
  MaxLen = 2
  MinBalance <- FlatRent
  InitialPrograms <- LivePrograms
  Supply = 2
  Payload <- OneByte
  Extension = {1}
  Space = {}
  Transfers = {1}
  Query <- Queries
  RecordOf <- Records
  HeaderByte = hb
INVARIANT
  FetchesMetadata
CHECK_DEADLOCK FALSE
