\* A reader asks for two accounts, one of them twice, while the program goes on; an
\* external reference is one byte.
SPECIFICATION FetchSpec
CONSTANTS
  k1 = k1
  p1 = p1
  idl = idl
  x = x
  y = y
  hb = hb
  Key = {k1}
  ProgramKey = {}
  Wallet = {k1}
  BufferKey = {}
  Program = {p1}
  Seed = {idl}
  Codec = {json}
  Byte = {x, y}
  Zero = x
  None = None
  HeaderLen = 1
  ExternalLen = 1
  ReallocLimit = 1
  MaxLen = 2
  MinBalance <- FlatRent
  InitialPrograms <- LivePrograms
  Supply = 2
  Payload <- OneByte
  Extension = {1}
  Space = {}
  Transfers = {1}
  Query <- Queries
  RecordOf <- Records
  HeaderByte = hb
VIEW Looked
INVARIANT
  ImmutableReadsLast
PROPERTY
  EachGetsItsOwn
CHECK_DEADLOCK FALSE
