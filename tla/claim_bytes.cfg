\* A user has data sent by the Rust client.
SPECIFICATION ClientSpec
CONSTANTS
  k1 = k1
  x = x
  p1 = p
  data1 = data1
  stray = stray
  Id = Id
  SystemId = SystemId
  RentId = RentId
  LengthPrefix <- OneByteLength
  ProgramData <- DataAccounts
  Request <- SmallRequests
  Key = {k1}
  ProgramKey = {}
  Wallet = {k1}
  BufferKey = {k1}
  Program = {p}
  Seed = {idl}
  Codec = {json}
  Byte = {x}
  Zero = x
  None = None
  HeaderLen = 1
  ExternalLen = 2
  ReallocLimit = 2
  MaxLen = 3
  MinBalance <- FlatRent
  InitialPrograms <- LivePrograms
  Supply = 2
  Payload <- SmallPayload
  Extension = {1}
  Space = {1}
  Transfers = {1}
PROPERTIES
  BytesAsGiven
CHECK_DEADLOCK FALSE
