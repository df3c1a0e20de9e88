\* Metadata is extended.
SPECIFICATION Spec
CONSTANTS
  k1 = k1
  x = x
  p = p
  Key = {k1}
  ProgramKey = {}
  Wallet = {k1}
  BufferKey = {}
  Program = {p}
  Seed = {idl}
  Codec = {json}
  Byte = {z, x}
  Zero = z
  None = None
  HeaderLen = 1
  ExternalLen = 2
  ReallocLimit = 1
  MaxLen = 3
  MinBalance <- FlatRent
  InitialPrograms <- LivePrograms
  Supply = 5
  Payload <- OneByte
  Extension = {1}
  Space = {}
  Transfers = {1, 2}
INVARIANTS
  LengthFieldIsExact
CHECK_DEADLOCK FALSE
