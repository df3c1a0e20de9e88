\* A keypair buffer is allocated.
SPECIFICATION Spec
CONSTANTS
  k1 = k1
  x = x
  p = p
  Key = {k1}
  ProgramKey = {}
  Wallet = {k1}
  BufferKey = {k1}
  Program = {p}
  Seed = {idl}
  Codec = {json}
  Byte = {z, x}
  Zero = z
  None = None
  HeaderLen = 1
  ExternalLen = 2
  ReallocLimit = 1
  MaxLen = 2
  MinBalance <- FlatRent
  InitialPrograms <- LivePrograms
  Supply = 5
  Payload <- OneByte
  Extension = {1}
  Space = {0, 1}
  Transfers = {1, 2}
INVARIANTS
  KeypairBufferHasNoAuthority
CHECK_DEADLOCK FALSE
