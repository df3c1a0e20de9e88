\* The account p of a keypair, under an older loader or not executable, and the upgradeable
\* program q.  The keypair of p still signs.
SPECIFICATION Spec
CONSTANTS
  k1 = k1
  x = x
  p = p
  Key = {k1}
  ProgramKey = {p}
  Wallet = {k1}
  BufferKey = {}
  Program = {p, q}
  Seed = {idl}
  Codec = {json}
  Byte = {z, x}
  Zero = z
  None = None
  HeaderLen = 1
  ExternalLen = 2
  ReallocLimit = 1
  MaxLen = 2
  MinBalance <- FlatRent
  InitialPrograms <- OneOlderProgram
  Supply = 2
  Payload <- OneByte
  Extension = {}
  Space = {}
  Transfers = {1}
PROPERTIES
  ChangesAuthorized
  OnlyDeriverInitializes
CHECK_DEADLOCK FALSE
