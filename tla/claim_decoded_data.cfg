\* The data the Rust client decodes.
SPECIFICATION Spec
CONSTANTS
  k1 = k1
  x = x
  u = u
  Key = {k1}
  ProgramKey = {}
  Wallet = {k1}
  BufferKey = {}
  Program = {p}
  Seed = {idl}
  Codec = {json}
  Byte = {z, x, u}
  Zero = z
  None = None
  HeaderLen = 2
  ExternalLen = 2
  ReallocLimit = 1
  MaxLen = 5
  MinBalance <- FlatRent
  InitialPrograms <- LivePrograms
  Supply = 2
  Payload <- UpToTwoBytes
  Extension = {1}
  Space = {}
  Transfers = {1}
  BufferPadding = 1
  MetadataPadding = 1
  ExternalAlign = 2
  Base = {0, 1, 2}
  Letter = {z, x}
INVARIANT
  DecodedDataIsBody
CHECK_DEADLOCK FALSE
