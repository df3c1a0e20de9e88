\* Metadata is made for an account that is not a program.
SPECIFICATION Spec
CONSTANTS
  k1 = k1
  x = x
  p = p
  Key = {k1, k2}
  ProgramKey = {}
  Wallet = {k1}
  BufferKey = {}
  Program = {p}
  Seed = {idl}
  Codec = {json}
  Byte = {z, x}
  Zero = z
  None = None
  HeaderLen = 1
  ExternalLen = 2
  ReallocLimit = 2
  MaxLen = 2
  MinBalance <- FlatRent
  InitialPrograms <- AnyPrograms
  Supply = 3
  Payload <- OneByte
  Extension = {1}
  Space = {}
  Transfers = {1}
PROPERTIES
  MetadataProgramExecutable
CHECK_DEADLOCK FALSE
