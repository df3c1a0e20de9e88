\* One key, which is the upgrade authority, owns everything: its own account as a
\* keypair buffer, canonical and third-party metadata.  Lengths, limits, data sources
\* and a rent that grows with the length are what varies.
SPECIFICATION Spec
CONSTANTS
  k1 = k1
  x = x
  u = u
  Key = {k1}
  ProgramKey = {}
  Wallet = {k1}
  BufferKey = {k1}
  Program = {p}
  Seed = {idl}
  Codec = {json}
  Byte = {z, x, u}
  Zero = z
  None = None
  HeaderLen = 2
  ExternalLen = 2
  ReallocLimit = 1
  MaxLen = 4
  MinBalance <- SteppedRent
  InitialPrograms <- LivePrograms
  Supply = 4
  Payload <- UpToTwoBytes
  Extension = {1}
  Space = {0, 1, 3}
  Transfers = {1, 2}
  BufferPadding = 1
  MetadataPadding = 1
  ExternalAlign = 2
  Base = {0, 1, 2}
  Letter = {z, x}
INVARIANTS
  HeadersOwned
  DataFits
  MetadataReadable
PROPERTIES
  ReshapeKeepsContent
  TooShortIsStranded
CHECK_DEADLOCK FALSE
