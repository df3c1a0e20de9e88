\* An update through a buffer that leaves closeBuffer out.
SPECIFICATION PlanSpec
CONSTANTS
  k1 = k1
  b1 = b1
  b2 = b2
  p1 = p1
  idl = idl
  old = old
  new = new
  newer = newer
  w = w
  x = x
  y = y
  c1 = c1
  c2 = c2
  c3 = c3
  Key = {k1, b1, b2}
  ProgramKey = {}
  Wallet = {k1}
  BufferKey = {b1, b2}
  Program = {p1}
  Seed = {idl}
  Codec = {old, new, newer}
  Byte = {z, w, x, y}
  Zero = z
  None = None
  HeaderLen = 1
  ExternalLen = 4
  ReallocLimit = 2
  MaxLen = 12
  MinBalance <- LinearRent
  InitialPrograms <- LivePrograms
  Supply = 40
  Payload = {}
  Extension = {}
  Space = {}
  Transfers = {}
  Client = {c1}
  Scenario <- OmittedClose
  InlineLimit = 1
  ChunkLen = 1
  MaxCrashes = 1
  Former <- FormerContents
INVARIANT
  ClosesByDefault
CHECK_DEADLOCK FALSE
