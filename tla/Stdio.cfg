SPECIFICATION Spec
CONSTANTS
  Byte = {0, 10}
  Zero = 0
  Newline = 10
  BufSz = 2
  Quota = 3
  Payload <- MCPayload
  Offset <- MCOffset
  Content0 <- MCContent0
INVARIANTS TypeOK BufferHonest
PROPERTIES ImplementsFile ReadOnlyKeepsFile
