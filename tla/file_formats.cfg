CONSTANTS
  NULL = NULL
  MantissaBits = 2
  ByteBits = 2
  LengthBase = 8
  Payloads <- SomePayloads
  ChangedTo = {0, 5}
  MaxFrames = 3
  MaxTears = 1
  MaxChanges = 1
  Schemas <- SomeSchemas
  ColumnValues <- SomeValues
  MaxFileRows = 3
  DamagedTo = {0, 1, 3}
SPECIFICATION FormatsSpec
INVARIANTS ReaderReturnsIntact ReaderReportsDamage TornTailIsTruncated BodyPartRefused SegmentRoundTrip DamageRefused PrunesNoMatch
CHECK_DEADLOCK FALSE
