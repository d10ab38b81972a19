SPECIFICATION Spec
CONSTANTS
  Texts = {"a", "b"}
  MessageLimit = 3
  MaxLine = 2
  MaxPending = 3
  MaxChunk = 2
  MaxBytes = 7
  MaxExport = 4
  Envelope = 1
INVARIANTS
  TypeOK
  ChunksDoNotMatter
  ShortLinesWhole
  RingIsNewest
  ExportUnbroken
  ExportNewest
