SPECIFICATION FairSpec
CONSTANTS
  Readers = {r1, r2}
  Writers = {w1, w2}
  MaxReplacements = 2
PROPERTIES
  WriterProceeds
