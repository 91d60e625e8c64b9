SPECIFICATION RangeSpec
CONSTANTS
  s1 = s1
  s2 = s2
  s3 = s3
  BlobFile = {1}
  Sst = {s1, s2, s3}
  MaxRec = 3
  Word = 16
  HeaderSize = 1
SYMMETRY Symmetry
CHECK_DEADLOCK FALSE
INVARIANTS
  DeadWhenDeleted
