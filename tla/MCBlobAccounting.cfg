SPECIFICATION Spec
CONSTANTS
  s1 = s1
  s2 = s2
  s3 = s3
  BlobFile = {1, 2}
  Sst = {s1, s2, s3}
  MaxRec = 2
  Word = 16
  HeaderSize = 1
SYMMETRY Symmetry
CHECK_DEADLOCK FALSE
INVARIANTS
  TypeOK
  AccountingExact
  DeadWhenDeleted
  DeadIsDeleted
