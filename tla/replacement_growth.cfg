SPECIFICATION Spec
CONSTANTS
  s1 = s1  s2 = s2  name = name  link = link  file = file
  Unsigned = Unsigned
  Signers <- OneSigner
  Names <- TwoNames
  Originals <- OneFile
  Jobs <- OneJob
  Pages <- TwoPages
  MaxWrites = 1
INVARIANTS ChangesDetected
CHECK_DEADLOCK FALSE
