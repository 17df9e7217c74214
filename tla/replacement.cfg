SPECIFICATION Spec
CONSTANTS
  s1 = s1  s2 = s2  name = name  link = link  file = file
  Unsigned = Unsigned
  Signers <- TwoSigners
  Names <- TwoNames
  Originals <- OneFile
  Jobs <- MixedJobs
  Pages <- TwoPages
  MaxWrites = 1
SYMMETRY Symmetry
INVARIANTS PublishedIsChecked
PROPERTIES NoLostUpdate Publishes
CHECK_DEADLOCK FALSE
