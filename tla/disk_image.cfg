SPECIFICATION Spec
CONSTANTS
  s1 = s1  s2 = s2  image = image  other = other  earlier = earlier
  Signers <- TwoSigners
  Image = image
  Earlier = earlier
  Other = other
  Jobs <- MixedJobs
  Starts <- ThreeStarts
  Substitute <- Foreign
  Payload = 3
  MaxWrites = 1
SYMMETRY Symmetry
INVARIANT SuccessIsComplete
PROPERTIES PayloadUntouched OnlyTheImage SignedNeedsForce
CHECK_DEADLOCK FALSE
