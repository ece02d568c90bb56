SPECIFICATION Spec
CONSTANTS
  Ids = {i1, i2, i3}
  NoId = NoId
  Names <- ShortAndLong
  Default <- ShortDefault
  MaxProfiles = 2
  BufSize = 8
SYMMETRY IdSymmetry
CONSTRAINT Bounds
INVARIANTS
  TypeOK Durable FileMatchesTable UniqueProfiles
