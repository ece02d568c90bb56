SPECIFICATION Spec
CONSTANTS
  Ids = {0, 1}
  Names = {"new"}
  Default = "d"
  Tables <- EmptyOrTwice
  Gens = {g1, g2}
  Saves = {s1, s2}
  NoDialog = NoDialog
SYMMETRY SlotSymmetry
INVARIANTS
  TypeOK OneGeneration CardsAgree SavedIsShown
PROPERTIES
  ClosedByOwnSave
