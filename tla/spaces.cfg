SPECIFICATION Spec
CONSTANTS
  Types = {BS, GR}
  NoType = NoType
  Null = Null
  SPACE_NUM = 3
  DWORD = 6
  MaxEntries = 4
  BS = BS
  GR = GR
SYMMETRY TypeSymmetry
INVARIANTS
  TypeOK
  NamesOwned
  AddressedOnce
  SpaceHoldsItsType
  CurrentIsListed
