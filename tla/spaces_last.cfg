SPECIFICATION Spec
CONSTANTS
  Types = {BS, GR}
  NoType = NoType
  Null = Null
  SPACE_NUM = 2
  DWORD = 8
  MaxEntries = 3
  BS = BS
  GR = GR
INVARIANT LastSpaceOfOneType
