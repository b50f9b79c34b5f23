SPECIFICATION Spec
CONSTANTS
  Blank = sp
  CR = cr
  Eq = eq
  Open = lb
  Close = rb
  Remarks = {semi}
  Quotes = {dq, sq}
  Plus = plus
  Minus = minus
  X = x
  Words = {a, b}
  GLOBAL <- MCGlobal
  Texts <- MCTexts
  Numbers <- MCNumbers
  PORT <- MCPort
  Default <- MCDefault
  Size <- MCSize
  IntMax = 127
  NoSection = NoSection
  Unread = Unread
  Files <- MCFiles
  sp = sp
  cr = cr
  eq = eq
  lb = lb
  rb = rb
  semi = semi
  dq = dq
  sq = sq
  plus = plus
  minus = minus
  x = x
  a = a
  b = b
INVARIANTS
  TypeOK
  SettingsAreTheFiles
  ValuesAsWritten
  NumbersAsWritten
