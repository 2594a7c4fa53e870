\* One set of one to three ways, four lines that compete for it.
CONSTANTS
  Sms = 1
  NumSets = 1
  Index <- MCIndex
  WaysFor <- MCWays
  Declared <- MCDeclared
  SectorBytes = 2
  LineSectors = 2
  MaxAddress = 20
SPECIFICATION Spec
INVARIANTS
  TypeOK
  LookupExact
  NewestProtected
  SpanExact
PROPERTY ReadsFiltered
