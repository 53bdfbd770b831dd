SPECIFICATION Spec
CONSTANTS
  c1 = c1
  c2 = c2
  null = null
  Size = 5
  Bytes <- MCBytes
  Callers <- MCCallers
  Delimiters <- MCDelimiters
  SignedChar = TRUE
  Word = 8
  Null = null
  Formats <- MCFormats
  Strings <- MCStrings
  Numbers <- MCNumbers
  Chars = {121}
  Room <- MCRoom
  MaxInt = 15
  FieldSize = 8
  Vectors <- MCVectors
INVARIANTS
  TypeOK
  CopiedWhole
  TokensInOrder
  SearchesAgree
  ComparisonsAgree
  PrintsBeginning
  NumbersReadBack
  ArgumentsArrive
