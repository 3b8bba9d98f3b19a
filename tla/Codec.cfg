CONSTANTS
  Char <- MCChar
  Docs <- MCDocs
  Field <- MCField
  Stop <- MCStop
  Terms <- MCTerms
  MaxEdits = 1
  Primitive = {"u8", "string"}
  Opaque = {"resource"}
  FieldName = {"f", "g"}
  MaxTypes = 2
  MaxExports = 2
SPECIFICATION CodecSpec
INVARIANTS RoundTrip WholeTextOnly TextIsTheType ShownIsCurrent NamesAreFound
PROPERTY SignatureStays
CHECK_DEADLOCK FALSE
