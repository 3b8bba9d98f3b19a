CONSTANTS
  b1 = b1
  b2 = b2
  component = component
  adapter = adapter
  old = old
  new = new
  first = first
  second = second
  same = same
  Absent = Absent
  Torn = Torn
  Builder = {b1, b2}
  Dep = {component, adapter}
  Recipe = {old, new}
  Output <- MCOutput
  Declared <- MCDeclared
  Manifest <- MCManifest
  MaxEdits = 1
  MaxKills = 1
SPECIFICATION Spec
SYMMETRY Symmetric
INVARIANTS TypeOK RealizedIsPinned ClaimsAreTrue BuiltIsAttested
