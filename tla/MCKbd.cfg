\* Six keys, both shift keys, both ctrl keys (one extended), caps lock and A
CONSTANTS
  MaxBytes = 3
  NoKey = NoKey
SPECIFICATION Spec
INVARIANTS
  TypeOK
  EscapePending
  NoStuckModifier
