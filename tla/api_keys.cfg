SPECIFICATION Spec
CONSTANTS
  Nil = Nil
  Keys = {k1, k2}
  Errors = {e1}
  MaxCalls = 2
INVARIANTS
  SecretIsShownWhileValid
PROPERTIES
  StaleListIsNoticed
