SPECIFICATION Spec
CONSTANTS
  Entropies = {e1, e2, e3}
  Absent = Absent
  Torn = Torn
  MaxFaults = 1
  MaxCrashes = 2
INVARIANTS
  MemoryIsStored
  NeverLost
  AddressKnown
PROPERTIES
  ImplementsCell
  IdentityKept
