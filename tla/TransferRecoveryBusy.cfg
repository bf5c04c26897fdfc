SPECIFICATION Spec
CONSTANTS
  a = a
  b = b
  c = c
  Slots = {a, b, c}
  Guarded = {a, b, c}
  ImportSlots = {a, b}
  Kinds = {"transfer"}
  Recoverers = {"app"}
  McpOverlaps = {}
  Editable = {c}
  Faults = {"begin"}
  MaxOps = 2
  MaxCrashes = 1
  None = None
  Torn = Torn
CHECK_DEADLOCK FALSE
INVARIANT SavedIsKept
