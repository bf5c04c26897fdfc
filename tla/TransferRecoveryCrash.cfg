SPECIFICATION Spec
CONSTANTS
  a = a
  b = b
  c = c
  Slots = {a, b, c}
  Guarded = {a, b}
  ImportSlots = {a, b}
  Kinds = {"transfer", "sync"}
  Recoverers = {"app", "mcp"}
  McpOverlaps = {}
  Editable = {b, c}
  Faults = {"journal", "begin", "rows", "commit", "persist", "undo", "abort", "cleanup", "row"}
  MaxOps = 2
  MaxCrashes = 2
  None = None
  Torn = Torn
INVARIANTS SecretsAreKept LiveAgrees
CHECK_DEADLOCK FALSE
