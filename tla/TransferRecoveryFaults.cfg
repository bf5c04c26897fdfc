SPECIFICATION FairSpec
CONSTANTS
  a = a
  b = b
  c = c
  Slots = {a, b, c}
  Guarded = {a, b, c}
  ImportSlots = {a, b}
  Kinds = {"transfer", "sync"}
  Recoverers = {"app", "mcp"}
  McpOverlaps = {}
  Editable = {}
  Faults = {"journal", "begin", "rows", "commit", "persist", "undo", "abort", "cleanup", "row"}
  MaxOps = 3
  MaxCrashes = 2
  None = None
  Torn = Torn
INVARIANT CommittedIsKept
PROPERTIES Unlocks
CHECK_DEADLOCK FALSE
