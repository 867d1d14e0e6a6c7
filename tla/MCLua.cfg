CONSTANTS
  o1 = o1
  o2 = o2
  o3 = o3
  Object = {o1, o2, o3}
  Main = main
  Registry = reg
  Null = nil
  Heaps <- MCHeaps
  MaxEntry = 1
  MaxStack = 2
  MaxWork = 2
  MaxFinal = 1
  SweepMax = 1
  Key <- MCKey
  Datum = {v1}
  Nothing = nothing
  MaxArray = 4
  MaxRK = 3
  FieldsPerFlush = 2
  StackSize = 45
  MinStack = 6
  MaxTagLoop = 3
  MaxMisses = 4
  Programs <- AllPrograms
  Loaded <- f_parser
  Source <- SourceText
  Wrappers = {"plain", "if", "while", "repeat", "for", "forin", "function", "again"}
  Firsts = {"conflict", "tables", "capture", "fresh", "logic", "truth", "spread", "tail",
            "method", "text", "counts", "skip", "fold", "fails", "events", "orders", "joins",
            "class", "endless", "deep", "protected", "nested", "iterates"}
  Seconds = {"conflict", "capture", "fresh", "skip"}
SPECIFICATION LuaSpec
INVARIANTS NoDangling TriColour GarbageGoes TableIsAMap TraversalIsComplete CodeIsSound
PROPERTIES FinalizerFirst RunsAsWritten
