SPECIFICATION Spec
CONSTANTS
  Kinds = {"bool", "char", "int16", "int32", "int64", "float", "double", "string", "vector", "list", "set", "map"}
  Items <- KindItems
  MaxItems = 3
  PtrSize = 8
  SlotSize = 24
  BlockSize = 88
  AddrBits = 8
  Bases = {8, 16, 112, 128, 136}
  Values = {u, v, x, y}
INVARIANTS RoundTrip MemorySound
PROPERTIES ImplementsStack LoopsEnd
