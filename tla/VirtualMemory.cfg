CONSTANTS
  OFFSET_WIDTH = 1
  VIRTUAL_ADDRESS_WIDTH = 4
  NUM_FRAMES = 5
  Addresses = {0, 7, 10, 16}
  Writes <- MCWrites
  Unwritten = Unwritten
SPECIFICATION Spec
INVARIANTS TypeOK PathStaysLinked FramesFormATree FreeFramesAreClear PageInOnePlace
PROPERTY ImplementsMemory
