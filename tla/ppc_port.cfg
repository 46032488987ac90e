CONSTANTS
  JavaMethods <- MCJavaMethods
  StateWords = 3
  MonitorWords = 2
  SavedWords = 2
  StackTop = 120
  MaxFrames = 4
  MaxMonitors = 2
  MaxStackArgs = 12
  MaxParams = 2
  MaxLocals = 2
  MaxSaved = 3
  SavesUnusedR0 = FALSE
  MaxArgs = 15
  MaxJavaArgs = 4
  HeapBase = 0
  HeapSize = 12
  SignBit = 12
  LittleEndian = FALSE
  LastByte = 16
  Regs = {0, 3, 31}
  Signed16 <- MCSigned16
  Unsigned16 = {0, 1, 65535}
  Shifts = {1, 5, 31}
  LongShifts = {1, 5, 31, 63}
  CrFields = {0, 7}
  ShortBranches <- MCShortBranches
  LongBranches <- MCLongBranches
  Labels = {l1, l2}
  MaxCode = 5
  ShortBits = 3
  LongBits = 4
  Halfwords = {0, 1, 32767, 32768, 65535}
SPECIFICATION Spec
INVARIANTS
  FramesIntact
  FramesSeparate
  EpilogUndoesProlog
  HandlersAgree
  ArgumentsAreRead
  CopyMoves
  BytesSound
  BranchesReachLabels
  LoadExact
  ArgumentsArrive
  PrintedIsTheInstruction
PROPERTIES
  FastPlacesSound
CHECK_DEADLOCK FALSE
