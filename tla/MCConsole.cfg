SPECIFICATION ConsoleSpec
CONSTANTS
  CharBits = 3
  ShortBits = 4
  IntBits = 6
  LongBits = 8
  NtoaSize = 9
  c1 = c1
  c2 = c2
  c3 = c3
  Cpus = {c1, c2, c3}
  BootCpu = c1
  Boards <- MCBoards
  MaxFd = 5
  NumLines = 2
  Warning = 1
  BootCalls <- MCBootCalls
  RunCalls <- MCRunCalls
  MaxCalls <- MCMaxCalls
  NoCpu = NoCpu
INVARIANTS
  
  LinesTogether
  BufferBounded
  FormatsRight
PROPERTIES
  MessagesWhole
  CallsReturn
CHECK_DEADLOCK FALSE
