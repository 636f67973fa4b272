SPECIFICATION MCSpec
CONSTANTS
  MapKeys = {1, 2, 3, 4, 5, 6, 7, 8}
  MultiKeys = {1, 2}
  Copies = 3
  Keys = {1, 2, 3}
  Values = {0, 1}
  BlockSize = 2
  MaxBlocks = 2
  Capacity = 2
  Bytes = {1, 2}
  MaxSize = 4
  Threads = {1, 2}
  Sizes = 2
  PoolSize = 7
  MaxCalls = 3
  MaxTokens = 8
  MaxChars = 5
  MaxText = 15
  MaxPath = 7
  MaxLine = 6
  MaxBytes = 4
  blockSize = 16
  lengthSize = 4
  digestSize = 8
  Chunks = {1, 5, 16}
  KeySizes = {0, 1, 15, 16, 17}
  MaxMessage = 33
  Chars = {"a"}
  prompt <- PromptText
  Widths = {2, 3}
  MaxInput = 3
  MaxHistory = 3
  MaxOutput = 1
  Mine = {a, b}
  Others = {c}
  Pids = {1, 2, 3}
  Streams = {"stdout", "stdin"}
  Piped = {a, c}
  MaxFd = 4
INVARIANTS
  TreeExact
  ContainersExact
  MemoryExact
  DataAlive
  DataIsolated
  ConversionsExact
  PromptExact
  ProcessExact
  InterruptHeard
CHECK_DEADLOCK FALSE
