CONSTANTS
  Junk = Junk
  Slack = 1
  InitGap = 1
  InitCap = 1
  GapMaxLen = 4
  EditMaxLen = 4
  Chars = {"a", "b"}
  Letters = {"a", "b"}
  NL = "n"
  InitTexts <- SmallTexts
  Typings <- SmallTypings
  MaxEdits = 3
  Contents <- SmallContents
  Newline = "n"
  Missing = Missing
  Bytes = {"esc", "[", "3", "5", "~", "A", "q"}
  MaxBytes = 5
  Documents <- OneDocument
  TAB_WIDTH = 4
  scr_rows = 3
  scr_cols = 3
  scrolloff = 1
  InitLen = 3
  MaxSize = 5
  Keys = {"w", "q", "!", "s", "e", "1", " "}
  Maps <- SmallMaps
  LineCount = 4
  MaxTyped = 3
  Blocks = {1, 2}
  MaxTurns = 5
  Designs <- SmallDesigns
  SyncN = 9
  AW = 2
  AsyncN = 9
  ArbN = 4
  Registers = {0}
  Elsewhere = 4
  Values = {0, 1}
  LiteMaxOps = 3
  Events = {"done"}
  BlockMaxOps = 3
  WORDS = 3
  Lengths = {0, 1, 2}
  MaxBursts = 2
  ITERATIONS = 3
  Items = 4
  MaxSent = 5
  Batches <- SmallBatches
  max_steps = 2
  LruBlocks = {0, 1, 2, 3, 4}
  Configs <- SmallConfigs
  LruMaxAccesses = 6
  SB = 4
  drainPerStore = 5
  Fences = {0, 1, 2, 3, 4, 5}
  depth = 100
  banks = 2
  colsPerRow = 2
  tRCD = 3
  tCAS = 2
  tRP = 4
  tBus = 1
  Prefetchers <- SmallPrefetchers
  DramLines = {0, 1, 2, 3, 4, 5}
  DramMaxAccesses = 5
  MeshN = 3
  MaxPackets = 2
  until = 3
  MaxJobs = 4
  WORD_BITS = 2
  cap = 1
  MaxSteps = 5
  NumRequests = 3
  Latencies = {1, 2, 3}
  quantum = 5
  per_xfer = 2
  tran_total = 10
  Routes <- TwoRoutes
  Addresses = {0, 2, 4, 5, 8}
  Spans = {1, 2}
  Payloads = {0, 1}
  MaxCalls = 3
  KpWorkers = {1, 2}
  Rounds = 2
  payload_len = 2
  RoundTrips = {999, 1000}
  MsgLen = 3
  num_conn = 2
  bench_rounds = 1
  LabThreads = {"t1", "t2", "t3"}
  lock_iters = 2
  MaxOps = 2
  WalkN = 4
  Strides = {1, 2, 3}
  walk_rounds = 2
  Percents = {150, 100, 80, 65, 35, 30, 10}
  DispN = 3
  ROUNDS = 2
  WARMUP = 1
  TRIALS = 3
  Times = {1, 2, 3}
  Chosen = {"gap", "edit", "undo", "mode", "view", "search", "highlight", "ex", "file", "term",
            "draw0", "draw3", "pipeline", "predict", "window", "cache", "mesi", "stores", "dram",
            "mesh", "events", "channels", "transport", "address", "iss", "platform",
            "kp", "blocking", "threads", "pingpong", "signals", "timeout", "students", "lists",
            "books", "calculator", "sorting", "options", "words", "locked", "walks", "dispatch", "agent",
            "syncfifo", "asyncfifo", "arbiter", "axilite", "regblock", "axi4"}
SPECIFICATION Spec
INVARIANTS RoundTrip InputFollowed LeftmostLongest FilesKeep CachesFresh
           CoresAddUp ModifiedIsAlone MemoryAddsUp TransfersComplete
           ReadsWhatWasWritten RunsWhatWasAssembled CountedIsDone TakenInTurn ResultsKept
           HandsOver AnsweredOnce
PROPERTIES ImplementsText QuitKeepsWork
CHECK_DEADLOCK FALSE
