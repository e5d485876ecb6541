CONSTANTS
  Chosen = {"workers", "master", "notify"}
  threads = 2
  Conns = {"a", "b"}
  MaxServed = 2
  num_workers = 3
  iters = 12
  Sentinel = 5
SPECIFICATION ServersSpec
INVARIANTS SomeoneComes ContextsOutlive EndsLast
PROPERTIES Stops Reaped NotificationsArrive
CHECK_DEADLOCK FALSE
