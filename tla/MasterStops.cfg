SPECIFICATION FairSpec
CONSTANT num_workers = 2
PROPERTY Stops
CHECK_DEADLOCK FALSE
