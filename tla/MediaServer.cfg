SPECIFICATION FairSpec
CONSTANTS
  Names = {movie}
  Clients = {c1, c2}
  NoMedia = NoMedia
  ReloadsFiles = TRUE
  MaxObjects = 4
  MaxChanges = 2
  MaxDescribes = 2
INVARIANTS TypeOK ReferencesCounted
PROPERTIES SessionsServed RemovedIsDeleted
CHECK_DEADLOCK FALSE
