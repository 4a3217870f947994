SPECIFICATION Spec
CONSTANTS
  Sessions = {a, b}
  Tracks = {live, file}
  Sockets = {k}
  Endpoints = {u}
  Shared = {live}
  WithDuration = {file}
  Nowhere = Nowhere
INVARIANTS StreamingSocketsNoted
