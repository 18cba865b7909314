SPECIFICATION Spec
CONSTANTS
  Clients = {c1, c2}
  NFDS = 8
  Backlog = 2
  VERSION = 12
  MaxFaults = 3
INVARIANT
  SessionReleases
