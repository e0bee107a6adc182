CONSTANTS
  Requests = {r1, r2}
  Clients = {"home", "away"}
  Tokens = {k1, k2}
  Passwords = {"old", "new"}
  MaxSessions = 1
  Limit = 1
  MaxClients = 1
  Window = 1
  SeenEvery = 2
  Inactive = 3
  Lifetime = 3
  MaxTime = 4
  MaxEvents = 3
  NoFile <- NoTable
  Broken <- BrokenTable
SPECIFICATION Spec
INVARIANTS SetupOnce AttemptsLimited FileFollowsTable
CHECK_DEADLOCK FALSE
