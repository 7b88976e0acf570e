SPECIFICATION FairSpec
CONSTANTS
  Handshakes = {h1, h2}
  MaxSessions = 3
  MaxPending = 2
  MaxDedup = 2
  NoSession = NoSession
INVARIANTS TablesAgree DedupExact OneSessionPerHandshake
PROPERTIES QuietWhenStopped SessionEnds
CHECK_DEADLOCK FALSE
