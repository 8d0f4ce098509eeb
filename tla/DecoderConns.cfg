CONSTANTS
  N = 1
  Decoders = {d1, d2}
  Clients = {c1}
  None = None
  Retries = 1
  MaxEvents = 2
  Sent = {"register", "unregister", "beat", "answer"}
  MaxInbox = 1
  MaxRefs = 1
SPECIFICATION FairSpec
INVARIANTS PooledIsClosed Linked RefsBalanced Watched
PROPERTIES HandlesComeBack
