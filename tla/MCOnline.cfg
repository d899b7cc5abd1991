SPECIFICATION PartsSpec
CONSTANTS
  MinHeartbeat = 1
  InitialHeartbeat = 2
  MaxHeartbeat = 3
  MinDelayed = 1
  MaxDelayed = 2
  HasConfirmation = TRUE
  Requested = {0, 1, 2, 4}
  MaxNow = 8
  BackwardStep = 2
  a1 = a1
  b1 = b1
  own = own
  friend = friend
  reply = reply
  hollow = hollow
  quote = quote
  other = other
  NoQuote = NoQuote
  Messages <- KnownMessages
  OwnMessages <- Ours
  ConversationOf <- Conversations
  IsGroup <- OfGroup
  SequenceOf <- Sequences
  Correlated <- WithCorrelation
  Acceptable <- Complete
  QuoteOf <- Quotes
  ReplyTo <- ReplyKeys
  MaxMessages = 3
  IdLimit = 4
  MaxTime = 2
  Candidates <- Offers
  Chunk = 2
  MaxSize = 5
  MaxEndpoints = 2
  Opaque = {ua}
  Digits = {un}
  Self = self
  Nobody = nobody
  MaxEvents = 2
  Contents <- ActionContents
  PageLimit = 3
  MaxRequests = 2
  MaxKeys = 2
  Message = {m1}
  Group = {g1, gw}
  Wide = {gw}
  Peer = {p1}
  NoKey = nokey
  LastTime = 1
  CursorLimit = 1
  MaxEmbedded = 1
  MaxItems = 2
  MaxQueued = 3
  MaxBytes = 6
  MaxRecalls = 2
  MaxBatch = 3
  Longest = 2
INVARIANTS
  OnlineIsSound
  RegistryIsSound
  PushesAreSound
  AnnouncementsAreSound
  ActionsAreSound
  UploadsAreSound
PROPERTIES
  EveryDelayBounded
  HeartbeatIsSent
  IdsKeepTheirMeaning
  SyncIsSound
  EventsSettle
  WorkEnds
CHECK_DEADLOCK FALSE
