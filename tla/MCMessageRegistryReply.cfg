SPECIFICATION RegistrySpec
CONSTANTS
  a1 = a1
  b1 = b1
  own = own
  friend = friend
  reply = reply
  hollow = hollow
  quote = quote
  other = other
  NoQuote = NoQuote
  Messages <- MCMessages
  ConversationOf <- MCConversationOf
  IsGroup <- MCIsGroup
  SequenceOf <- MCSequenceOf
  Correlated <- MCCorrelated
  Acceptable <- MCAcceptable
  QuoteOf <- MCQuoteOf
  ReplyTo <- MCReplyTo
  OwnMessages <- MCOwn
  MaxMessages = 3
  IdLimit = 4
  MaxTime = 3
INVARIANTS
  AmbiguousReplyIsUnsupported
