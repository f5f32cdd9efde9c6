\* Two engines, rings of one slot so that every push can find its ring full,
\* up to one trade per command, and every 3-record feed file.
CONSTANTS
  NSym = 2
  QCap = 1
  MaxTrades = 1
  FeedLen = 3
  FeedChoices <- AllFeeds
SPECIFICATION Spec
INVARIANT TypeOK
INVARIANT CommandsInOrder
INVARIANT EventsInOrder
PROPERTY Completion
