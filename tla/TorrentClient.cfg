\* Three torrents; late answers up to two requests old.
CONSTANTS
  Nothing = Nothing
  NoTracker = NoTracker
  NoRequest = NoRequest
  TransactionIds = 3
  Intervals = {0, 2}
  Garbage = 3
  u1 = u1
  u2 = u2
  h1 = h1
  x1 = x1
  bad = bad
  Announce = u1
  AnnounceLists <- Lists
  TypeOf <- Types
SPECIFICATION Spec
INVARIANTS
  TypeOK
  PeersAnswerThisCall
  GivesUpLast
PROPERTIES
  GroupsKept
  CompleteEnds
  AsksAgain
