CONSTANTS
  c1 = c1
  m1 = m1
  m2 = m2
  n1 = n1
  None = None
  Channels = {c1}
  Typing = {c1}
  Messages = {m1, m2}
  Notices = {n1}
  ChannelOf <- OneChannel
  kMaxSendAttempts = 2
  MaxSaid = 1
SPECIFICATION FairSpec
CHECK_DEADLOCK FALSE
INVARIANT
  OnePlace
  AnswersInOrder
  NoSendAfterStop
PROPERTY
  Answered
