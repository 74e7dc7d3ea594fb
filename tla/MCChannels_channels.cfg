CONSTANTS
  u1 = u1
  u2 = u2
  c1 = c1
  g1 = g1
  d1 = d1
  o1 = o1
  NoUser = NoUser
  Torn = Torn
  Absent = Absent
  Star = Star
  MaxGenerations = 5
  Users = {u1, u2}
  Allowed = {u1, u2}
  Sender <- MCSender
  WithToken = {2, 4}
  MaxPublished = 2
  MaxSends = 1
  MaxCrashes = 2
  Events <- MCEvents
  Updates <- MCUpdates
  Chats = {c1, d1}
  AllowFrom = {u1, o1}
  ChatTargets = 2
  MaxAsked = 3
  MaxShown = 8
SPECIFICATION MCSpec
INVARIANTS
  NoForgottenClient
  StaysStopped
  NothingTwice
  AnsweredWhereAsked
  EachUpdateOnce
PROPERTY NewestTokenFound
CHECK_DEADLOCK FALSE
