CONSTANTS
  MaxConnections = 3
  MaxEvents = 3
SPECIFICATION FairSpec
INVARIANTS HandlesFollowTheLink HandlersAnswerTheirPeer NotificationsAreCurrent
PROPERTIES Reconnectable TimedOutLinkEnds
\* No further connection than MaxConnections is made.
CHECK_DEADLOCK FALSE
