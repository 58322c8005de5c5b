SPECIFICATION FeedSpec
CONSTANTS
  Clients = {c1, c2}
  EventTasks = {inject}
  NoOne = NoOne
INVARIANT BroadcastReachesAll
