SPECIFICATION Spec
CONSTANTS
  Clients = {c1, c2}
  EventTasks = {inject}
  NoOne = NoOne
  HistoryLimit = 2
  IdCount = 5
  NoReport = NoReport
  Threads = {pipeline, loop}
  HandleCount = 2
  Unset = Unset
  Unavailable = Unavailable
  SliceIds = {"embb", "miot"}
  NFSets = {{"amf", "smf"}, {"amf", "smf", "udm", "upf"}}
  DefaultConfigs <- MCDefaultConfigs
  Faulty = {"pcf", "nrf", "smf"}
  LiveEdges <- MCLiveEdges
  NoEdges = NoEdges
  Containers = {"amf", "smf"}
  InFlight = {1, 2}
  ChangeCap = 3
  Unlisted = Unlisted
INVARIANTS
  EachClientOnce
  FoundUnlessCut
  NoLossOnceSettled
  ResultsAreOfTheSlice
PROPERTIES
  GoneIsForgotten
  StaysSettled
  PanelCatchesUp
