SPECIFICATION LiveSpec
CONSTANTS
  Models <- MCModels
  Reports <- MCReports
  NodeIds = {"n1", "n2"}
  MaxInit = 2
  MaxClicks = 2
  MaxChanges = 1
  MaxBreaks = 1
INVARIANTS TypeOK AlertsAreCurrent NodesAreListed  OneInitPerClick
PROPERTY DirectedToChat
