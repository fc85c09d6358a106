SPECIFICATION FairSpec
CONSTANTS
  Cards <- ThreeCards
  Members <- TwoCards
  Served <- OnlyFirst
  Commands <- AllCommands
  SyncTime = 1
  Stale <- OldLists
  Phases = {0, 1}
  Faults = {"crash", "error", "replug", "reboot", "step"}
  MaxFaults = 1
  LastStart = 3
  MaxNow = 6
INVARIANTS
  OnePrimary
  RestoredIsCovered
PROPERTIES
  UpdatesKeepMembers
  MembersAreRestored
  MemberCommandsEnd
CHECK_DEADLOCK FALSE
