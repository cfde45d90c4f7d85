SPECIFICATION FairSpec
CONSTANTS
  Drivers = {d1}
  NoDriver = NoDriver
  Revisions = {r1, r2}
  ServerRevision = r1
  Capacity = 2
  MaxLost = 1
  CheckEnabled = TRUE
  EquipmentMayFail = TRUE
  Unsolicited = {"ViewArray", "OpenMessageWindow"}
  MaxConnects = 2
  AutoConnect = TRUE
  Modes = {"WithoutTicket", "DriversListRequest"}
  UserRequests = {"ReloadInterface"}
  PanelControls = {"known", "untyped", "unknown"}
  LinkMayFail = TRUE
PROPERTIES
  DeadPeerReaped
  LeftoverEnds
  SetupConcludes
  CloseIsMutual
CHECK_DEADLOCK FALSE
