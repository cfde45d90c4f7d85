SPECIFICATION FairSpec
CONSTANTS
  Drivers = {d1}
  NoDriver = NoDriver
  Revisions = {r1}
  ServerRevision = r1
  Capacity = 2
  MaxLost = 1
  CheckEnabled = TRUE
  EquipmentMayFail = TRUE
  Unsolicited = {}
  MaxConnects = 1
  AutoConnect = FALSE
  Modes = {"WithoutTicket"}
  UserRequests = {}
  PanelControls = {"known", "untyped", "unknown"}
  LinkMayFail = FALSE
PROPERTY SelectionAnswered
CHECK_DEADLOCK FALSE
