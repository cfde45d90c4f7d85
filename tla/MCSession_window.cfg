SPECIFICATION Spec
CONSTANTS
  Drivers = {d1}
  NoDriver = NoDriver
  Revisions = {r1}
  ServerRevision = r1
  Capacity = 2
  MaxLost = 1
  CheckEnabled = TRUE
  EquipmentMayFail = FALSE
  Unsolicited = {"OpenMessageWindow"}
  MaxConnects = 1
  AutoConnect = FALSE
  Modes = {"WithoutTicket"}
  UserRequests = {}
  PanelControls = {"known", "untyped", "unknown"}
  LinkMayFail = FALSE
PROPERTY WindowsDisturbNothing
CHECK_DEADLOCK FALSE
