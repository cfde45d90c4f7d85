SPECIFICATION Spec
CONSTANTS
  Drivers = {d1}
  NoDriver = NoDriver
  Revisions = {r1}
  ServerRevision = r1
  Capacity = 2
  MaxLost = 1
  CheckEnabled = TRUE
  EquipmentMayFail = FALSE
  Unsolicited = {"ViewArray"}
  MaxConnects = 2
  AutoConnect = FALSE
  Modes = {"WithoutTicket"}
  UserRequests = {}
  PanelControls = {"known", "untyped", "unknown"}
  LinkMayFail = FALSE
INVARIANT ConnectedMeansSelected
CHECK_DEADLOCK FALSE
