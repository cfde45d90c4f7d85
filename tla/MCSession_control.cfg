SPECIFICATION Spec
CONSTANTS
  Drivers = {d1}
  NoDriver = NoDriver
  Revisions = {r1}
  ServerRevision = r1
  Capacity = 2
  MaxLost = 1
  CheckEnabled = FALSE
  EquipmentMayFail = FALSE
  Unsolicited = {"ViewArray"}
  MaxConnects = 1
  AutoConnect = FALSE
  Modes = {"WithoutTicket"}
  UserRequests = {}
  PanelControls = {"known", "unknown"}
  LinkMayFail = FALSE
PROPERTY ControlsAnswered
CHECK_DEADLOCK FALSE
