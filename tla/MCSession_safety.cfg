SPECIFICATION Spec
CONSTANTS
  Drivers = {d1, d2}
  NoDriver = NoDriver
  Revisions = {r1, r2}
  ServerRevision = r1
  Capacity = 4
  MaxLost = 3
  CheckEnabled = TRUE
  EquipmentMayFail = TRUE
  Unsolicited = {"ViewArray", "SignalValue", "OpenMessageWindow"}
  MaxConnects = 2
  AutoConnect = TRUE
  Modes = {"WithoutTicket", "DriversListRequest"}
  UserRequests = {"FileRequest", "ReloadInterface", "DriverSettings"}
  PanelControls = {"known", "untyped", "unknown"}
  LinkMayFail = TRUE
SYMMETRY DriverSymmetry
PROPERTY ImplementsProtocol
INVARIANTS
  TypeOK
  DriverAlive
  HandshakeInOrder
  TelemetryAfterSetup
  EstablishedAgreement
  RevisionsAgree
  OnlySilenceCounts
CHECK_DEADLOCK FALSE
