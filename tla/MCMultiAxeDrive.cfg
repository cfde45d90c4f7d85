SPECIFICATION FairSpec
CONSTANTS
  Axes = {"X", "Y"}
  End <- MCEnd
  Resolutions = {1, 2}
  Travels = {3}
  Coords = {0, 3}
  Distances = {1}
  MaxQueue = 2
  Fallible = {"configure", "moveToEnd", "curCoord", "moveTo", "stop"}
INVARIANTS
  TypeOK
  NeverStranded
  OnItsWay
  PositionKnown
PROPERTIES
  ArrivesAtTarget
  MotionEnds
CHECK_DEADLOCK FALSE
