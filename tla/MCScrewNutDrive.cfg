SPECIFICATION FairSpec
CONSTANTS
  MaxSteps = 4
  TicksPerStep = 2
  Coords <- MCCoords
  Distances <- MCDistances
  Lowest <- MCLowest
  MaxQueue = 3
  Fallible = {"configure", "isAtHome", "startMovinig", "findHome", "setZeroPosition", "readStepsCounter", "setDirection"}
INVARIANTS
  TypeOK
  StoppedMeansStill
  PositionTrue
  WithinTravel
  NeverStranded
PROPERTIES
  ArrivesAtTarget
  MotionEnds
CHECK_DEADLOCK FALSE
