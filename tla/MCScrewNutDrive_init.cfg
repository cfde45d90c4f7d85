SPECIFICATION FairSpec
CONSTANTS
  MaxSteps = 4
  TicksPerStep = 2
  Coords <- MCCoords
  Distances <- MCDistances
  Lowest <- MCLowest
  MaxQueue = 3
  Fallible = {"configure", "isAtHome", "startMovinig", "findHome", "setZeroPosition", "readStepsCounter", "setDirection"}
PROPERTY InitConcludes
CHECK_DEADLOCK FALSE
