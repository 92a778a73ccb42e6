SPECIFICATION Spec
CONSTANTS
  Units <- AllUnits
  MaxUnits = 3
INVARIANTS StaysInside MeansWhatItSays RefusesTheBad
\* A string ends.
CHECK_DEADLOCK FALSE
