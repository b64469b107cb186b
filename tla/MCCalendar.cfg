SPECIFICATION Spec
CONSTANTS
  Origins <- KnownDates
  MaxDays = 48000
  Clocks <- TriedClocks
  Fractions <- TriedFractions
  Zones <- TriedZones
INVARIANTS
  FormulaCountsDays
  StampsNameInstants
  RefusedOrCarried
CHECK_DEADLOCK FALSE
