SPECIFICATION Spec
CONSTANTS
  Origins <- FromTheEpoch
  MaxDays = 100
  Clocks <- Noon
  Fractions <- NoFraction
  Zones <- Utc
INVARIANT OnlyTimestampsAreRead
CHECK_DEADLOCK FALSE
