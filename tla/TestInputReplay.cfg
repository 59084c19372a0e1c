SPECIFICATION FairSpec
CONSTANTS
  Routes <- MCRoutes
  Begin <- MCBegin
  Modulus = 16
  MaxReloads = 3
  Neutral = "neutral"
  Live = "live"
INVARIANT RouteIsExact
PROPERTY RouteEnds
