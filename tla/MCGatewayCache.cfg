SPECIFICATION CacheSpec
CONSTANTS
  g1 = g1
  g2 = g2
  g3 = g3
  Gateways <- MCGateways
  Wanted <- MCWanted
  MaxRtt = 2
  Session = session
  TopUps = {t1}
  MAX_CACHED_MASQUE_GATEWAYS = 2
  MASQUE_CACHE_WARM_ENOUGH = 2
PROPERTIES
  LoneUpdatesAreAtomic
