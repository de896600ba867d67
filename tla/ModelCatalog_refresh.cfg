SPECIFICATION CatalogFairSpec
CONSTANTS
  Caller = {h1, h2, h3}
  Ttl = 2
  EmptyTtl = 1
  MaxTime = 5
INVARIANT
  CatalogTypeOK
PROPERTIES
  Answered
  RestsBetweenFetches
