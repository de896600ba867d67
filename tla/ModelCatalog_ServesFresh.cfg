SPECIFICATION CatalogSpec
CONSTANTS
  Caller = {h1, h2}
  Ttl = 2
  EmptyTtl = 1
  MaxTime = 5
PROPERTY ServesFresh
