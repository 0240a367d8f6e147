SPECIFICATION FairSpec
CONSTANTS
  c1 = c1  c2 = c2  d1 = d1  g1 = g1  f1 = f1
  Clients <- MCClients
  Paths <- MCPaths
  Does <- MCDoes
INVARIANTS TypeOK ListComplete
PROPERTIES RenamesWhatWasNamed ListEnds
