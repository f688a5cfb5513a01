SPECIFICATION FairSpec
CONSTANTS
  Namespaces = {ns1, ns2}
  Names = {pa}
  NamespaceAll = NamespaceAll
  FactoryNamespace = NamespaceAll
  Nil = Nil
  Informers = {i1, i2}
  Reflectors = {g1, g2}
  MaxRevision = 2
INVARIANTS
  TypeOK
  StandingPoliciesAreFound
  NothingMissed
PROPERTIES
  ImplementsView
  ComesUp
  CatchesUp
