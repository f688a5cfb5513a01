SPECIFICATION Spec
CONSTANTS
  Nil = Nil
  EmptyValue = EmptyValue
  p1 = p1
  p2 = p2
  p3 = p3
  n1 = n1
  n2 = n2
  zone = zone
  za = za
  zb = zb
  pa = pa
  Pods = {p1, p2, p3}
  Nodes = {n1, n2}
  Keys = {zone}
  Values = {za, zb}
  PolicyNames = {pa}
  NodeVersions <- Zones
  PolicyVersions <- OneTwo
  MaxPerNode = 0
  Periodic = TRUE
  FlippingNodes = {n1, n2}
INVARIANTS
  SkipsOnlyReached
