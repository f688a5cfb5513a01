SPECIFICATION Spec
CONSTANTS
  Nil = Nil
  EmptyValue = EmptyValue
  p1 = p1
  p2 = p2
  p3 = p3
  p4 = p4
  n1 = n1
  n2 = n2
  n3 = n3
  zone = zone
  oldzone = oldzone
  za = za
  zb = zb
  pa = pa
  pb = pb
  Pods = {p1, p2, p3}
  Nodes = {n1, n2}
  Keys = {zone}
  Values = {za, zb}
  PolicyNames = {pa}
  PolicyOf <- AllUnderPa
  NodeSelector <- P1OnN1
  OtherFilters <- AnyNode
  NodeVersions <- FixedNodes
  PolicyVersions <- OnlyFill12
INVARIANTS
  NoPanic
