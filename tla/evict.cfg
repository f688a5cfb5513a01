SPECIFICATION EvictionSpec
CONSTANTS
  Nil = Nil
  EmptyValue = EmptyValue
  p1 = p1
  p2 = p2
  p3 = p3
  n1 = n1
  n2 = n2
  zone = zone
  za = za
  zb = zb
  zc = zc
  pa = pa
  Pods = {p1, p2, p3}
  Nodes = {n1, n2}
  Keys = {zone}
  Values = {za, zb, zc}
  PolicyNames = {pa}
  NodeVersions <- MovingN2
  PolicyVersions <- OneTwoNegative
  MaxPerNode = 0
  Periodic = TRUE
  FlippingNodes = {n2}
  PodCount = 4
  Gap = 2
INVARIANTS
  TypeOK
  NoUndershoot
  PanicsOnNegativeOnly
  SortTypeOK
  IdleGoFirst
PROPERTIES
  QuotasStayMet
