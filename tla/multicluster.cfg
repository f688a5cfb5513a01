SPECIFICATION FairSpec
CONSTANTS
  Nil = Nil
  p1 = p1
  p2 = p2
  va = va
  va2 = va2
  vb = vb
  vr = vr
  a = a
  b = b
  a1 = a1
  a2 = a2
  b1 = b1
  z1 = z1
  z2 = z2
  Pods = {p1, p2}
  Nodes = {va, va2, vb, vr}
  Clusters = {a, b}
  InnerNodes = {a1, a2, b1}
  Zones = {z1, z2}
  Virtual = {va, va2, vb}
  ClusterOf <- ClusterOfNode
  Configured = {a, b}
  Home <- HomeOf
  ZoneOf <- InZone
  NodeZone <- ZoneOfNode
  Candidates <- CandidatesOf
  OwnData <- OwnDataOf
  Selection <- SelectionOf
  Annotated = {p2}
  Avoids <- AvoidsSelf
  Spread = {p2}
  Repelling <- RepelledBy
  Capacity = 1
INVARIANTS
  TypeOK

PROPERTIES
  VerdictExact
  FindsItsCluster
