\* Three concepts, three rows: a cycle of claims, a merged chain, a collision.
SPECIFICATION ReadsSpec
CONSTANTS
  Entities = {a, b, c}
  Kind <- Concepts
  Reviewers = {}
  LineageDepth = 32
  MaxRepairs = 2
  AllowRemerge = FALSE
  None = None
  x1 = x1
  x2 = x2
  k1 = k1
  k2 = k2
  k3 = k3
  Experiences = {x1, x2}
  Forms = {f1}
  Claims = {k1, k2, k3}
  Draft <- Drafts
  MaxHops = 2
  Floors = {500}
  MaxRows = 3
  MaxQueued = 1
INVARIANTS
  WalkIsOverClusters
  
  
PROPERTIES
  SplitsRunBack
SYMMETRY Symmetry
CHECK_DEADLOCK FALSE
