\* Any home slots: a cluster that wraps from slot 15 to slot 0.
CONSTANTS
  k1 = k1
  k2 = k2
  k3 = k3
  v1 = v1
  v2 = v2
  NoKey = NoKey
  Keys <- MCKeys
  Vals <- MCVals
  EmptyKey <- NoKey
  InitialCapacity = 16
  HashChoices <- AnyHash
SYMMETRY KeySymmetry
SPECIFICATION AnyOrderSpec
PROPERTY Refinement
