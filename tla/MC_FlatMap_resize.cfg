\* Order ids 1..13 at their real home slots: the 13th insert doubles the table.
CONSTANTS
  k1 = k1
  k2 = k2
  k3 = k3
  v1 = v1
  v2 = v2
  NoKey = NoKey
  Keys <- Ids
  Vals <- OneVal
  EmptyKey = 0
  InitialCapacity = 16
  HashChoices <- MixerLowBits
SPECIFICATION ClientSpec
INVARIANT TypeOK
INVARIANT SizeCounts
INVARIANT EntriesReachable
PROPERTY Refinement
