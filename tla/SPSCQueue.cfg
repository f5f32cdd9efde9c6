\* A ring of 4 slots (capacity 3) and 9 records: it fills, its indices wrap twice and it
\* empties again.
CONSTANTS
  N = 4
  MaxItems = 9
SPECIFICATION Spec
INVARIANT TypeOK
INVARIANT NoSlotRace
PROPERTY Refinement
PROPERTY AllDelivered
