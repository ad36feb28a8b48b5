CONSTANTS
  Readers = {i1, r1}
  Inspections = {i1}
  Writers = {w1, w2}
  Ranges <- SomeRanges
  Findings <- SomeFindings
  Tolerance = 1
  MinArea = 1
  MaxFaults = 1
SPECIFICATION Spec
INVARIANTS TypeOK ReadsAreCurrent PublishedIsStored NarrowerIsStricter AlertedIsQuarantined
SYMMETRY Interchangeable
CHECK_DEADLOCK FALSE
