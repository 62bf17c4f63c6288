SPECIFICATION Spec
CONSTANTS
  Clocks <- MCClocks
  MaxTicks = 1
  MaxChanges = 3
INVARIANTS TypeOK NothingUnsaved
PROPERTIES SetupReadsLocal ConfirmedTime ConfirmedDate
