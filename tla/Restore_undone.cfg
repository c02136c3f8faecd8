\* Whole and partial snapshots of either kind, onto targets of either kind
\* whose cached table may be stale; every exchange may fail.
SPECIFICATION Spec
CONSTANTS
  Snapshots <- MCSnapshots
  Selections <- MCSelections
INVARIANTS
  Reversible
