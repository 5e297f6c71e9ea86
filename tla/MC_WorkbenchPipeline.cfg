SPECIFICATION Spec
CONSTANTS
  Session = {s1}
  NoRow = NoRow
  MaxRevision = 2
  MaxCrashes = 1
  MaxListings = 1
INVARIANTS
  AutomaticIsCurrent
PROPERTIES
  DecisionsStand
