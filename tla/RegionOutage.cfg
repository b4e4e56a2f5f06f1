SPECIFICATION Spec
CONSTANTS
  Posts = {p1}
  Capacity = 2
  DrCapacity = 1
  Threshold = 3
INVARIANT TypeOK
INVARIANT PublishedIsWhole
PROPERTY AdminReachesDr
PROPERTY AdminComesHome
PROPERTY IncidentRings
