\* Two ducks and four finds, dated ahead or further back than the missing page
\* waits (which is configured), on a front page of one row.
CONSTANTS
  d1 = d1
  d2 = d2
  v1 = v1
  v2 = v2
  Ducks = {d1, d2}
  Vessels = {v1, v2}
  FrontPageLimit = 1
  MissingAfter = 1
  Backdate = 2
  Ahead = 1
  MaxNow = 4
  MaxSightings = 4
SPECIFICATION Spec
SYMMETRY DuckVesselSymmetry
INVARIANTS ListingsInv ListedDucksOpen MissingIsAdrift
PROPERTIES FindKeepsAfloat FindNeverDemotes
