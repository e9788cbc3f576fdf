\* Three instances that start together, one of them with a pool of one
\* connection, and two crashes at any point.
CONSTANTS
  i1 = i1
  i2 = i2
  i3 = i3
  Nobody = Nobody
  Instances = {i1, i2, i3}
  Pool <- MCPool
  Migrations = 2
  MaxCrashes = 2
SPECIFICATION FairSpec
INVARIANTS ServesMigrated ColdStartsFine OneStarter
PROPERTIES EveryInstanceServes
