SPECIFICATION FairSpec
CONSTANTS
  Replica = {r1, r2}
  Image = {"v1", "v2"}
  Data <- AnyData
  Nil = Nil
  MaxChanges = 3
INVARIANTS TypeOK NoneAsleep
PROPERTIES FollowsImages RemovedWithConfigMap
