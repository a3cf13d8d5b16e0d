SPECIFICATION FairSpec
CONSTANTS
  Cluster = {"c1"}
  Machine = {"a", "b"}
  ClusterOf <- InOneCluster
  NameOf <- TwoNames
  Placement <- NotPlaced
  Given <- NoneGiven
  ServerId = {s1}
  GroupId = {}
  GroupsBefore <- NoGroups
  TagKey <- MCTagKey
  NameTag = "name"
  ClusterTag = "cluster"
  TagVal = {"c1", "m1", "m2"}
  NoVal = ""
  UserTags <- PlainTags
  VolTags = {"none"}
  NoVolTags = "none"
  GroupLimit = 4
  Kinds = {}
  MaxFaults = 0
  Nil = Nil
  Multiple = Multiple
PROPERTIES DeletionIsCompleted
