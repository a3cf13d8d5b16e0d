SPECIFICATION FairSpec
CONSTANTS
  Cluster = {"c1"}
  Machine = {"a"}
  ClusterOf <- InOneCluster
  NameOf <- OneName
  Placement <- NotPlaced
  Given <- NoneGiven
  ServerId = {s1, s2, s3}
  GroupId = {}
  GroupsBefore <- NoGroups
  TagKey <- MCTagKey
  NameTag = "name"
  ClusterTag = "cluster"
  TagVal = {"c1", "m1", "x"}
  NoVal = ""
  UserTags <- SomeTags
  VolTags = {"none", "v"}
  NoVolTags = "none"
  GroupLimit = 4
  Kinds = {"fail", "lost", "vanish", "drift", "edit"}
  MaxFaults = 2
  Nil = Nil
  Multiple = Multiple
PROPERTIES DeletionIsCompleted Converges
