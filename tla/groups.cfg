SPECIFICATION Spec
CONSTANTS
  Cluster = {"c1", "c2"}
  Machine = {"a", "b", "d"}
  ClusterOf <- TwoAndOne
  NameOf <- TwoNames
  Placement <- SameKey
  Given <- OneGiven
  ServerId = {s1, s2, s3}
  GroupId = {"g0", "g1", "g2"}
  GroupsBefore <- OtherGroup
  TagKey <- MCTagKey
  NameTag = "name"
  ClusterTag = "cluster"
  TagVal = {"c1", "c2", "m1", "m2"}
  NoVal = ""
  UserTags <- PlainTags
  VolTags = {"none"}
  NoVolTags = "none"
  GroupLimit = 1
  Kinds = {}
  MaxFaults = 0
  Nil = Nil
  Multiple = Multiple
SYMMETRY Symmetry
INVARIANTS GroupOverrun
CONSTRAINT OneDeletion
