SPECIFICATION Spec
CONSTANTS
  Cluster = {"c1", "c2"}
  Machine = {"a", "b"}
  ClusterOf <- InTwoClusters
  NameOf <- OneName
  Placement <- NotPlaced
  Given <- NoneGiven
  ServerId = {s1, s2}
  GroupId = {}
  GroupsBefore <- NoGroups
  TagKey <- MCTagKey
  NameTag = "name"
  ClusterTag = "cluster"
  TagVal = {"c1", "c2", "m1"}
  NoVal = ""
  UserTags <- PlainTags
  VolTags = {"none"}
  NoVolTags = "none"
  GroupLimit = 4
  Kinds = {"lost", "vanish"}
  MaxFaults = 1
  Nil = Nil
  Multiple = Multiple
SYMMETRY Symmetry
INVARIANTS LinkIsOwn
PROPERTIES OnlyOwnServers ImplementsLifecycle
