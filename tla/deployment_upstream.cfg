SPECIFICATION Spec
CONSTANTS
  Replica = {r1}
  Image = {"v1", "v2"}
  Data = {"v1"}
  Nil = Nil
  MaxChanges = 3
PROPERTIES NotCreatedBesideUpstream
