SPECIFICATION Spec
CONSTANTS
  MachineSet = {ms1}
  Flavor <- MCFlavor
  Size <- MCSize
  KeyOrder <- MCKeyOrder
  LabelVal = {"x", "y", "amd64", "arm64"}
  ArchKey = "kubernetes.io/arch"
  Amd64 = "amd64"
  Junk = Junk
  UserText <- MCUserText
  Unset = Unset
  MaxChanges = 2
PROPERTIES ExistingLabelsPreserved
