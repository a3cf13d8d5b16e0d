SPECIFICATION FairSpec
CONSTANTS
  Input <- MCInput
  SecretKey <- MCSecretKey
  Contents <- MCContents
  ManagedSecret <- MCManagedSecret
  DefaultToken = "default"
  Project <- MCProject
  Nil = Nil
  MaxChanges = 1
INVARIANTS TypeOK RightProject NodeIsApproved NothingLeftBehind
PROPERTIES BootsAsSpecified CreatedWhenComplete DeletedWhenAccessible
