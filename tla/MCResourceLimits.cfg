SPECIFICATION Spec
CONSTANTS
  Texts <- Words
  Requests <- Launches
  Profile <- Nic
  EditedConfig <- Options
  EditedDevices <- NicLimit
INVARIANTS
  TypeOK
  InForce
  NoLeftovers
PROPERTIES
  KeepsEdits
