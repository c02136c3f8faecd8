\* A reload while an encryption change saves its snapshot.
SPECIFICATION Spec
CONSTANTS
  read1 = read1
  encrypt1 = encrypt1
  rename1 = rename1
  delete1 = delete1
  kitchen = kitchen
  Tasks = {read1, encrypt1}
  Kind <- MCKindOf
  NewName <- Clearing
  Names = {kitchen}
  NoName = NoName
  Limit = 2
  Setup = Setup
  Nobody = Nobody
  MaxCrashes = 0
  MaxReloads = 1
INVARIANTS
  AnsweredIsKept
