\* A read, an encryption change, a rename and a deletion; a reload and a crash
\* anywhere.
SPECIFICATION Spec
CONSTANTS
  read1 = read1
  encrypt1 = encrypt1
  rename1 = rename1
  delete1 = delete1
  kitchen = kitchen
  Tasks = {read1, encrypt1, rename1, delete1}
  Kind <- MCKindOf
  NewName <- Clearing
  Names = {kitchen}
  NoName = NoName
  Limit = 2
  Setup = Setup
  Nobody = Nobody
  MaxCrashes = 1
  MaxReloads = 1
INVARIANTS
  TypeOK
  AnsweredSurvives
  DeletedStaysDeleted
  FilesInSync
